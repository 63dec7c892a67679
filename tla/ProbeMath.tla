------------------------------ MODULE ProbeMath ------------------------------
(***************************************************************************)
(* What the probes compute: the CUDA conversion of a captured picture to   *)
(* the encoder's planes (probes/video/plank-probe-video-pipeline.cpp, and  *)
(* the packed form of probes/nvfbc), the rows the X11 probe gives to its   *)
(* threads, the ranks of percentiles, and the output the KMS player picks. *)
(* A behaviour sets one task and computes it.                              *)
(***************************************************************************)
EXTENDS Integers, Sequences, FiniteSets

CONSTANTS Widths, Heights,
          Pads,             \* what the driver adds to a row of the surface
          ThreadsPerBlock,  \* 256
          SampleCounts, RowCounts, ThreadCounts,
          Areas, Rates      \* of the modes of a display

VARIABLES task, result

vars == <<task, result>>

Pending == [kind |-> "pending"]

-----------------------------------------------------------------------------
(* The conversion kernels.                                                 *)

\* Mutant: the middle threshold is one late.
ExpandLate(v) ==
  4 * v + Cardinality({t \in {43, 129, 213} : v >= t})

\* Eight bits to ten, as the kernel adds it up.
Expand(v) ==
  4 * v + Cardinality({t \in {43, 128, 213} : v >= t})

\* The same on the host, for the self test.
ExpandOnHost(v) == (v * 1023 + 127) \div 255

\* A source pixel: its number in the colours, so that no two are alike.
Blue(i) == (37 * i + 11) % 256
Green(i) == (91 * i + 70) % 256
Red(i) == (53 * i + 199) % 256
Plane(k, i) == CASE k = 0 -> Green(i) [] k = 1 -> Blue(i) [] k = 2 -> Red(i)

Pitch(p) == p.width * p.bytes + p.pad
Pixels(p) == p.width * p.height

\* The threads that do not return at once: whole blocks are launched.
Launched(p) == 0 .. ((Pixels(p) + ThreadsPerBlock - 1) \div ThreadsPerBlock) * ThreadsPerBlock - 1
Threads(p) == {i \in Launched(p) : i < Pixels(p)}

\* Where thread i writes its value of plane k.
Address(p, i, k) == i * p.bytes + k * Pitch(p) * p.height

Stored(p, v) == IF p.bytes = 1 THEN v ELSE IF p.shifted THEN Expand(v) * 64 ELSE Expand(v)

\* The surface after the launch: what the threads wrote, by address.
LaunchConversion(p) ==
  {[at |-> Address(p, i, k), value |-> Stored(p, Plane(k, i))] : i \in Threads(p), k \in 0 .. 2}

\* The encoder's reading of the registered surface: row y of plane k.
EncoderReads(p, x, y, k) == k * Pitch(p) * p.height + y * Pitch(p) + x * p.bytes

-----------------------------------------------------------------------------
(* The rows of the X11 probe's threads.                                    *)

\* Mutant: every thread gets the same number of rows.
RowsEven(height, n, i) ==
  (height \div n) * i .. (height \div n) * (i + 1) - 1

Rows(height, n, i) ==
  (height * i) \div n .. (height * (i + 1)) \div n - 1

-----------------------------------------------------------------------------
(* The rank of a percentile in the sorted samples, from 0.  The encoder    *)
(* probe and the other probes have a form each.                            *)

\* Mutant: the rank is rounded down.
PercentileDown(n, percent) == (n * percent) \div 100

Percentile(n, percent) == (n * percent + 99) \div 100 - 1

\* Mutant: the share is taken of the number of samples.
PercentileDownOfCount(n, percent) == (percent * n) \div 100

\* The players and the X11 probe cut off fraction * (n - 1).  (The product of
\* the doubles, cut off, is this quotient for 0.50, 0.95 and 0.99 and every
\* count up to 200000.)
PlayerPercentile(n, percent) == (percent * (n - 1)) \div 100

-----------------------------------------------------------------------------
(* The output of the KMS player.  A mode is [area, preferred, hz].         *)

BetterMode(candidate, best) ==
  IF candidate.area # best.area THEN candidate.area > best.area
  ELSE IF candidate.preferred # best.preferred THEN candidate.preferred
  ELSE candidate.hz > best.hz

\* The mode that stands after all of a connector's.
BestMode(modes) ==
  LET best[n \in 1 .. Len(modes)] ==
        IF n = 1 THEN 1
        ELSE IF BetterMode(modes[n], modes[best[n - 1]]) THEN n ELSE best[n - 1]
  IN best[Len(modes)]

\* A connector is passed over unless it is connected and has modes and a CRTC.
Usable(c) == c.connected /\ c.modes # <<>> /\ c.crtc

NoOutput == <<0, 0>>
\* Connector and mode, or none; the choice must run at 59 to 61 Hz.
SelectOutput(connectors) ==
  LET chosen[n \in 0 .. Len(connectors)] ==
        IF n = 0 THEN NoOutput
        ELSE LET c == connectors[n]
                 before == chosen[n - 1]
             IN IF ~Usable(c) THEN before
                ELSE IF before = NoOutput
                        \/ BetterMode(c.modes[BestMode(c.modes)],
                                      connectors[before[1]].modes[before[2]])
                THEN <<n, BestMode(c.modes)>> ELSE before
      found == chosen[Len(connectors)]
  IN IF found = NoOutput THEN NoOutput
     ELSE IF connectors[found[1]].modes[found[2]].hz \in 59 .. 61 THEN found ELSE NoOutput

-----------------------------------------------------------------------------
\* The encoder's surfaces, of ten bits in the upper bits or of eight, and the
\* packed planes of nvfbc, ten bits in the lower bits.
Pictures ==
  [width : Widths, height : Heights, pad : Pads, bytes : {2}, shifted : {TRUE}]
  \union [width : Widths, height : Heights, pad : Pads, bytes : {1}, shifted : {FALSE}]
  \union [width : Widths, height : Heights, pad : {0}, bytes : {2}, shifted : {FALSE}]

Modes == [area : Areas, preferred : BOOLEAN, hz : Rates]
Connectors ==
  [connected : {TRUE}, crtc : {TRUE}, modes : UNION {[1 .. n -> Modes] : n \in 0 .. 2}]
  \union [connected : {FALSE}, crtc : {TRUE}, modes : [1 .. 1 -> Modes]]
  \union [connected : {TRUE}, crtc : {FALSE}, modes : [1 .. 1 -> Modes]]
Outputs == UNION {[1 .. n -> Connectors] : n \in 1 .. 2}

Tasks ==
  {[kind |-> "convert", picture |-> p] : p \in Pictures}
  \union {[kind |-> "expand", value |-> v] : v \in 0 .. 255}
  \union {[kind |-> "rows", height |-> h, threads |-> n] : h \in RowCounts, n \in ThreadCounts}
  \union {[kind |-> "rank", count |-> n, percent |-> p] :
            n \in SampleCounts, p \in {50, 95, 99, 100}}
  \union {[kind |-> "player_rank", count |-> n, percent |-> p] :
            n \in SampleCounts, p \in {50, 95, 99}}
  \union {[kind |-> "output", connectors |-> c] : c \in Outputs}

Answer(t) ==
  CASE t.kind = "convert" -> LaunchConversion(t.picture)
    [] t.kind = "expand" -> Expand(t.value)
    [] t.kind = "rows" -> [i \in 0 .. t.threads - 1 |-> Rows(t.height, t.threads, i)]
    [] t.kind = "rank" -> Percentile(t.count, t.percent)
    [] t.kind = "player_rank" -> PlayerPercentile(t.count, t.percent)
    [] t.kind = "output" -> SelectOutput(t.connectors)

Init == task \in Tasks /\ result = Pending

Compute ==
  /\ result = Pending
  /\ result' = [kind |-> "done", answer |-> Answer(task)]
  /\ UNCHANGED task

Spec == Init /\ [][Compute]_vars

-----------------------------------------------------------------------------
(* Properties.                                                             *)

\* Every row of the picture goes to exactly one thread of the X11 probe.
RowsPartition(t, rows) ==
  \A y \in 0 .. t.height - 1 : Cardinality({i \in DOMAIN rows : y \in rows[i]}) = 1

\* The nearest rank: the first sample that at least percent of them do not exceed.
NearestRank(t, rank) ==
  /\ rank \in 0 .. t.count - 1
  /\ (rank + 1) * 100 >= t.count * t.percent
  /\ rank * 100 < t.count * t.percent

\* The nearest rank or the one below it: a gate on this percentile passes with
\* at most one sample more above its limit than the nearest rank would let.
NearestOrBelow(t, rank) ==
  /\ rank \in 0 .. t.count - 1
  /\ (rank + 2) * 100 >= t.count * t.percent
  /\ rank * 100 < t.count * t.percent

\* No usable mode is better than the chosen one, no earlier one is as good, and
\* nothing is chosen only if there is none or the best does not run at 60 Hz.
FirstBest(t, choice) ==
  LET all == {x \in (DOMAIN t.connectors) \X (1 .. 2) :
                Usable(t.connectors[x[1]]) /\ x[2] \in DOMAIN t.connectors[x[1]].modes}
      mode(x) == t.connectors[x[1]].modes[x[2]]
      best == {x \in all : \A y \in all : ~BetterMode(mode(y), mode(x))}
      first == {x \in best : \A y \in best : x[1] < y[1] \/ (x[1] = y[1] /\ x[2] <= y[2])}
  IN IF choice = NoOutput THEN \A x \in first : mode(x).hz \notin 59 .. 61
     ELSE {choice} = first

\* The values of every pixel are where the encoder reads them.
Seen(p, surface) ==
  \A x \in 0 .. p.width - 1, y \in 0 .. p.height - 1, k \in 0 .. 2 :
    {w.value : w \in {w \in surface : w.at = EncoderReads(p, x, y, k)}}
      = {Stored(p, Plane(k, y * p.width + x))}

\* What a probe computes is what it reports: an expanded component is the
\* nearest ten-bit value and the host's own expansion of it, a picture in an
\* unpadded surface is seen as captured, rows are shared out exactly once, the
\* encoder probe's percentiles are nearest ranks, those of the players and of
\* the X11 probe are nearest ranks or one below, and the output is the first
\* of the best.
ComputesItsReport ==
  result # Pending =>
    LET a == result.answer IN
    CASE task.kind = "expand" ->
           /\ a = ExpandOnHost(task.value)
           /\ 2 * (a * 255 - task.value * 1023) \in -255 .. 255
      [] task.kind = "convert" -> task.picture.pad = 0 => Seen(task.picture, a)
      [] task.kind = "rows" -> RowsPartition(task, a)
      [] task.kind = "rank" -> NearestRank(task, a)
      [] task.kind = "player_rank" -> NearestOrBelow(task, a)
      [] task.kind = "output" -> FirstBest(task, a)

\* "CUDA expands the 8-bit full-range BGRA components into the 10-bit 4:4:4
\* encoder surface with Y=G, U=B, and V=R": also when the driver pads the rows of
\* the surface, whose pitch the encoder is told.
EncoderSeesPicture ==
  (result # Pending /\ task.kind = "convert" /\ task.picture.bytes = 2) =>
    Seen(task.picture, result.answer)

=============================================================================
