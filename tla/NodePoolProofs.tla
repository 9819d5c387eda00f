----------------------------- MODULE NodePoolProofs -----------------------------
(***************************************************************************)
(* Proofs about NodePool for any answers, any number of workers and any       *)
(* limits: the hand-over between feeder, workers and wg.Wait loses no         *)
(* candidate and measures none twice; what ValidateOpenVPNProfile returns     *)
(* passes it again, for profiles of any length; the candidates are the best   *)
(* rows of the answer, best first.                                           *)
(***************************************************************************)
EXTENDS NodePool, FiniteSetTheorems, WellFoundedInduction, TLAPS

IsSeq(s) == Len(s) \in Nat /\ s = [k \in 1 .. Len(s) |-> s[k]]

\* What FetchReturns rests on: no worker has left while a candidate is still to be sent.
FeederServed == stage = "bench" /\ fed < Len(pool) => gone = {}

\* Sent candidates are measured or in the hands of one worker; the others are
\* still to be sent; a worker that has left holds none.
PoolInv ==
  /\ IsSeq(pool) /\ IsSeq(file)
  /\ holds \in [Workers -> Nat] /\ gone \subseteq Workers /\ fed \in Nat
  /\ stage = "bench" => fed <= Len(pool)
  /\ FeederServed
  /\ \A w \in Workers : holds[w] # 0 => stage = "bench" /\ holds[w] <= fed /\ w \notin gone
  /\ \A v, w \in Workers : holds[v] = holds[w] /\ holds[v] # 0 => v = w
  /\ stage = "bench" =>
       \A i \in 1 .. fed : pool[i].tested \/ \E w \in Workers : holds[w] = i
  /\ stage \in {"down", "save"} => \A i \in DOMAIN pool : pool[i].tested
  /\ Measured

\* A function on 1 .. n is a sequence of length n.
LEMMA Sequence ==
  ASSUME NEW f, NEW n \in Nat, f = [k \in 1 .. n |-> f[k]]
  PROVE  Len(f) = n /\ IsSeq(f)
<1> DEFINE S == {f[k] : k \in 1 .. n}
<1>1. f \in [1 .. n -> S]
  OBVIOUS
<1>2. f \in Seq(S)
  BY <1>1
<1>3. Len(f) = n
  BY <1>1, <1>2
<1> QED
  BY <1>3 DEF IsSeq

\* So is the empty one.
LEMMA Empty == Len(<<>>) = 0 /\ IsSeq(<<>>)
<1>1. <<>> = [k \in 1 .. 0 |-> <<>>[k]]
  OBVIOUS
<1> QED
  BY <1>1, Sequence, 0 \in Nat

\* The accepted rows are finitely many.
LEMMA AcceptedFinite ==
  ASSUME NEW rows \in Answers
  PROVE  /\ Len(rows) \in Nat /\ DOMAIN rows = 1 .. Len(rows)
         /\ IsFiniteSet(Accepted(rows)) /\ Cardinality(Accepted(rows)) \in Nat
         /\ Accepted(rows) \subseteq 1 .. Len(rows)
         /\ \A i \in DOMAIN rows : rows[i] \in Rows
<1>1. Len(rows) \in Nat /\ DOMAIN rows = 1 .. Len(rows) /\ \A i \in DOMAIN rows : rows[i] \in Rows
  BY PoolAssumption DEF PoolAssumption
<1>2. Accepted(rows) \subseteq 1 .. Len(rows)
  BY <1>1 DEF Accepted
<1>3. IsFiniteSet(1 .. Len(rows))
  BY <1>1, FS_Interval, 1 \in Int
<1>4. IsFiniteSet(Accepted(rows))
  BY <1>2, <1>3, FS_Subset
<1> QED
  BY <1>1, <1>2, <1>4, FS_CardinalityType

\* The candidates of an answer are a sequence.
LEMMA CandidatesSequence ==
  ASSUME NEW rows \in Answers
  PROVE  IsSeq(Candidates(rows))
<1> DEFINE n == Least(Cardinality(Accepted(rows)), MaxScanRows)
           c == Candidates(rows)
<1>1. n \in Nat
  BY AcceptedFinite, PoolAssumption DEF PoolAssumption, Least
<1>2. c = [k \in 1 .. n |-> c[k]]
  BY DEF Candidates
<1> QED
  BY <1>1, <1>2, Sequence

\* PoolInv holds at the start ...
LEMMA Initially == Init => PoolInv
<1> SUFFICES ASSUME Init PROVE PoolInv
  OBVIOUS
<1> QED
  BY Empty DEF Init, PoolInv, FeederServed, Measured, IsSeq

\* ... and every step keeps it.
LEMMA Inductive == PoolInv /\ [Next]_vars => PoolInv'
<1> SUFFICES ASSUME PoolInv, [Next]_vars PROVE PoolInv'
  OBVIOUS
<1>1. CASE Start
  BY <1>1 DEF Start, PoolInv, FeederServed, Measured, bench, IsSeq
<1>2. CASE FetchAndBench
  <2>1. IsSeq(pool') /\ stage' = "fetch"
    BY <1>2, Empty DEF FetchAndBench
  <2> QED
    BY <1>2, <2>1 DEF FetchAndBench, PoolInv, FeederServed, Measured, bench, IsSeq
<1>3. CASE FetchFails
  <2>1. IsSeq(pool') /\ (pool' = file \/ DOMAIN pool' = {}) /\ stage' = "idle"
    BY <1>3, Empty DEF FetchFails, PoolInv
  <2> QED
    BY <1>3, <2>1 DEF FetchFails, PoolInv, FeederServed, Measured, bench, IsSeq
<1>4. CASE NotAList
  <2>1. IsSeq(pool') /\ DOMAIN pool' = {} /\ stage' = "idle"
    BY <1>4, Empty DEF NotAList
  <2> QED
    BY <1>4, <2>1 DEF NotAList, PoolInv, FeederServed, Measured, bench, IsSeq
<1>5. CASE Fetched
  <2>1. IsSeq(pool')
    BY <1>5, CandidatesSequence DEF Fetched
  <2> QED
    BY <1>5, <2>1 DEF Fetched, PoolInv, FeederServed, Measured, IsSeq
<1>6. ASSUME NEW w \in Workers, Send(w) PROVE PoolInv'
  <2>1. fed' = fed + 1 /\ fed \in Nat /\ fed' \in Nat /\ fed' <= Len(pool) /\ fed' # 0
    BY <1>6 DEF Send, PoolInv, IsSeq
  <2>2. holds'[w] = fed' /\ \A v \in Workers : v # w => holds'[v] = holds[v]
    BY <1>6, <2>1 DEF Send, PoolInv
  <2>3. holds' \in [Workers -> Nat]
    BY <1>6, <2>1 DEF Send, PoolInv
  <2>4. \A v \in Workers : holds[v] # fed'
    BY <2>1 DEF PoolInv
  <2>5. UNCHANGED <<stage, pool, gone, file>> /\ stage = "bench" /\ w \notin gone
    BY <1>6 DEF Send
  <2>6. \A i \in 1 .. fed' : i = fed' \/ i \in 1 .. fed
    BY <2>1
  <2>7. \A i \in 1 .. fed : \A v \in Workers : holds[v] = i => holds'[v] = i
    BY <1>6, <2>2 DEF Send
  <2>8. \A i \in 1 .. fed' : pool[i].tested \/ \E v \in Workers : holds'[v] = i
    BY <2>2, <2>5, <2>6, <2>7 DEF PoolInv
  <2>9. \A v \in Workers : holds'[v] # 0 => holds'[v] <= fed' /\ v \notin gone
    BY <2>1, <2>2, <2>5 DEF PoolInv
  <2>10. \A u, v \in Workers : holds'[u] = holds'[v] /\ holds'[u] # 0 => u = v
    BY <2>2, <2>4 DEF PoolInv
  <2> QED
    BY <2>1, <2>3, <2>5, <2>8, <2>9, <2>10 DEF PoolInv, FeederServed, Measured, IsSeq
<1>7. ASSUME NEW w \in Workers, Probe(w) PROVE PoolInv'
  <2> DEFINE h == holds[w]
  <2>1. h \in Nat /\ h # 0 /\ h <= fed /\ fed <= Len(pool) /\ fed \in Nat /\ Len(pool) \in Nat
    BY <1>7 DEF Probe, PoolInv, IsSeq
  <2>2. DOMAIN pool = 1 .. Len(pool)
    BY DEF PoolInv, IsSeq
  <2>3. h \in DOMAIN pool
    BY <2>1, <2>2
  <2>4. PICK r \in BOOLEAN : pool' = [pool EXCEPT ![h] = Node(@.row, @.text, TRUE, r)]
    BY <1>7 DEF Probe
  <2>5. pool' = [k \in 1 .. Len(pool) |-> pool'[k]]
    BY <2>2, <2>4
  <2>6. Len(pool') = Len(pool) /\ IsSeq(pool')
    BY <2>1, <2>5, Sequence
  <2>7. pool'[h].tested /\ \A i \in DOMAIN pool : i # h => pool'[i] = pool[i]
    BY <2>3, <2>4 DEF Node
  <2>8. holds'[w] = 0 /\ \A v \in Workers : v # w => holds'[v] = holds[v]
    BY <1>7 DEF Probe, PoolInv
  <2>9. holds' \in [Workers -> Nat]
    BY <1>7 DEF Probe, PoolInv
  <2>10. UNCHANGED <<stage, fed, gone, file>> /\ stage = "bench"
    BY <1>7 DEF Probe
  <2>11. \A i \in 1 .. fed : pool'[i].tested \/ \E v \in Workers : holds'[v] = i
    <3> SUFFICES ASSUME NEW i \in 1 .. fed, i # h
                 PROVE  pool'[i].tested \/ \E v \in Workers : holds'[v] = i
      BY <2>7
    <3>1. i \in DOMAIN pool
      BY <2>1, <2>2
    <3>2. pool'[i] = pool[i]
      BY <2>7, <3>1
    <3>3. pool[i].tested \/ \E v \in Workers : holds[v] = i
      BY <2>10 DEF PoolInv
    <3> QED
      BY <2>8, <3>2, <3>3
  <2>12. \A v \in Workers : holds'[v] # 0 => holds'[v] <= fed /\ v \notin gone
    BY <2>8 DEF PoolInv
  <2>13. \A u, v \in Workers : holds'[u] = holds'[v] /\ holds'[u] # 0 => u = v
    BY <2>8 DEF PoolInv
  <2> QED
    BY <2>1, <2>6, <2>9, <2>10, <2>11, <2>12, <2>13 DEF PoolInv, FeederServed, Measured, IsSeq
<1>8. ASSUME NEW w \in Workers, Leave(w) PROVE PoolInv'
  BY <1>8 DEF Leave, PoolInv, FeederServed, Measured, IsSeq
<1>9. CASE Joined
  <2>1. fed = Len(pool) /\ DOMAIN pool = 1 .. fed /\ \A w \in Workers : holds[w] = 0
    BY <1>9 DEF Joined, PoolInv, IsSeq
  <2>2. \A i \in DOMAIN pool : i \in 1 .. fed /\ i # 0
    BY <2>1 DEF PoolInv
  <2>3. \A i \in DOMAIN pool : pool[i].tested
    BY <1>9, <2>1, <2>2 DEF Joined, PoolInv
  <2> QED
    BY <1>9, <2>1, <2>3 DEF Joined, PoolInv, FeederServed, Measured, bench, IsSeq
<1>10. CASE Save
  <2>1. IsSeq(InJSON(pool)) /\ DOMAIN InJSON(pool) = DOMAIN pool
    <3>1. Len(pool) \in Nat /\ InJSON(pool) = [k \in 1 .. Len(pool) |-> InJSON(pool)[k]]
      BY DEF InJSON, PoolInv, IsSeq
    <3> QED
      BY <3>1, Sequence DEF InJSON
  <2>2. \A i \in DOMAIN pool : InJSON(pool)[i].tested = pool[i].tested
    BY DEF InJSON, Node
  <2>3. file' \in {InJSON(pool), file} /\ \A i \in DOMAIN pool : pool[i].tested
    BY <1>10 DEF Save, PoolInv
  <2>4. IsSeq(file') /\ \A i \in DOMAIN file' : file'[i].tested
    BY <2>1, <2>2, <2>3 DEF PoolInv, Measured
  <2> QED
    BY <1>10, <2>4 DEF Save, PoolInv, FeederServed, Measured, IsSeq
<1>11. CASE Cancel
  BY <1>11 DEF Cancel, PoolInv, FeederServed, Measured, bench, IsSeq
<1>12. CASE Ends
  <2>1. IsSeq(pool') /\ DOMAIN pool' = {} /\ stage' = "down" /\ fed' = 0
        /\ holds' \in [Workers -> Nat] /\ \A w \in Workers : holds'[w] = 0
    BY <1>12, Empty DEF Ends
  <2> QED
    BY <1>12, <2>1 DEF Ends, PoolInv, FeederServed, Measured, IsSeq
<1>13. CASE UNCHANGED vars
  BY <1>13 DEF vars, bench, PoolInv, FeederServed, Measured, IsSeq
<1> QED
  BY <1>1, <1>2, <1>3, <1>4, <1>5, <1>6, <1>7, <1>8, <1>9, <1>10, <1>11, <1>12, <1>13
     DEF Next, Answer

\* Every node that is offered or saved has been measured, for any number of
\* workers and any answers, also if the program was killed or cancelled meanwhile.
THEOREM OfferedAreMeasured == Spec => []Measured
<1>1. PoolInv => Measured
  BY DEF PoolInv
<1> QED
  BY <1>1, Initially, Inductive, PTL DEF Spec

\* No candidate is in the hands of two workers, whatever order they take them in.
THEOREM DialledOnce ==
  Spec => [](\A v, w \in Workers : holds[v] = holds[w] /\ holds[v] # 0 => v = w)
<1>1. PoolInv => \A v, w \in Workers : holds[v] = holds[w] /\ holds[v] # 0 => v = w
  BY DEF PoolInv
<1> QED
  BY <1>1, Initially, Inductive, PTL DEF Spec

\* The feeder of the unbuffered channel is never left alone: workers go only after
\* the last candidate, also if the context is cancelled (benchmark.go:36).
THEOREM FeederNeverStuck == Spec => []FeederServed
<1>1. PoolInv => FeederServed
  BY DEF PoolInv
<1> QED
  BY <1>1, Initially, Inductive, PTL DEF Spec

-----------------------------------------------------------------------------
(* Induction over the lines of a profile.  The principle is stated of a set,  *)
(* the form in which the provers can use it.                                 *)

\* A set of numbers has a least element.
LEMMA LeastElement ==
  ASSUME NEW T, T \subseteq Nat, T # {}
  PROVE  \E m \in T : \A k \in T : m <= k
<1> DEFINE R == {pair \in Nat \X Nat : pair[1] < pair[2]}
<1>1. IsWellFoundedOn(R, Nat)
  <2>1. R = OpToRel(<, Nat)
    BY DEF OpToRel
  <2> QED
    BY <2>1, NatLessThanWellFounded
<1>2. \A x, y \in Nat : <<y, x>> \in R <=> y < x
  OBVIOUS
<1> HIDE DEF R
<1>3. PICK m \in T : \A k \in T : <<k, m>> \notin R
  BY <1>1, WFMin
<1>4. \A k \in T : k \in Nat /\ ~ (k < m)
  BY <1>2, <1>3
<1> QED
  BY <1>4

\* What holds of 0, and of i + 1 if of i, holds of all numbers up to n.
LEMMA Induction ==
  ASSUME NEW n \in Nat, NEW S, 0 \in S, \A i \in 0 .. n - 1 : i \in S => i + 1 \in S
  PROVE  \A i \in 0 .. n : i \in S
<1> DEFINE T == {i \in 0 .. n : i \notin S}
<1> SUFFICES ASSUME T # {} PROVE FALSE
  OBVIOUS
<1>1. T \subseteq Nat
  OBVIOUS
<1> HIDE DEF T
<1>2. PICK m \in T : \A k \in T : m <= k
  BY <1>1, LeastElement
<1> USE DEF T
<1>3. m \in 0 .. n /\ m \notin S /\ m # 0
  BY <1>2
<1>4. m - 1 \in 0 .. n - 1 /\ m - 1 \notin T
  BY <1>2, <1>3
<1> QED
  BY <1>3, <1>4

\* g is the state after each of the first n lines.
Unrolled(g, lines, n) == g = [i \in 0 .. n |-> IF i = 0 THEN Nothing ELSE Read(g[i - 1], lines[i])]

\* There is such a function for every number of lines ...
LEMMA UnrolledExists ==
  ASSUME NEW lines, NEW n \in Nat
  PROVE  \E g : Unrolled(g, lines, n)
<1> DEFINE S == {m \in Nat : \E g : Unrolled(g, lines, m)}
<1>1. 0 \in S
  <2>1. Unrolled([i \in 0 .. 0 |-> Nothing], lines, 0)
    BY DEF Unrolled
  <2> QED
    BY <2>1
<1>2. ASSUME NEW m \in 0 .. n - 1, m \in S PROVE m + 1 \in S
  <2>1. PICK g : Unrolled(g, lines, m)
    BY <1>2
  <2> DEFINE h == [i \in 0 .. m + 1 |-> IF i = m + 1 THEN Read(g[m], lines[m + 1]) ELSE g[i]]
  <2>2. m \in Nat
    OBVIOUS
  <2>3. \A i \in 0 .. m : g[i] = IF i = 0 THEN Nothing ELSE Read(g[i - 1], lines[i])
    BY <2>1 DEF Unrolled
  <2>4. \A i \in 0 .. m + 1 : h[i] = IF i = 0 THEN Nothing ELSE Read(h[i - 1], lines[i])
    <3> SUFFICES ASSUME NEW i \in 0 .. m + 1 
                 PROVE  h[i] = IF i = 0 THEN Nothing ELSE Read(h[i - 1], lines[i])
      OBVIOUS
    <3>1. CASE i = m + 1
      <4>1. h[i] = Read(g[m], lines[i]) /\ i - 1 = m /\ h[m] = g[m]
        BY <3>1, <2>2
      <4> QED
        BY <4>1, <3>1, <2>2
    <3>2. CASE i # m + 1
      <4>1. i \in 0 .. m
        BY <3>2, <2>2
      <4>2. h[i] = g[i] /\ (i # 0 => h[i - 1] = g[i - 1])
        BY <4>1, <2>2
      <4> QED
        BY <4>1, <4>2, <2>3
    <3> QED
      BY <3>1, <3>2
  <2>5. Unrolled(h, lines, m + 1)
    BY <2>4 DEF Unrolled
  <2> QED
    BY <2>5, <2>2
<1> HIDE DEF S
<1>3. n \in S
  BY <1>1, <1>2, Induction
<1> QED
  BY <1>3 DEF S

\* ... and Reading is the one for all of them.
LEMMA ReadingUnrolled ==
  ASSUME NEW lines, Len(lines) \in Nat
  PROVE  Unrolled(Reading(lines), lines, Len(lines))
<1>1. \E g : g = [i \in 0 .. Len(lines) |-> IF i = 0 THEN Nothing ELSE Read(g[i - 1], lines[i])]
  BY UnrolledExists DEF Unrolled
<1>2. Reading(lines) = CHOOSE g : g = [i \in 0 .. Len(lines) |-> IF i = 0 THEN Nothing ELSE Read(g[i - 1], lines[i])]
  BY DEF Reading
<1> QED
  BY <1>1, <1>2, Zenon DEF Unrolled

\* The state at the end of the text.
End(lines) == Reading(lines)[Len(lines)]

\* The state after n lines depends on these only.
LEMMA ReadingAgrees ==
  ASSUME NEW s, NEW t, NEW n \in Nat, Len(s) \in Nat, Len(t) \in Nat,
         n <= Len(s), n <= Len(t), \A i \in 1 .. n : s[i] = t[i]
  PROVE  Reading(s)[n] = Reading(t)[n]
<1> DEFINE S == {i \in Nat : Reading(s)[i] = Reading(t)[i]}
<1>1. Unrolled(Reading(s), s, Len(s)) /\ Unrolled(Reading(t), t, Len(t))
  BY ReadingUnrolled
<1>2. 0 \in S
  <2>1. Reading(s)[0] = Nothing /\ Reading(t)[0] = Nothing
    BY <1>1 DEF Unrolled
  <2> QED
    BY <2>1
<1>3. \A i \in 0 .. n - 1 : i \in S => i + 1 \in S
  <2> SUFFICES ASSUME NEW i \in 0 .. n - 1, i \in S PROVE i + 1 \in S
    OBVIOUS
  <2>1. i + 1 \in 1 .. Len(s) /\ i + 1 \in 1 .. Len(t) /\ (i + 1) - 1 = i /\ i + 1 # 0
    OBVIOUS
  <2>2. Reading(s)[i + 1] = Read(Reading(s)[i], s[i + 1])
    BY <1>1, <2>1 DEF Unrolled
  <2>3. Reading(t)[i + 1] = Read(Reading(t)[i], t[i + 1])
    BY <1>1, <2>1 DEF Unrolled
  <2>4. s[i + 1] = t[i + 1]
    OBVIOUS
  <2> QED
    BY <2>2, <2>3, <2>4
<1> HIDE DEF S
<1>4. \A i \in 0 .. n : i \in S
  BY <1>2, <1>3, Induction
<1> QED
  BY <1>4 DEF S

\* The state at the end, line by line.
LEMMA EndEmpty == End(<<>>) = Nothing
<1>1. Len(<<>>) = 0
  OBVIOUS
<1>2. Unrolled(Reading(<<>>), <<>>, 0)
  BY <1>1, ReadingUnrolled
<1> QED
  BY <1>1, <1>2 DEF Unrolled, End

\* ... and with one line more.
LEMMA EndAppend ==
  ASSUME NEW T, NEW s \in Seq(T), NEW x \in T
  PROVE  End(Append(s, x)) = Read(End(s), x)
<1> DEFINE t == Append(s, x)
           n == Len(s)
<1>1. n \in Nat /\ Len(s) = n /\ Len(t) = n + 1 /\ t[n + 1] = x /\ \A i \in 1 .. n : t[i] = s[i]
  OBVIOUS
<1> HIDE DEF t, n
<1>2. Unrolled(Reading(t), t, n + 1)
  BY <1>1, ReadingUnrolled
<1>3. Reading(t)[n + 1] = Read(Reading(t)[n], x)
  <2>1. n + 1 \in 0 .. n + 1 /\ n + 1 # 0 /\ (n + 1) - 1 = n
    BY <1>1
  <2> QED
    BY <1>1, <1>2, <2>1 DEF Unrolled
<1>4. Reading(t)[n] = Reading(s)[n]
  <2>1. n <= Len(s) /\ n <= Len(t) /\ Len(s) \in Nat /\ Len(t) \in Nat
    BY <1>1
  <2> QED
    BY <1>1, <2>1, ReadingAgrees
<1>5. End(t) = Reading(t)[n + 1] /\ End(s) = Reading(s)[n]
  BY <1>1 DEF End
<1>6. End(t) = Read(End(s), x)
  BY <1>3, <1>4, <1>5
<1> QED
  BY <1>6 DEF t

States == [block : {"none", "<ca>", "<key>"}, out : Seq(Lines), remote : BOOLEAN, ok : BOOLEAN]

\* A line is kept or dropped; a dropped one changes nothing, unless it is refused.
LEMMA ReadType ==
  ASSUME NEW s \in States, NEW x \in Lines
  PROVE  /\ Read(s, x) \in States
         /\ Read(s, x).ok => s.ok
         /\ \/ Read(s, x).out = s.out /\ (Read(s, x).ok => Read(s, x) = s)
            \/ x # "blank" /\ Read(s, x).out = Append(s.out, x)
         /\ Read(s, x).remote => s.remote \/ Read(s, x).out = Append(s.out, x)
<1>0. s = [block |-> s.block, out |-> s.out, remote |-> s.remote, ok |-> s.ok]
      /\ s.block \in {"none", "<ca>", "<key>"} /\ s.out \in Seq(Lines)
      /\ s.remote \in BOOLEAN /\ s.ok \in BOOLEAN /\ Append(s.out, x) \in Seq(Lines)
  BY DEF States
<1>1. CASE s.block # "none"
  <2>1. Closing[s.block] \in {"</ca>", "</key>"}
    BY <1>1 DEF Closing, States
  <2>2. Read(s, x) = [s EXCEPT !.block = IF x = Closing[s.block] THEN "none" ELSE s.block,
                               !.out = IF x = "blank" THEN s.out ELSE Append(s.out, x)]
    BY <1>1 DEF Read
  <2>3. CASE x = "blank"
    <3>1. Read(s, x) = s
      BY <2>1, <2>2, <2>3 DEF States
    <3> QED
      BY <3>1
  <2>4. CASE x # "blank"
    <3>1. Read(s, x) = [block |-> Read(s, x).block, out |-> Append(s.out, x),
                        remote |-> s.remote, ok |-> s.ok]
          /\ Read(s, x).block \in {"none", s.block}
      BY <1>0, <2>2, <2>4
    <3> QED
      BY <1>0, <2>4, <3>1 DEF States
  <2> QED
    BY <2>3, <2>4
<1>2. CASE s.block = "none" /\ x \in {"blank", "comment"}
  <2>1. Read(s, x) = s
    BY <1>2 DEF Read, Closing
  <2> QED
    BY <2>1
<1>3. CASE s.block = "none" /\ x \in {"<ca>", "<key>"}
  <2>1. Read(s, x) = [s EXCEPT !.block = x, !.out = Append(s.out, x)]
    BY <1>3 DEF Read, Closing
  <2>2. Read(s, x) = [block |-> x, out |-> Append(s.out, x), remote |-> s.remote, ok |-> s.ok]
    BY <1>0, <2>1
  <2> QED
    BY <1>0, <1>3, <2>2 DEF States
<1>4. CASE s.block = "none" /\ x = "option"
  <2>1. Read(s, x) = [s EXCEPT !.out = Append(s.out, x)]
    BY <1>4 DEF Read, Closing
  <2> QED
    BY <1>4, <2>1 DEF States
<1>5. CASE s.block = "none" /\ x = "remote"
  <2>1. Read(s, x) = [s EXCEPT !.out = Append(s.out, x), !.remote = TRUE]
    BY <1>5 DEF Read, Closing
  <2>2. Read(s, x) = [block |-> s.block, out |-> Append(s.out, x), remote |-> TRUE, ok |-> s.ok]
    BY <1>0, <2>1
  <2>3. Read(s, x) \in States
    BY <1>0, <2>2 DEF States
  <2> QED
    BY <1>5, <2>2, <2>3
<1>6. CASE s.block = "none" /\ x \in {"</ca>", "</key>"} \cup Contents
  <2>1. Read(s, x) = [s EXCEPT !.ok = FALSE]
    BY <1>6 DEF Read, Closing, Contents
  <2> QED
    BY <1>6, <2>1 DEF States
<1> QED
  BY <1>1, <1>2, <1>3, <1>4, <1>5, <1>6 DEF Lines

\* Outside of a block a blank line is dropped.
LEMMA BlankOutside ==
  ASSUME NEW s, s.block = "none"
  PROVE  Read(s, "blank") = s
BY DEF Read, Closing

\* Those of the first n lines that are not blank.
NonBlank(lines, n) == {i \in 1 .. n : lines[i] # "blank"}

\* They are counted line by line.
LEMMA NonBlankCounted ==
  ASSUME NEW lines, NEW n \in Nat
  PROVE  /\ IsFiniteSet(NonBlank(lines, n)) /\ Cardinality(NonBlank(lines, n)) \in 0 .. n
         /\ Cardinality(NonBlank(lines, n + 1)) =
              Cardinality(NonBlank(lines, n)) + IF lines[n + 1] = "blank" THEN 0 ELSE 1
<1>1. IsFiniteSet(1 .. n) /\ Cardinality(1 .. n) = n
  BY FS_Interval, 1 \in Int
<1>2. IsFiniteSet(NonBlank(lines, n)) /\ Cardinality(NonBlank(lines, n)) \in 0 .. n
  <2>1. NonBlank(lines, n) \in SUBSET (1 .. n)
    BY DEF NonBlank
  <2>2. IsFiniteSet(NonBlank(lines, n)) /\ Cardinality(NonBlank(lines, n)) <= n
    BY <1>1, <2>1, FS_Subset
  <2> QED
    BY <2>2, FS_CardinalityType
<1>3. CASE lines[n + 1] = "blank"
  <2>1. NonBlank(lines, n + 1) = NonBlank(lines, n)
    BY <1>3 DEF NonBlank
  <2> QED
    BY <1>2, <1>3, <2>1
<1>4. CASE lines[n + 1] # "blank"
  <2>1. NonBlank(lines, n + 1) = NonBlank(lines, n) \cup {n + 1}
    BY <1>4 DEF NonBlank
  <2>2. n + 1 \notin NonBlank(lines, n)
    BY DEF NonBlank
  <2> QED
    BY <1>2, <1>4, <2>1, <2>2, FS_AddElement
<1> QED
  BY <1>3, <1>4

\* What is kept of a text is a text that leads to the same state, has no blank
\* lines, and is no longer than the text without its own.
Kept(lines, i) ==
  LET s == Reading(lines)[i]
  IN  /\ s \in States
      /\ s.ok => End(s.out) = s
      /\ \A k \in 1 .. Len(s.out) : s.out[k] # "blank"
      /\ Len(s.out) <= Cardinality(NonBlank(lines, i))
      /\ s.remote => s.out # <<>>

\* By induction over the lines.
LEMMA ReadKeeps ==
  ASSUME NEW lines \in Seq(Lines)
  PROVE  Kept(lines, Len(lines))
<1> DEFINE n == Len(lines)
           S == {i \in Nat : Kept(lines, i)}
<1>1. n \in Nat /\ \A i \in 1 .. n : lines[i] \in Lines
  OBVIOUS
<1>2. Unrolled(Reading(lines), lines, n)
  BY ReadingUnrolled
<1>3. 0 \in S
  <2>1. Reading(lines)[0] = Nothing
    BY <1>2 DEF Unrolled
  <2>2. Nothing \in States /\ Nothing.out = <<>> /\ Len(<<>>) = 0 /\ ~Nothing.remote
    BY DEF Nothing, States
  <2>3. 0 <= Cardinality(NonBlank(lines, 0))
    BY NonBlankCounted
  <2>4. Kept(lines, 0)
    BY <2>1, <2>2, <2>3, EndEmpty DEF Kept
  <2> QED
    BY <2>4
<1>4. ASSUME NEW i \in 0 .. n - 1, i \in S PROVE i + 1 \in S
  <2> DEFINE s == Reading(lines)[i]
             x == lines[i + 1]
             r == Read(s, x)
  <2>1. Reading(lines)[i + 1] = r
    <3>1. i + 1 \in 0 .. n /\ i + 1 # 0 /\ (i + 1) - 1 = i
      OBVIOUS
    <3> QED
      BY <1>2, <3>1 DEF Unrolled
  <2>2. x \in Lines /\ i \in Nat
    BY <1>1
  <2>3. Kept(lines, i)
    BY <1>4
  <2>4. s \in States
    BY <2>3 DEF Kept
  <2>5. Len(s.out) \in Nat /\ s.out \in Seq(Lines)
    BY <2>4 DEF States
  <2>6. /\ r \in States /\ (r.ok => s.ok)
        /\ \/ r.out = s.out /\ (r.ok => r = s)
           \/ x # "blank" /\ r.out = Append(s.out, x)
        /\ r.remote => s.remote \/ r.out = Append(s.out, x)
    BY <2>2, <2>4, ReadType
  <2>7. Cardinality(NonBlank(lines, i + 1)) =
          Cardinality(NonBlank(lines, i)) + (IF x = "blank" THEN 0 ELSE 1)
        /\ Cardinality(NonBlank(lines, i)) \in Nat
    BY <2>2, NonBlankCounted
  <2> HIDE DEF s, x, r
  <2>8. CASE r.out = s.out /\ (r.ok => r = s)
    <3>1. r.ok => End(r.out) = r
      BY <2>3, <2>8 DEF Kept, s
    <3>2. /\ \A k \in 1 .. Len(r.out) : r.out[k] # "blank"
          /\ Len(r.out) <= Cardinality(NonBlank(lines, i + 1))
      BY <2>3, <2>5, <2>7, <2>8 DEF Kept, s
    <3>3. r.remote => r.out # <<>>
      <4>1. Append(s.out, x) # <<>>
        BY <2>2, <2>5 DEF x
      <4> QED
        BY <2>3, <2>6, <2>8, <4>1 DEF Kept, s
    <3>4. Kept(lines, i + 1)
      BY <2>1, <2>6, <3>1, <3>2, <3>3 DEF Kept
    <3> QED
      BY <2>2, <3>4
  <2>9. CASE x # "blank" /\ r.out = Append(s.out, x)
    <3>1. r.ok => End(r.out) = r
      <4>1. End(Append(s.out, x)) = Read(End(s.out), x)
        BY <2>2, <2>5, EndAppend DEF x
      <4>2. r.ok => End(s.out) = s
        BY <2>3, <2>6 DEF Kept, s
      <4> QED
        BY <2>9, <4>1, <4>2 DEF r
    <3>2. Len(r.out) = Len(s.out) + 1 /\ r.out # <<>>
          /\ \A k \in 1 .. Len(r.out) :
                r.out[k] = IF k = Len(s.out) + 1 THEN x ELSE s.out[k]
      BY <2>2, <2>5, <2>9
    <3>3. \A k \in 1 .. Len(r.out) : r.out[k] # "blank"
      <4>1. \A k \in 1 .. Len(s.out) : s.out[k] # "blank"
        BY <2>3 DEF Kept, s
      <4> QED
        BY <2>5, <2>9, <3>2, <4>1
    <3>4. Len(r.out) <= Cardinality(NonBlank(lines, i + 1))
      BY <2>3, <2>5, <2>7, <2>9, <3>2 DEF Kept, s
    <3>5. Kept(lines, i + 1)
      BY <2>1, <2>6, <3>1, <3>2, <3>3, <3>4 DEF Kept
    <3> QED
      BY <2>2, <3>5
  <2> QED
    BY <2>6, <2>8, <2>9
<1> HIDE DEF S
<1>5. \A i \in 0 .. n : i \in S
  BY <1>1, <1>3, <1>4, Induction
<1> QED
  BY <1>1, <1>5 DEF S

\* A change of lines that leaves directives, tags and blanks alone.
Harmless(f) ==
  /\ f \in [Lines -> Lines]
  /\ \A x \in Lines \ Contents : f[x] = x
  /\ \A x \in Contents : f[x] \in Contents

\* The two there are.
LEMMA BothHarmless == Harmless(LF) /\ Harmless(Encoded)
BY DEF Harmless, LF, Encoded, Lines, Contents

\* It is made line by line.
LEMMA EachAppend ==
  ASSUME NEW f, Harmless(f), NEW s \in Seq(Lines), NEW x \in Lines
  PROVE  /\ Each(f, s) \in Seq(Lines) /\ Len(Each(f, s)) = Len(s)
         /\ \A i \in 1 .. Len(s) : Each(f, s)[i] = f[s[i]]
         /\ Each(f, Append(s, x)) = Append(Each(f, s), f[x])
<1>1. \A t \in Seq(Lines) : /\ Each(f, t) \in [1 .. Len(t) -> Lines] /\ Len(t) \in Nat
                            /\ \A i \in 1 .. Len(t) : Each(f, t)[i] = f[t[i]]
  BY DEF Each, Harmless
<1>2. \A t \in Seq(Lines) : Each(f, t) \in Seq(Lines) /\ Len(Each(f, t)) = Len(t)
  BY <1>1
<1> DEFINE t == Append(s, x)
           u == Append(Each(f, s), f[x])
<1>3. t \in Seq(Lines) /\ Len(t) = Len(s) + 1 /\ Len(s) \in Nat
      /\ \A i \in 1 .. Len(t) : t[i] = IF i = Len(s) + 1 THEN x ELSE s[i]
  OBVIOUS
<1>4. f[x] \in Lines /\ Each(f, s) \in Seq(Lines) /\ Len(Each(f, s)) = Len(s)
  BY <1>2 DEF Harmless
<1>5. u \in Seq(Lines) /\ Len(u) = Len(s) + 1
      /\ \A i \in 1 .. Len(u) : u[i] = IF i = Len(s) + 1 THEN f[x] ELSE Each(f, s)[i]
  BY <1>4
<1> HIDE DEF t, u
<1>6. Each(f, t) \in Seq(Lines) /\ Len(Each(f, t)) = Len(u)
      /\ \A i \in 1 .. Len(u) : Each(f, t)[i] = u[i]
  <2>1. Each(f, t) \in Seq(Lines) /\ Len(Each(f, t)) = Len(u)
    BY <1>2, <1>3, <1>5
  <2>2. ASSUME NEW i \in 1 .. Len(u) PROVE Each(f, t)[i] = u[i]
    <3>1. i \in 1 .. Len(t) /\ Each(f, t)[i] = f[t[i]]
      BY <1>1, <1>3, <1>5
    <3>2. CASE i = Len(s) + 1
      BY <1>3, <1>5, <3>1, <3>2
    <3>3. CASE i # Len(s) + 1
      <4>1. i \in 1 .. Len(s)
        BY <1>3, <1>5, <3>3
      <4>2. Each(f, s)[i] = f[s[i]]
        BY <1>1, <4>1
      <4> QED
        BY <1>3, <1>5, <3>1, <3>3, <4>2
    <3> QED
      BY <3>2, <3>3
  <2> QED
    BY <2>1, <2>2
<1>7. Each(f, t) = u
  BY <1>5, <1>6
<1> QED
  BY <1>1, <1>2, <1>7 DEF t, u

\* The state in which every line that is kept is changed.
Changed(f, s) == [s EXCEPT !.out = Each(f, @)]

\* To read a changed line in the changed state is to change what is read.
LEMMA ReadChanged ==
  ASSUME NEW f, Harmless(f), NEW s \in States, NEW x \in Lines
  PROVE  Read(Changed(f, s), f[x]) = Changed(f, Read(s, x))
<1> DEFINE c == Changed(f, s)
<1>0. /\ s = [block |-> s.block, out |-> s.out, remote |-> s.remote, ok |-> s.ok]
      /\ s.block \in {"none", "<ca>", "<key>"} /\ s.out \in Seq(Lines)
  BY DEF States
<1>1. c = [block |-> s.block, out |-> Each(f, s.out), remote |-> s.remote, ok |-> s.ok]
  BY <1>0 DEF Changed
<1>2. Each(f, Append(s.out, x)) = Append(Each(f, s.out), f[x])
  BY <1>0, EachAppend
<1>3. /\ f[x] \in Lines /\ (x \in Contents <=> f[x] \in Contents)
      /\ (x \notin Contents => f[x] = x)
  BY DEF Harmless
<1>4. Closing["<ca>"] = "</ca>" /\ Closing["<key>"] = "</key>" /\ DOMAIN Closing = {"<ca>", "<key>"}
  BY DEF Closing
<1> SUFFICES Read(c, f[x]) = Changed(f, Read(s, x))
  OBVIOUS
<1>10. c = Changed(f, s)
  OBVIOUS
<1> HIDE DEF c
<1>5. CASE s.block # "none"
  <2>1. /\ f[x] = Closing[s.block] <=> x = Closing[s.block]
        /\ f[x] = "blank" <=> x = "blank"
    BY <1>0, <1>3, <1>4, <1>5 DEF Contents
  <2>2. /\ Read(s, x) = [block |-> IF x = Closing[s.block] THEN "none" ELSE s.block,
                         out |-> IF x = "blank" THEN s.out ELSE Append(s.out, x),
                         remote |-> s.remote, ok |-> s.ok]
        /\ Read(c, f[x]) = [block |-> IF f[x] = Closing[s.block] THEN "none" ELSE s.block,
                         out |-> IF f[x] = "blank" THEN Each(f, s.out)
                                 ELSE Append(Each(f, s.out), f[x]),
                         remote |-> s.remote, ok |-> s.ok]
    BY <1>0, <1>1, <1>5 DEF Read
  <2> QED
    <3> DEFINE b == IF x = Closing[s.block] THEN "none" ELSE s.block
    <3>1. CASE x = "blank"
      <4>1. Read(s, x) = [block |-> b, out |-> s.out, remote |-> s.remote, ok |-> s.ok]
        BY <2>2, <3>1
      <4>2. Read(c, f[x]) = [block |-> b, out |-> Each(f, s.out), remote |-> s.remote, ok |-> s.ok]
        BY <2>1, <2>2, <3>1
      <4>3. Changed(f, [block |-> b, out |-> s.out, remote |-> s.remote, ok |-> s.ok]) =
              [block |-> b, out |-> Each(f, s.out), remote |-> s.remote, ok |-> s.ok]
        BY DEF Changed
      <4> HIDE DEF b
      <4> QED
        BY <4>1, <4>2, <4>3
    <3>2. CASE x # "blank"
      <4>1. Read(s, x) = [block |-> b, out |-> Append(s.out, x), remote |-> s.remote, ok |-> s.ok]
        BY <2>2, <3>2
      <4>2. Read(c, f[x]) = [block |-> b, out |-> Each(f, Append(s.out, x)),
                             remote |-> s.remote, ok |-> s.ok]
        BY <1>2, <2>1, <2>2, <3>2
      <4>3. Changed(f, [block |-> b, out |-> Append(s.out, x), remote |-> s.remote, ok |-> s.ok]) =
              [block |-> b, out |-> Each(f, Append(s.out, x)), remote |-> s.remote, ok |-> s.ok]
        BY DEF Changed
      <4> HIDE DEF b
      <4> QED
        BY <4>1, <4>2, <4>3
    <3> QED
      BY <3>1, <3>2
<1>6. CASE s.block = "none" /\ x \in {"blank", "comment"}
  <2>1. f[x] = x /\ Read(s, x) = s /\ Read(c, x) = c
    <3>1. x \notin Contents /\ x \notin DOMAIN Closing
      BY <1>4, <1>6 DEF Contents
    <3>2. c.block = "none"
      BY <1>1, <1>6
    <3> QED
      BY <1>3, <1>6, <3>1, <3>2 DEF Read
  <2> QED
    BY <2>1, <1>10
<1>7. CASE s.block = "none" /\ x \in {"<ca>", "<key>", "option", "remote"}
  <2>1. f[x] = x
    BY <1>3, <1>7 DEF Contents
  <2>2. \A b, r : /\ Read(s, x) = [block |-> b, out |-> Append(s.out, x), remote |-> r, ok |-> s.ok]
                  => Read(c, x) = [block |-> b, out |-> Append(Each(f, s.out), x),
                                   remote |-> r, ok |-> s.ok]
    <3>1. CASE x \in {"<ca>", "<key>"}
      BY <1>0, <1>1, <1>4, <1>7, <3>1 DEF Read
    <3>2. CASE x = "option"
      BY <1>0, <1>1, <1>4, <1>7, <3>2 DEF Read
    <3>3. CASE x = "remote"
      BY <1>0, <1>1, <1>4, <1>7, <3>3 DEF Read
    <3> QED
      BY <1>7, <3>1, <3>2, <3>3
  <2>3. \E b, r : Read(s, x) = [block |-> b, out |-> Append(s.out, x), remote |-> r, ok |-> s.ok]
    <3>1. CASE x \in {"<ca>", "<key>"}
      <4>1. Read(s, x) = [block |-> x, out |-> Append(s.out, x), remote |-> s.remote, ok |-> s.ok]
        BY <1>0, <1>4, <1>7, <3>1 DEF Read
      <4> QED
        BY <4>1
    <3>2. CASE x = "option"
      <4>1. Read(s, x) = [block |-> s.block, out |-> Append(s.out, x), remote |-> s.remote, ok |-> s.ok]
        BY <1>0, <1>4, <1>7, <3>2 DEF Read
      <4> QED
        BY <4>1
    <3>3. CASE x = "remote"
      <4>1. Read(s, x) = [block |-> s.block, out |-> Append(s.out, x), remote |-> TRUE, ok |-> s.ok]
        BY <1>0, <1>4, <1>7, <3>3 DEF Read
      <4> QED
        BY <4>1
    <3> QED
      BY <1>7, <3>1, <3>2, <3>3
  <2>4. PICK b, r : Read(s, x) = [block |-> b, out |-> Append(s.out, x), remote |-> r, ok |-> s.ok]
    BY <2>3
  <2>5. Read(c, x) = [block |-> b, out |-> Append(Each(f, s.out), x), remote |-> r, ok |-> s.ok]
    BY <2>2, <2>4
  <2> QED
    <3>1. Changed(f, [block |-> b, out |-> Append(s.out, x), remote |-> r, ok |-> s.ok]) =
            [block |-> b, out |-> Each(f, Append(s.out, x)), remote |-> r, ok |-> s.ok]
      BY DEF Changed
    <3>2. Each(f, Append(s.out, x)) = Append(Each(f, s.out), x)
      BY <1>2, <2>1
    <3> QED
      BY <2>1, <2>4, <2>5, <3>1, <3>2
<1>8. CASE s.block = "none" /\ x \in {"</ca>", "</key>"} \cup Contents
  <2>1. f[x] \in {"</ca>", "</key>"} \cup Contents
    BY <1>3, <1>8
  <2>2. /\ Read(s, x) = [block |-> s.block, out |-> s.out, remote |-> s.remote, ok |-> FALSE]
        /\ Read(c, f[x]) = [block |-> s.block, out |-> Each(f, s.out), remote |-> s.remote, ok |-> FALSE]
    BY <1>0, <1>1, <1>4, <1>8, <2>1 DEF Read, Contents
  <2>3. \A k : Changed(f, [block |-> s.block, out |-> s.out, remote |-> s.remote, ok |-> k]) =
               [block |-> s.block, out |-> Each(f, s.out), remote |-> s.remote, ok |-> k]
    BY DEF Changed
  <2> QED
    BY <2>2, <2>3
<1> QED
  BY <1>5, <1>6, <1>7, <1>8 DEF Lines

\* So a whole text that is changed leads to the changed state.
LEMMA EachRead ==
  ASSUME NEW f, Harmless(f), NEW lines \in Seq(Lines)
  PROVE  End(lines) \in States /\ End(Each(f, lines)) = Changed(f, End(lines))
<1> DEFINE n == Len(lines)
           t == Each(f, lines)
           S == {i \in Nat : Reading(lines)[i] \in States
                             /\ Reading(t)[i] = Changed(f, Reading(lines)[i])}
<1>1. /\ n \in Nat /\ Len(t) = n /\ \A i \in 1 .. n : lines[i] \in Lines /\ t[i] = f[lines[i]]
  BY EachAppend, "blank" \in Lines DEF Lines
<1> HIDE DEF t, n
<1>2. Unrolled(Reading(lines), lines, n) /\ Unrolled(Reading(t), t, n)
  BY <1>1, ReadingUnrolled DEF n
<1>3. 0 \in S
  <2>1. Reading(lines)[0] = Nothing /\ Reading(t)[0] = Nothing
    BY <1>1, <1>2 DEF Unrolled
  <2>2. Nothing \in States
    BY DEF Nothing, States
  <2>3. Each(f, <<>>) = <<>>
    BY DEF Each
  <2>4. Changed(f, Nothing) = Nothing
    BY <2>3 DEF Changed, Nothing
  <2> QED
    BY <2>1, <2>2, <2>4
<1>4. \A i \in 0 .. n - 1 : i \in S => i + 1 \in S
  <2> SUFFICES ASSUME NEW i \in 0 .. n - 1, i \in S PROVE i + 1 \in S
    OBVIOUS
  <2>1. i \in Nat /\ i + 1 \in 1 .. n /\ i + 1 \in 0 .. n /\ i + 1 # 0 /\ (i + 1) - 1 = i
    BY <1>1
  <2>2. Reading(lines)[i + 1] = Read(Reading(lines)[i], lines[i + 1])
    BY <1>2, <2>1 DEF Unrolled
  <2>3. Reading(t)[i + 1] = Read(Reading(t)[i], t[i + 1])
    BY <1>2, <2>1 DEF Unrolled
  <2>4. lines[i + 1] \in Lines /\ t[i + 1] = f[lines[i + 1]]
    BY <1>1, <2>1
  <2>5. Reading(lines)[i] \in States /\ Reading(t)[i] = Changed(f, Reading(lines)[i])
    OBVIOUS
  <2>6. Reading(t)[i + 1] = Changed(f, Reading(lines)[i + 1])
    BY <2>2, <2>3, <2>4, <2>5, ReadChanged
  <2>7. Reading(lines)[i + 1] \in States
    BY <2>2, <2>4, <2>5, ReadType
  <2> QED
    BY <2>1, <2>6, <2>7
<1> HIDE DEF S
<1>5. \A i \in 0 .. n : i \in S
  BY <1>1, <1>3, <1>4, Induction
<1>6. n \in S
  BY <1>1, <1>5
<1> QED
  BY <1>1, <1>6 DEF S, End, n, t

\* Nor does it change the size, but for what U+FFFD takes.
LEMMA EachBytes ==
  ASSUME NEW f, Harmless(f), NEW lines \in Seq(Lines)
  PROVE  Bytes(Each(f, lines)) = Bytes(lines)
<1>1. Len(Each(f, lines)) = Len(lines) /\ Each(f, lines) \in Seq(Lines)
      /\ \A i \in 1 .. Len(lines) : Each(f, lines)[i] = f[lines[i]]
  BY EachAppend, "blank" \in Lines DEF Lines
<1>2. \A x \in Lines : f[x] = "blank" <=> x = "blank"
  BY DEF Harmless, Contents, Lines
<1>3. DOMAIN lines = 1 .. Len(lines) /\ DOMAIN Each(f, lines) = 1 .. Len(lines)
      /\ \A i \in 1 .. Len(lines) : lines[i] \in Lines
  BY <1>1
<1>4. {i \in DOMAIN Each(f, lines) : Each(f, lines)[i] # "blank"} =
        {i \in DOMAIN lines : lines[i] # "blank"}
  BY <1>1, <1>2, <1>3
<1> QED
  BY <1>1, <1>4 DEF Bytes

\* A size is at least that without the replaced bytes.
LEMMA SizeBytes ==
  ASSUME NEW lines \in Seq(Lines)
  PROVE  Bytes(lines) \in Int /\ Size(lines) \in Int /\ Bytes(lines) <= Size(lines)
<1>1. Len(lines) \in Nat /\ DOMAIN lines = 1 .. Len(lines)
  OBVIOUS
<1>2. Bytes(lines) = Len(lines) - 1 + Cardinality(NonBlank(lines, Len(lines)))
  BY <1>1 DEF Bytes, NonBlank
<1>3. Cardinality(NonBlank(lines, Len(lines))) \in Nat
  BY <1>1, NonBlankCounted
<1> DEFINE R == {i \in DOMAIN lines : lines[i] = "replaced"}
<1>4. IsFiniteSet(1 .. Len(lines)) /\ R \in SUBSET (1 .. Len(lines))
  BY <1>1, FS_Interval, 1 \in Int
<1>5. IsFiniteSet(R)
  BY <1>4, FS_Subset
<1>6. Cardinality(R) \in Nat
  BY <1>5, FS_CardinalityType
<1>7. Size(lines) = Bytes(lines) + 2 * Cardinality(R)
  BY DEF Size
<1> QED
  BY <1>1, <1>2, <1>3, <1>6, <1>7

\* What the validation returns for lines it accepts.
Result(lines) == Append(End(lines).out, "blank")
Usable(text) ==
  \E lines \in Seq(Lines) :
    /\ End(lines).ok /\ End(lines).block = "none" /\ End(lines).remote
    /\ Bytes(lines) <= MaxProfile /\ text = Result(lines)

LEMMA ValidatedUsable ==
  ASSUME NEW lines \in Seq(Lines), NEW public,
         ValidateOpenVPNProfile(lines, public) # Refused
  PROVE  Usable(ValidateOpenVPNProfile(lines, public))
<1> DEFINE t == Each(LF, lines)
           end == Reading(t)[Len(lines)]
<1>1. t \in Seq(Lines) /\ Len(t) = Len(lines) /\ Bytes(t) = Bytes(lines)
  BY BothHarmless, EachAppend, EachBytes, "blank" \in Lines DEF Lines
<1>2. /\ Size(lines) \in 1 .. MaxProfile
      /\ end.ok /\ end.block = "none" /\ end.remote
      /\ ValidateOpenVPNProfile(lines, public) = Append(end.out, "blank")
  BY DEF ValidateOpenVPNProfile
<1>3. Bytes(t) <= MaxProfile
  BY <1>1, <1>2, SizeBytes, PoolAssumption DEF PoolAssumption
<1> HIDE DEF t
<1>4. end = End(t)
  BY <1>1 DEF End
<1> HIDE DEF end
<1> QED
  BY <1>1, <1>2, <1>3, <1>4 DEF Usable, Result

\* It stays so in JSON.
LEMMA EncodedUsable ==
  ASSUME NEW text, Usable(text)
  PROVE  Usable(Each(Encoded, text))
<1>1. PICK lines \in Seq(Lines) :
        /\ End(lines).ok /\ End(lines).block = "none" /\ End(lines).remote
        /\ Bytes(lines) <= MaxProfile /\ text = Result(lines)
  BY DEF Usable
<1> DEFINE t == Each(Encoded, lines)
<1>2. t \in Seq(Lines) /\ Bytes(t) = Bytes(lines)
  BY BothHarmless, EachAppend, EachBytes, "blank" \in Lines DEF Lines
<1>3. End(lines) \in States /\ End(t) = Changed(Encoded, End(lines))
  BY BothHarmless, EachRead
<1> HIDE DEF t
<1>4. /\ End(t).ok = End(lines).ok /\ End(t).block = End(lines).block
      /\ End(t).remote = End(lines).remote /\ End(t).out = Each(Encoded, End(lines).out)
  BY <1>3 DEF Changed, States
<1>5. Result(t) = Each(Encoded, text)
  <2>1. "blank" \in Lines /\ Encoded["blank"] = "blank" /\ End(lines).out \in Seq(Lines)
    BY <1>3 DEF Lines, Encoded, States
  <2> QED
    BY <1>1, <1>4, <2>1, BothHarmless, EachAppend DEF Result
<1> QED
  BY <1>1, <1>2, <1>4, <1>5 DEF Usable

\* And it passes the validation again.
LEMMA UsablePasses ==
  ASSUME NEW text, Usable(text)
  PROVE  PassesAgain(text)
<1>1. PICK lines \in Seq(Lines) :
        /\ End(lines).ok /\ End(lines).block = "none" /\ End(lines).remote
        /\ Bytes(lines) <= MaxProfile /\ text = Result(lines)
  BY DEF Usable
<1> DEFINE n == Len(lines)
           end == End(lines)
           m == Len(end.out)
<1>2. Kept(lines, n)
  BY ReadKeeps
<1>3. end \in States /\ m \in Nat /\ n \in Nat /\ end.out \in Seq(Lines) /\ m # 0
      /\ end = Reading(lines)[n] /\ text = Append(end.out, "blank")
  BY <1>1, <1>2 DEF Kept, States, End, Result
<1>4. End(end.out) = end
  BY <1>1, <1>2 DEF Kept, End
<1>5. "blank" \in Lines /\ LF["blank"] = "blank" /\ text \in Seq(Lines)
  <2>1. "blank" \in Lines /\ LF["blank"] = "blank"
    BY DEF Lines, LF
  <2> QED
    BY <1>3, <2>1
<1>6. End(text) = end
  <2>1. End(text) = Read(end, "blank")
    BY <1>3, <1>4, <1>5, EndAppend
  <2>2. Read(end, "blank") = end
    BY <1>1, BlankOutside
  <2> QED
    BY <2>1, <2>2
<1>7. Len(text) = m + 1 /\ text[m + 1] = "blank"
      /\ \A k \in 1 .. m : text[k] = end.out[k]
  BY <1>3
<1>8. m <= Cardinality(NonBlank(lines, n)) /\ \A k \in 1 .. m : end.out[k] # "blank"
  BY <1>2, <1>3 DEF Kept
<1> HIDE DEF m, end
<1>9. Bytes(text) = m + m
  <2>1. {k \in DOMAIN text : text[k] # "blank"} = 1 .. m
    <3>1. DOMAIN text = 1 .. m + 1
      BY <1>5, <1>7
    <3>2. \A k \in 1 .. m + 1 : text[k] # "blank" <=> k # m + 1
      BY <1>3, <1>7, <1>8
    <3> QED
      BY <1>3, <3>1, <3>2
  <2>2. Cardinality(1 .. m) = m
    <3>1. 1 \in Int /\ m \in Int /\ m - 1 + 1 = m /\ (1 > m <=> m = 0)
      BY <1>3
    <3>2. Cardinality(1 .. m) = IF 1 > m THEN 0 ELSE m - 1 + 1
      BY <3>1, FS_Interval
    <3> QED
      BY <3>1, <3>2
  <2>3. Bytes(text) = (m + 1) - 1 + m
    BY <1>7, <2>1, <2>2 DEF Bytes
  <2> QED
    BY <1>3, <2>3
<1>10. m + m <= MaxProfile + 1
  <2>1. Bytes(lines) = n - 1 + Cardinality(NonBlank(lines, n))
    <3>1. DOMAIN lines = 1 .. n
      OBVIOUS
    <3> QED
      BY <3>1 DEF Bytes, NonBlank
  <2>2. Cardinality(NonBlank(lines, n)) \in 0 .. n
    BY <1>3, NonBlankCounted
  <2> QED
    BY <1>1, <1>3, <1>8, <2>1, <2>2, PoolAssumption DEF PoolAssumption
<1>11. ASSUME Size(text) <= MaxProfile
       PROVE  ValidateOpenVPNProfile(text, TRUE) = Each(LF, text)
  <2>1. Size(text) \in 1 .. MaxProfile
    <3>1. Bytes(text) \in Int /\ Size(text) \in Int /\ Bytes(text) <= Size(text)
      BY <1>5, SizeBytes
    <3> QED
      BY <1>3, <1>9, <1>11, <3>1, PoolAssumption DEF PoolAssumption
  <2> DEFINE t == Each(LF, text)
  <2>2. Len(t) = Len(text) /\ t = Append(Each(LF, end.out), "blank")
    <3>1. Len(t) = Len(text)
      BY <1>5, BothHarmless, EachAppend
    <3>2. Each(LF, Append(end.out, "blank")) = Append(Each(LF, end.out), LF["blank"])
      BY <1>3, <1>5, BothHarmless, EachAppend
    <3> QED
      BY <1>3, <1>5, <3>1, <3>2
  <2>3. End(t) = Changed(LF, end)
    BY <1>5, <1>6, BothHarmless, EachRead
  <2> HIDE DEF t
  <2>4. /\ End(t).ok = end.ok /\ End(t).block = end.block
        /\ End(t).remote = end.remote /\ End(t).out = Each(LF, end.out)
    BY <1>3, <2>3 DEF Changed, States
  <2>5. Reading(t)[Len(text)] = End(t)
    BY <2>2 DEF End
  <2>6. ValidateOpenVPNProfile(text, TRUE) = Append(End(t).out, "blank")
    BY <1>1, <2>1, <2>4, <2>5 DEF ValidateOpenVPNProfile, t, end
  <2> QED
    BY <2>2, <2>4, <2>6 DEF t
<1> QED
  BY <1>9, <1>10, <1>11 DEF PassesAgain

-----------------------------------------------------------------------------
(* Sorting                                                                  *)

\* The number of accepted rows that are better than row i.
Rank(rows, i) == Cardinality({j \in Accepted(rows) : Before(rows, j, i)})

\* Before is a strict linear order.
LEMMA StrictOrder ==
  ASSUME NEW rows \in Answers
  PROVE  /\ \A i \in Accepted(rows) : ~Before(rows, i, i)
         /\ \A i, j \in Accepted(rows) : i # j => Before(rows, i, j) \/ Before(rows, j, i)
         /\ \A i, j, k \in Accepted(rows) :
              Before(rows, i, j) /\ Before(rows, j, k) => Before(rows, i, k)
<1>1. \A i \in Accepted(rows) : i \in Nat /\ rows[i].score \in Int
  BY AcceptedFinite DEF Rows
<1> QED
  BY <1>1 DEF Before

\* A better row has a smaller rank.
LEMMA RankMonotonic ==
  ASSUME NEW rows \in Answers, NEW i \in Accepted(rows), NEW j \in Accepted(rows),
         Before(rows, i, j)
  PROVE  Rank(rows, i) < Rank(rows, j)
<1> DEFINE A == Accepted(rows)
           I == {k \in A : Before(rows, k, i)}
           J == {k \in A : Before(rows, k, j)}
<1>1. IsFiniteSet(A)
  BY AcceptedFinite
<1>2. IsFiniteSet(I) /\ IsFiniteSet(J)
  BY <1>1, FS_Subset
<1>3. I \subseteq J /\ i \in J /\ i \notin I
  BY StrictOrder
<1> HIDE DEF I, J
<1>4. Cardinality(I) <= Cardinality(J) /\ Cardinality(I) # Cardinality(J)
  BY <1>2, <1>3, FS_Subset
<1>5. Cardinality(I) < Cardinality(J)
  BY <1>2, <1>4, FS_CardinalityType
<1> QED
  BY <1>5 DEF I, J, Rank

\* Ranks are natural numbers.
LEMMA RankNatural ==
  ASSUME NEW rows \in Answers, NEW i
  PROVE  Rank(rows, i) \in Nat
<1> DEFINE I == {j \in Accepted(rows) : Before(rows, j, i)}
<1>1. IsFiniteSet(I)
  BY AcceptedFinite, FS_Subset
<1> QED
  BY <1>1, FS_CardinalityType DEF Rank

\* No two rows have the same rank.
LEMMA RanksDiffer ==
  ASSUME NEW rows \in Answers, NEW i \in Accepted(rows), NEW j \in Accepted(rows),
         Rank(rows, i) = Rank(rows, j)
  PROVE  i = j
<1>1. Rank(rows, i) \in Nat /\ Rank(rows, j) \in Nat
  BY RankNatural
<1>2. ~Before(rows, i, j) /\ ~Before(rows, j, i)
  BY <1>1, RankMonotonic
<1> QED
  BY <1>2, StrictOrder

\* There is a row of every rank: the ranks are different and as many as the rows.
LEMMA Ranked ==
  ASSUME NEW rows \in Answers, NEW k \in 1 .. Cardinality(Accepted(rows))
  PROVE  \E i \in Accepted(rows) : Rank(rows, i) = k - 1
<1> DEFINE A == Accepted(rows)
           n == Cardinality(A)
           f == [i \in A |-> Rank(rows, i)]
<1>1. IsFiniteSet(A) /\ n \in Nat
  BY AcceptedFinite
<1>2. \A i \in A : Rank(rows, i) \in 0 .. n - 1
  <2> SUFFICES ASSUME NEW i \in A PROVE Rank(rows, i) \in 0 .. n - 1
    OBVIOUS
  <2> DEFINE I == {j \in A : Before(rows, j, i)}
  <2>1. I \subseteq A /\ i \notin I
    BY StrictOrder
  <2> HIDE DEF I
  <2>2. IsFiniteSet(I) /\ Cardinality(I) <= n /\ Cardinality(I) # n
    BY <1>1, <2>1, FS_Subset
  <2>3. Cardinality(I) \in Nat
    BY <2>2, FS_CardinalityType
  <2> QED
    BY <1>1, <2>2, <2>3 DEF I, Rank
<1>3. \A i, j \in A : i # j => Rank(rows, i) # Rank(rows, j)
  BY RanksDiffer
<1>4. f \in Injection(A, 0 .. n - 1)
  BY <1>2, <1>3 DEF Injection, IsInjective
<1>5. IsFiniteSet(0 .. n - 1) /\ Cardinality(0 .. n - 1) = n
  BY <1>1, FS_Interval, 0 \in Int, n - 1 \in Int
<1> HIDE DEF f
<1>6. f \in Surjection(A, 0 .. n - 1)
  BY <1>4, <1>5, FS_Injection
<1> USE DEF f
<1>7. k - 1 \in 0 .. n - 1
  BY <1>1
<1>8. PICK i \in A : f[i] = k - 1
  BY <1>6, <1>7 DEF Surjection
<1> QED
  BY <1>8

-----------------------------------------------------------------------------
(* The candidates of an answer                                              *)

\* The k-th candidate is the accepted row of rank k - 1.
LEMMA CandidateRanked ==
  ASSUME NEW rows \in Answers, NEW k \in DOMAIN Candidates(rows)
  PROVE  LET i == Candidates(rows)[k].row
         IN  /\ i \in Accepted(rows) /\ Rank(rows, i) = k - 1
             /\ Candidates(rows)[k] = NodeOf(rows, i)
             /\ k \in 1 .. Least(Cardinality(Accepted(rows)), MaxScanRows)
<1> DEFINE A == Accepted(rows)
           n == Least(Cardinality(A), MaxScanRows)
           i == CHOOSE j \in A : Rank(rows, j) = k - 1
<1>1. k \in 1 .. n /\ Candidates(rows)[k] = NodeOf(rows, i)
  BY DEF Candidates, Rank
<1>2. k \in 1 .. Cardinality(A)
  BY <1>1, AcceptedFinite, PoolAssumption DEF PoolAssumption, Least
<1>3. i \in A /\ Rank(rows, i) = k - 1
  BY <1>2, Ranked
<1>4. NodeOf(rows, i).row = i
  BY DEF NodeOf, Node
<1> QED
  BY <1>1, <1>3, <1>4

\* The benchmark gets the best of the accepted rows, best first, the earlier of two
\* equals first, none twice; nothing that is left out is better than what is kept.
THEOREM BestFirst ==
  ASSUME NEW rows \in Answers
  PROVE  LET c == Candidates(rows)
         IN  /\ Len(c) = Least(Cardinality(Accepted(rows)), MaxScanRows)
             /\ \A k \in DOMAIN c : c[k].row \in Accepted(rows)
             /\ \A k, l \in DOMAIN c : k < l => Before(rows, c[k].row, c[l].row)
             /\ \A i \in Accepted(rows) : \A k \in DOMAIN c :
                  (\A l \in DOMAIN c : c[l].row # i) => Before(rows, c[k].row, i)
<1> DEFINE A == Accepted(rows)
           n == Least(Cardinality(A), MaxScanRows)
           c == Candidates(rows)
<1>1. n \in Nat /\ n <= Cardinality(A) /\ Cardinality(A) \in Nat
  BY AcceptedFinite, PoolAssumption DEF PoolAssumption, Least
<1>2. c = [k \in 1 .. n |-> c[k]]
  BY DEF Candidates
<1>3. Len(c) = n
  BY <1>1, <1>2, Sequence
<1> HIDE DEF c
<1>4. \A k \in DOMAIN c : c[k].row \in A /\ Rank(rows, c[k].row) = k - 1 /\ k \in 1 .. n
  BY CandidateRanked DEF c
<1>5. \A i, j \in A : Rank(rows, i) < Rank(rows, j) => Before(rows, i, j)
  <2> SUFFICES ASSUME NEW i \in A, NEW j \in A, Rank(rows, i) < Rank(rows, j)
               PROVE  Before(rows, i, j)
    OBVIOUS
  <2>1. i # j /\ ~(Rank(rows, j) < Rank(rows, i))
    <3>1. Rank(rows, i) \in Nat /\ Rank(rows, j) \in Nat
      BY RankNatural
    <3> QED
      BY <3>1
  <2>2. ~Before(rows, j, i)
    BY <2>1, RankMonotonic
  <2> QED
    BY <2>1, <2>2, StrictOrder
<1>6. \A k, l \in DOMAIN c : k < l => Before(rows, c[k].row, c[l].row)
  BY <1>1, <1>4, <1>5
<1>7. ASSUME NEW i \in A, NEW k \in DOMAIN c, \A l \in DOMAIN c : c[l].row # i
      PROVE  Before(rows, c[k].row, i)
  <2>1. Rank(rows, i) \notin 0 .. n - 1
    <3> SUFFICES ASSUME Rank(rows, i) \in 0 .. n - 1 PROVE FALSE
      OBVIOUS
    <3> DEFINE l == Rank(rows, i) + 1
    <3>1. l \in DOMAIN c /\ l - 1 = Rank(rows, i)
      BY <1>1, <1>2
    <3>2. c[l].row \in A /\ Rank(rows, c[l].row) = Rank(rows, i)
      BY <1>4, <3>1
    <3>3. c[l].row = i
      BY <3>2, RanksDiffer
    <3> QED
      BY <1>7, <3>1, <3>3
  <2>2. Rank(rows, i) \in Nat
    BY RankNatural
  <2>3. Rank(rows, c[k].row) < Rank(rows, i) /\ c[k].row \in A
    BY <1>1, <1>4, <2>1, <2>2
  <2> QED
    BY <1>5, <2>3
<1> QED
  BY <1>3, <1>4, <1>6, <1>7 DEF c

\* Every candidate has a text that was validated.
LEMMA CandidatesUsable ==
  ASSUME NEW rows \in Answers, NEW k \in DOMAIN Candidates(rows)
  PROVE  Usable(Candidates(rows)[k].text)
<1> DEFINE i == Candidates(rows)[k].row
<1>1. i \in Accepted(rows) /\ Candidates(rows)[k] = NodeOf(rows, i)
  BY CandidateRanked
<1>2. Candidates(rows)[k].text = ValidateOpenVPNProfile(rows[i].profile, rows[i].public)
  BY <1>1 DEF NodeOf, Node
<1>3. rows[i].profile \in Seq(Lines)
  BY <1>1, AcceptedFinite DEF Rows
<1>4. ValidateOpenVPNProfile(rows[i].profile, rows[i].public) # Refused
  BY <1>1 DEF Accepted
<1> QED
  BY <1>2, <1>3, <1>4, ValidatedUsable

\* Every text that is offered or saved is one the validation returned, or that as it
\* went through JSON.
TextsUsable == \A nodes \in {pool, file} : \A i \in DOMAIN nodes : Usable(nodes[i].text)

\* Whatever the service answers, prepareFiles, which validates the profile of a node
\* again, accepts it, from the service as from the file: the same lines but for a carriage
\* return, unless the line feed at the end or the bytes that U+FFFD took the place of
\* have carried it past the limit.
THEOREM OfferedPassAgain == Spec => []UsableAgain
<1>1. Init => TextsUsable
  BY Empty DEF Init, TextsUsable, IsSeq
<1>2. PoolInv /\ TextsUsable /\ [Next]_vars => TextsUsable'
  <2> SUFFICES ASSUME PoolInv, TextsUsable, [Next]_vars PROVE TextsUsable'
    OBVIOUS
  <2> USE DEF TextsUsable
  <2>1. CASE Start
    BY <2>1 DEF Start
  <2>2. CASE FetchAndBench
    BY <2>2, Empty DEF FetchAndBench, IsSeq
  <2>3. CASE Answer
    <3>1. CASE FetchFails
      BY <3>1, Empty DEF FetchFails, IsSeq
    <3>2. CASE NotAList
      BY <3>2, Empty DEF NotAList, IsSeq
    <3>3. CASE Fetched
      BY <3>3, CandidatesUsable DEF Fetched
    <3> QED
      BY <2>3, <3>1, <3>2, <3>3 DEF Answer
  <2>4. ASSUME NEW w \in Workers, Send(w) PROVE TextsUsable'
    BY <2>4 DEF Send
  <2>5. ASSUME NEW w \in Workers, Probe(w) PROVE TextsUsable'
    <3> DEFINE h == holds[w]
    <3>1. PICK r \in BOOLEAN : pool' = [pool EXCEPT ![h] = Node(@.row, @.text, TRUE, r)]
      BY <2>5 DEF Probe
    <3>2. DOMAIN pool' = DOMAIN pool /\ file' = file
      BY <2>5, <3>1 DEF Probe
    <3>3. \A i \in DOMAIN pool : pool'[i].text = pool[i].text
      BY <3>1 DEF Node
    <3> QED
      BY <3>2, <3>3
  <2>6. ASSUME NEW w \in Workers, Leave(w) PROVE TextsUsable'
    BY <2>6 DEF Leave
  <2>7. CASE Joined
    BY <2>7 DEF Joined
  <2>8. CASE Save
    <3>1. pool' = pool /\ file' \in {InJSON(pool), file}
      BY <2>8 DEF Save
    <3>2. DOMAIN InJSON(pool) = DOMAIN pool
      BY DEF InJSON
    <3>3. \A i \in DOMAIN pool : InJSON(pool)[i].text = Each(Encoded, pool[i].text)
      BY DEF InJSON, Node
    <3>4. \A i \in DOMAIN pool : Usable(InJSON(pool)[i].text)
      BY <3>3, EncodedUsable
    <3> QED
      BY <3>1, <3>2, <3>4
  <2>9. CASE Cancel
    BY <2>9 DEF Cancel
  <2>10. CASE Ends
    BY <2>10, Empty DEF Ends, IsSeq
  <2>11. CASE UNCHANGED vars
    BY <2>11 DEF vars
  <2> QED
    BY <2>1, <2>2, <2>3, <2>4, <2>5, <2>6, <2>7, <2>8, <2>9, <2>10, <2>11 DEF Next
<1>3. TextsUsable => UsableAgain
  BY UsablePasses DEF TextsUsable, UsableAgain
<1> QED
  BY <1>1, <1>2, <1>3, Initially, Inductive, PTL DEF Spec
=============================================================================
