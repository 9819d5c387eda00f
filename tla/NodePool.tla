-------------------------------- MODULE NodePool --------------------------------
(***************************************************************************)
(* The candidate pool (Manager.fetchAndBench): the VPN Gate answer is        *)
(* fetched, parsed, each profile reduced to its permitted lines              *)
(* (internal/vpngate), the best rows are benchmarked by a pool of workers     *)
(* (internal/benchmark) and saved to nodes.json, which stands in for the      *)
(* answer when the fetch fails.                                              *)
(*                                                                          *)
(* A profile is what stands between its line feeds, each a class of lines.    *)
(* External: the answer, and whether a dial succeeds.  Saving is atomic: see  *)
(* StateFiles.                                                               *)
(***************************************************************************)
EXTENDS Integers, Sequences, FiniteSets

CONSTANTS
  Answers,      \* sequences of rows the service may answer with
  Workers,      \* goroutines of one benchmark: BenchConcurrency, at least 1
  MaxScanRows,  \* candidates kept
  MaxProfile    \* size of a profile; a line and a line feed count 1

\* What is no directive and may only stand in a block: a text, one that ends in one
\* carriage return or in two (bound: no more), one with a byte that is no UTF-8, and one
\* with U+FFFD in its place.
Contents == {"text", "cr", "crcr", "bytes", "replaced"}

\* "option" and "remote" are permitted; a "remote" names the address of the row.
Lines == {"blank", "comment", "option", "remote", "<ca>", "</ca>", "<key>", "</key>"}
         \cup Contents

\* A row: it starts with "*", or has a score, an address that may not be public,
\* and a profile; <<>> if the column is empty or not base64.
Rows == [star : BOOLEAN, score : Int, public : BOOLEAN, profile : Seq(Lines)]

ASSUME PoolAssumption ==
  /\ Answers \subseteq Seq(Rows)
  /\ IsFiniteSet(Workers) /\ Workers # {}
  /\ MaxScanRows \in Nat /\ MaxProfile \in Nat

VARIABLES
  stage,     \* of the loop in Manager.Run: "down", "idle", "fetch", "bench", "save"
  pool,      \* the candidates
  fed,       \* how many of them have been sent to the jobs channel
  holds,     \* [Workers -> the candidate it probes, 0 for none]
  gone,      \* workers that have left
  file,      \* the nodes of nodes.json
  cancelled  \* the context is cancelled

bench == <<fed, holds, gone>>
vars == <<stage, pool, bench, file, cancelled>>

Init ==
  /\ stage = "down" /\ pool = <<>>
  /\ fed = 0 /\ holds = [w \in Workers |-> 0] /\ gone = {}
  /\ file = <<>> /\ cancelled = FALSE

-----------------------------------------------------------------------------
(* ValidateOpenVPNProfile                                                   *)

\* The text ends in a line feed if the last line is blank.
Bytes(lines) == Len(lines) - 1 + Cardinality({i \in DOMAIN lines : lines[i] # "blank"})

\* U+FFFD has three bytes.
Size(lines) == Bytes(lines) + 2 * Cardinality({i \in DOMAIN lines : lines[i] = "replaced"})

Each(f, lines) == [i \in DOMAIN lines |-> f[lines[i]]]

\* ReplaceAll(profile, "\r\n", "\n") takes one carriage return off the end of a line.
LF == [l \in Lines |-> IF l = "cr" THEN "text" ELSE IF l = "crcr" THEN "cr" ELSE l]

Closing == [b \in {"<ca>", "<key>"} |-> IF b = "<ca>" THEN "</ca>" ELSE "</key>"]

\* Mutant: the closing tag is not kept.
Read_DropsClosing(s, line) ==
  IF s.block # "none"
  THEN [s EXCEPT !.block = IF line = Closing[@] THEN "none" ELSE @,
                 !.out = IF line \in {"blank", Closing[s.block]} THEN @ ELSE Append(@, line)]
  ELSE CASE line \in {"blank", "comment"} -> s
         [] line \in DOMAIN Closing -> [s EXCEPT !.block = line, !.out = Append(@, line)]
         [] line = "option" -> [s EXCEPT !.out = Append(@, line)]
         [] line = "remote" -> [s EXCEPT !.out = Append(@, line), !.remote = TRUE]
         [] OTHER -> [s EXCEPT !.ok = FALSE]

\* One line.  A block ends at its own closing tag and keeps everything but blanks as it is;
\* outside, blanks and comments are dropped and what is not permitted is refused.
Read(s, line) ==
  IF s.block # "none"
  THEN [s EXCEPT !.block = IF line = Closing[@] THEN "none" ELSE @,
                 !.out = IF line = "blank" THEN @ ELSE Append(@, line)]
  ELSE CASE line \in {"blank", "comment"} -> s
         [] line \in DOMAIN Closing -> [s EXCEPT !.block = line, !.out = Append(@, line)]
         [] line = "option" -> [s EXCEPT !.out = Append(@, line)]
         [] line = "remote" -> [s EXCEPT !.out = Append(@, line), !.remote = TRUE]
         [] OTHER -> [s EXCEPT !.ok = FALSE]

Nothing == [block |-> "none", out |-> <<>>, remote |-> FALSE, ok |-> TRUE]
Refused == <<>>

\* The state after each line.
Reading(lines) ==
  LET after[i \in 0 .. Len(lines)] ==
        IF i = 0 THEN Nothing ELSE Read(after[i - 1], lines[i])
  IN  after

\* The permitted lines, ended by a line feed.
ValidateOpenVPNProfile(lines, public) ==
  LET end == Reading(Each(LF, lines))[Len(lines)]
  IN  IF /\ Size(lines) \in 1 .. MaxProfile /\ public
         /\ end.ok /\ end.block = "none" /\ end.remote
      THEN Append(end.out, "blank") ELSE Refused

-----------------------------------------------------------------------------
(* Parse, SortByScore and MaxScanRows                                       *)

Accepted(rows) ==
  {i \in DOMAIN rows :
     ~rows[i].star /\ ValidateOpenVPNProfile(rows[i].profile, rows[i].public) # Refused}

\* A stable sort, highest score first.
Before(rows, i, j) ==
  rows[i].score > rows[j].score \/ (rows[i].score = rows[j].score /\ i < j)

Node(i, p, t, r) == [row |-> i, text |-> p, tested |-> t, reached |-> r]
NodeOf(rows, i) ==
  Node(i, ValidateOpenVPNProfile(rows[i].profile, rows[i].public), FALSE, FALSE)

Least(m, n) == IF m < n THEN m ELSE n

\* The best MaxScanRows rows.
Candidates(rows) ==
  LET A == Accepted(rows)
  IN  [k \in 1 .. Least(Cardinality(A), MaxScanRows) |->
         NodeOf(rows, CHOOSE i \in A : Cardinality({j \in A : Before(rows, j, i)}) = k - 1)]

-----------------------------------------------------------------------------
(* fetchAndBench                                                            *)

Start ==
  /\ stage = "down" /\ stage' = "idle" /\ cancelled' = FALSE
  /\ UNCHANGED <<pool, bench, file>>

\* The loop has no use for the former candidates any more.
FetchAndBench ==
  /\ stage = "idle" /\ ~cancelled /\ stage' = "fetch" /\ pool' = <<>>
  /\ UNCHANGED <<bench, file, cancelled>>

\* An error or a timeout: the nodes of the file, if it can be read.
FetchFails ==
  /\ stage = "fetch" /\ stage' = "idle"
  /\ pool' \in {file, <<>>}
  /\ UNCHANGED <<bench, file, cancelled>>

\* An answer that is not the list: no candidates, the file is not asked.
NotAList ==
  /\ stage = "fetch" /\ stage' = "idle" /\ pool' = <<>>
  /\ UNCHANGED <<bench, file, cancelled>>

\* The workers of a new benchmark wait for jobs.
Fetched ==
  /\ stage = "fetch" /\ stage' = "bench"
  /\ \E rows \in Answers : pool' = Candidates(rows)
  /\ fed' = 0 /\ holds' = [w \in Workers |-> 0] /\ gone' = {}
  /\ UNCHANGED <<file, cancelled>>

\* jobs is unbuffered: a send meets a worker that is free.
Send(w) ==
  /\ stage = "bench" /\ fed < Len(pool) /\ holds[w] = 0 /\ w \notin gone
  /\ fed' = fed + 1 /\ holds' = [holds EXCEPT ![w] = fed']
  /\ UNCHANGED <<stage, pool, gone, file, cancelled>>

\* The dial succeeds, or fails: it times out, or the context is cancelled.
Probe(w) ==
  /\ stage = "bench" /\ holds[w] # 0
  /\ \E r \in BOOLEAN :
       /\ r => ~cancelled
       /\ pool' = [pool EXCEPT ![holds[w]] = Node(@.row, @.text, TRUE, r)]
  /\ holds' = [holds EXCEPT ![w] = 0]
  /\ UNCHANGED <<stage, fed, gone, file, cancelled>>

\* Mutant: a worker leaves when the context is cancelled.
Leave_Cancelled(w) ==
  /\ stage = "bench" /\ holds[w] = 0 /\ w \notin gone
  /\ fed = Len(pool) \/ cancelled
  /\ gone' = gone \cup {w}
  /\ UNCHANGED <<stage, pool, fed, holds, file, cancelled>>

\* The channel is closed after the last job.
Leave(w) ==
  /\ stage = "bench" /\ holds[w] = 0 /\ w \notin gone
  /\ fed = Len(pool)
  /\ gone' = gone \cup {w}
  /\ UNCHANGED <<stage, pool, fed, holds, file, cancelled>>

\* Mutant: nobody waits for the workers.
Joined_NoWait ==
  /\ stage = "bench" /\ fed = Len(pool) /\ stage' = "save"
  /\ UNCHANGED <<pool, bench, file, cancelled>>

\* wg.Wait.
Joined ==
  /\ stage = "bench" /\ fed = Len(pool) /\ gone = Workers /\ stage' = "save"
  /\ UNCHANGED <<pool, bench, file, cancelled>>

\* JSON has U+FFFD for a byte that is no UTF-8.
Encoded == [l \in Lines |-> IF l = "bytes" THEN "replaced" ELSE l]
InJSON(nodes) ==
  [i \in DOMAIN nodes |->
     Node(nodes[i].row, Each(Encoded, nodes[i].text), nodes[i].tested, nodes[i].reached)]

\* SaveNodes; its error is only logged.
Save ==
  /\ stage = "save" /\ stage' = "idle"
  /\ file' \in {InJSON(pool), file}
  /\ fed' = 0 /\ gone' = {}
  /\ UNCHANGED <<pool, holds, cancelled>>

Cancel ==
  /\ stage # "down" /\ ~cancelled /\ cancelled' = TRUE
  /\ UNCHANGED <<stage, pool, bench, file>>

\* Run returns, or the process is killed where it stands.
Ends ==
  /\ stage # "down" /\ stage' = "down"
  /\ pool' = <<>>
  /\ fed' = 0 /\ holds' = [w \in Workers |-> 0] /\ gone' = {}
  /\ UNCHANGED <<file, cancelled>>

Answer == FetchFails \/ NotAList \/ Fetched

Next ==
  \/ Start \/ FetchAndBench \/ Answer \/ Joined \/ Save \/ Cancel \/ Ends
  \/ \E w \in Workers : Send(w) \/ Probe(w) \/ Leave(w)

Spec == Init /\ [][Next]_vars

\* The client's timeout ends a fetch, the dialer's a probe; goroutines run.
FairSpec ==
  /\ Spec
  /\ WF_vars(Answer) /\ WF_vars(Joined) /\ WF_vars(Save)
  /\ WF_vars(\E w \in Workers : Send(w))
  /\ \A w \in Workers : WF_vars(Probe(w)) /\ WF_vars(Leave(w))

-----------------------------------------------------------------------------
(* Properties                                                               *)

\* The text passes the validation again, unless it got too large, and comes out the
\* same but for one carriage return at the end of a line.  It can get too large only by
\* the line feed at its end and by what U+FFFD takes more than the byte it stands for.
PassesAgain(text) ==
  /\ Size(text) <= MaxProfile => ValidateOpenVPNProfile(text, TRUE) = Each(LF, text)
  /\ Bytes(text) <= MaxProfile + 1

\* Every node offered to the supervisor or saved passes the same validation again
\* when prepareFiles repeats it (manager.go:483), whether it comes from the service or
\* from nodes.json, except for its size.
UsableAgain ==
  \A nodes \in {pool, file} : \A i \in DOMAIN nodes : PassesAgain(nodes[i].text)

\* No node is offered or saved before its measurement is finished: also if the
\* context is cancelled or the program dies meanwhile (benchmark.go:35-39).
Measured ==
  /\ \A i \in DOMAIN file : file[i].tested
  /\ stage = "idle" => \A i \in DOMAIN pool : pool[i].tested

\* A fetch comes to an end whatever the service and the nodes do, and also if it
\* is cancelled: the feeder is never left without a worker (benchmark.go:36).
FetchReturns == stage = "fetch" ~> stage \in {"idle", "down"}
=============================================================================
