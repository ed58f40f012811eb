---------------------------- MODULE GraphReading ----------------------------
(***************************************************************************)
(* Reading an edge of the Graph API page by page: which answers of the     *)
(* server are an error, which errors may be retried, and when the list     *)
(* that was collected is the whole list.                                   *)
(***************************************************************************)
EXTENDS Naturals, FiniteSets

CONSTANTS
  Cursors,   \* the cursors the server gives out
  First,     \* no cursor: the first page
  Last,      \* the answer has no next cursor
  MaxPages   \* MAX_PAGES

PagesAssumption == MaxPages \in Nat \ {0}
CursorsAssumption ==
  /\ First \notin Cursors /\ Last \notin Cursors /\ First # Last
  /\ IsFiniteSet(Cursors)

VARIABLES
  next,   \* the cursor the server answers after each cursor
  reader  \* the state of collectEdge

vars == <<next, reader>>

Error == {"none", "VALIDATION", "AUTH_PERMISSION", "TRANSIENT_API", "UNKNOWN"}

-----------------------------------------------------------------------------
(* One request (graphGet).                                                 *)

\* How the transport and the status line may turn out.
Transport == {"answered", "silent", "redirected", "oversized", "undecodable"}
Status == {"ok", "rate", "server", "refused", "other"}
\* Codes of an error in the body.
Code == {"none", "transient", "auth", "other"}

Answer == [transport : Transport, status : Status, code : Code]

\* classifyResponse: a transient code outranks the status.
Classify(status, code) ==
  CASE status \in {"rate", "server"} \/ code = "transient" -> "TRANSIENT_API"
    [] status = "refused" \/ code = "auth" -> "AUTH_PERMISSION"
    [] OTHER -> "UNKNOWN"

\* An answer that does not come in time, or not at all, is transient.
ErrorOf(answer) ==
  CASE answer.transport = "silent" -> "TRANSIENT_API"
    [] answer.transport = "redirected" -> "UNKNOWN"
    [] answer.transport \in {"oversized", "undecodable"} -> "VALIDATION"
    [] answer.status = "ok" -> "none"
    [] OTHER -> Classify(answer.status, answer.code)

\* What MetaGraphRequestError is thrown with.
Retryable(error) == error = "TRANSIENT_API"

\* readBoundedBody, getCredential: what fails before or while an answer is read.
CredentialError(stored) ==
  CASE stored = "absent" -> "AUTH_PERMISSION"
    [] stored = "malformed" -> "VALIDATION"
    [] OTHER -> "none"

-----------------------------------------------------------------------------

Reader == [pc : {"credential", "reading", "done"}, after : Cursors \cup {First},
           seen : SUBSET Cursors, pages : 0..(MaxPages - 1),
           items : SUBSET (Cursors \cup {First}), repeated : BOOLEAN, error : Error]

Init ==
  /\ next \in [Cursors \cup {First} -> Cursors \cup {Last}]
  /\ reader = [pc |-> "credential", after |-> First, seen |-> {}, pages |-> 0,
               items |-> {}, repeated |-> FALSE, error |-> "none"]

Ends(error) == reader' = [reader EXCEPT !.pc = "done", !.error = error]

Credential(stored) ==
  /\ reader.pc = "credential"
  /\ IF CredentialError(stored) = "none" THEN reader' = [reader EXCEPT !.pc = "reading"]
     ELSE Ends(CredentialError(stored))
  /\ UNCHANGED next

Fails(answer) ==
  /\ reader.pc = "reading" /\ ErrorOf(answer) # "none"
  /\ Ends(ErrorOf(answer))
  /\ UNCHANGED next

Malformed ==
  /\ reader.pc = "reading"
  /\ Ends("VALIDATION")
  /\ UNCHANGED next

\* The items of a page are those of the cursor it was read with.
Taken == reader.items \cup {reader.after}

\* A page is appended; a repeated cursor and one page too many are errors.
NextPage ==
  LET cursor == next[reader.after] IN
  /\ reader.pc = "reading"
  /\ reader' =
       IF cursor = Last THEN [reader EXCEPT !.pc = "done", !.items = Taken]
       ELSE IF cursor \in reader.seen
       THEN [reader EXCEPT !.pc = "done", !.error = "VALIDATION", !.repeated = TRUE]
       ELSE IF reader.pages + 1 = MaxPages
       THEN [reader EXCEPT !.pc = "done", !.error = "TRANSIENT_API"]
       ELSE [reader EXCEPT !.after = cursor, !.seen = @ \cup {cursor},
                           !.pages = @ + 1, !.items = Taken]
  /\ UNCHANGED next

Stored == {"absent", "malformed", "token"}

Step ==
  \/ \E stored \in Stored : Credential(stored)
  \/ \E answer \in Answer : Fails(answer)
  \/ Malformed \/ NextPage

Next == Step \/ (reader.pc = "done" /\ UNCHANGED vars)

\* Every request has a time limit.
Spec == Init /\ [][Next]_vars /\ WF_vars(Step)

-----------------------------------------------------------------------------
(* Properties.                                                             *)

TypeOK ==
  /\ next \in [Cursors \cup {First} -> Cursors \cup {Last}]
  /\ reader \in Reader

\* The pages reachable from the first one.
Follow[n \in Nat] ==
  IF n = 0 THEN {First}
  ELSE Follow[n - 1] \cup ({next[c] : c \in Follow[n - 1]} \ {Last})
Reachable == Follow[Cardinality(Cursors)]

\* A list that is returned is the whole list: no page is left out because there were
\* too many (collectEdge throws instead).
CollectedIsComplete ==
  reader.pc = "done" /\ reader.error = "none" => reader.items = Reachable

\* A server that repeats itself is not worth a retry: only a list that is too long, or
\* a failing request, is reported as one.
RepetitionIsNotRetried == reader.repeated => ~Retryable(reader.error)
=============================================================================
