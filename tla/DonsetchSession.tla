---------------------------- MODULE DonsetchSession ----------------------------
(***************************************************************************)
(* One extraction through the local DonSeTch process (providers.d/donsetch.py): *)
(* a child that speaks line by line over its pipes, a reader thread that      *)
(* feeds its lines to a queue, one deadline for the session and one for the   *)
(* request around it.  The child may answer late, answer again, say other     *)
(* things, or die.                                                           *)
(***************************************************************************)
EXTENDS Naturals, Sequences

CONSTANTS
    PageCount,    \* the number of requested URLs
    MaxLines      \* bound on the lines the child writes

ASSUME SessionAssumption == PageCount \in Nat /\ MaxLines \in Nat

VARIABLES
    child,      \* the process: "none", "up", "gone"
    heard,      \* the requests the child has got: request id n + 1 fetches page n
    lines,      \* _stdout_lines
    said,       \* bound: lines written so far
    rows,       \* projected: a page or 0 for an error, one per URL
    host,       \* [step, error]: where the caller is, and what it raised
    overdue     \* [session, request]: the two deadlines have passed

sessionvars == <<child, heard, lines, said, rows, host, overdue>>

Line(kind, id) == [kind |-> kind, id |-> id]
EndMark == Line("end", 0)
NoPage  == 0

AtStep(step) == host.step = step
GoTo(step) == host' = [host EXCEPT !.step = step]
RequestId == IF AtStep("initialize") THEN 1 ELSE Len(rows) + 2

\* __exit__ after an exception, and the exception execute_extract raises for it.
Raise(error) == host' = [step |-> "close", error |-> error]

-----------------------------------------------------------------------------
(* The child and the reader thread. *)

\* A reply, with an answer or an error, to anything it has been asked; or a line that
\* answers nothing.
ChildSays ==
    /\ child = "up" /\ said < MaxLines /\ said' = said + 1
    /\ \/ \E id \in heard, kind \in {"page", "no_page", "error"} : lines' = Append(lines, Line(kind, id))
       \/ lines' = Append(lines, Line("notice", 0))
    /\ UNCHANGED <<child, heard, rows, host, overdue>>

\* _collect_stdout ends with the mark when the pipe does.
ChildDies ==
    /\ child = "up" /\ child' = "gone"
    /\ lines' = Append(lines, EndMark)
    /\ UNCHANGED <<heard, said, rows, host, overdue>>

-----------------------------------------------------------------------------
(* The caller. *)

\* _start and the initialize request; the binary may be missing, the child gone at once.
StartSession ==
    /\ AtStep("start")
    /\ \/ /\ child' = "up" /\ heard' = {1} /\ GoTo("initialize")
          /\ UNCHANGED <<lines, said, rows, overdue>>
       \/ /\ Raise("not_configured") /\ UNCHANGED <<child, heard, lines, said, rows, overdue>>

Write(id) == heard' = heard \cup {id}

\* Fetched pages are kept: what fails later only ends the session, and the URLs that were
\* not fetched get an error each.
GiveUp(error) ==
    IF \E i \in 1 .. Len(rows) : rows[i] # NoPage
    THEN /\ rows' = [i \in 1 .. PageCount |-> IF i <= Len(rows) THEN rows[i] ELSE NoPage]
         /\ GoTo("close")
    ELSE Raise(error) /\ UNCHANGED rows

\* A failure of the handshake or of a call.
Breaks(error) == IF AtStep("initialize") THEN Raise(error) /\ UNCHANGED rows ELSE GiveUp(error)

\* A page is projected under the URL that was asked for.
Project(page) ==
    /\ rows' = Append(rows, page)
    /\ GoTo("next")

\* No new fetch after the request's deadline.
NextPage ==
    /\ AtStep("next") /\ Len(rows) < PageCount
    /\ IF overdue.request THEN Project(NoPage) /\ UNCHANGED heard
       ELSE IF child = "up" THEN Write(RequestId) /\ GoTo("await") /\ UNCHANGED rows
       ELSE GiveUp("process_failed") /\ UNCHANGED heard
    /\ UNCHANGED <<child, lines, said, overdue>>

AllRows ==
    /\ AtStep("next") /\ Len(rows) = PageCount /\ GoTo("close")
    /\ UNCHANGED <<child, heard, lines, said, rows, overdue>>

Awaiting == host.step \in {"initialize", "await"}
\* Mutant: the next reply is taken for the answer, whichever request it is to.
MatchesAnyReply(line) == line.kind # "notice"

Matches(line) == line.id = RequestId

ReadLine ==
    /\ Awaiting /\ ~overdue.session /\ lines # <<>>
    /\ LET line == Head(lines) IN
       IF line = EndMark THEN Breaks("mcp_failed") /\ lines' = Append(Tail(lines), EndMark)
       ELSE /\ lines' = Tail(lines)
            /\ IF ~Matches(line) THEN UNCHANGED <<rows, host>>
               ELSE IF line.kind = "error" THEN Breaks("call_failed")
               ELSE IF AtStep("initialize") THEN GoTo("next") /\ UNCHANGED rows
               ELSE Project(IF line.kind = "page" THEN line.id - 1 ELSE NoPage)
    /\ UNCHANGED <<child, heard, said, overdue>>

ReadTimesOut ==
    /\ Awaiting /\ overdue.session /\ Breaks("timeout")
    /\ UNCHANGED <<child, heard, lines, said, overdue>>

\* terminate, and kill if it does not help.
CloseSession ==
    /\ AtStep("close") /\ GoTo("done")
    /\ child' = IF child = "up" THEN "gone" ELSE child
    /\ UNCHANGED <<heard, lines, said, rows, overdue>>

SessionTime ==
    /\ \E which \in {"session", "request"} : ~overdue[which] /\ overdue' = [overdue EXCEPT ![which] = TRUE]
    /\ UNCHANGED <<child, heard, lines, said, rows, host>>

SessionInit ==
    /\ child = "none" /\ heard = {} /\ lines = <<>> /\ said = 0 /\ rows = <<>>
    /\ host = [step |-> "start", error |-> "none"]
    /\ overdue = [session |-> FALSE, request |-> FALSE]

SessionNext ==
    \/ ChildSays \/ ChildDies \/ StartSession \/ NextPage \/ AllRows
    \/ ReadLine \/ ReadTimesOut \/ CloseSession \/ SessionTime

SessionSpec == SessionInit /\ [][SessionNext]_sessionvars

-----------------------------------------------------------------------------
\* However the child answers and whenever a deadline passes, the extraction ends in one of
\* two ways: it raises and no page had been fetched, or it returns one row per URL; a page
\* is in the row of the URL it is a page of, and the child does not outlive the session.
SessionOutcome ==
    /\ \A i \in 1 .. Len(rows) : rows[i] \in {i, NoPage}
    /\ AtStep("done") =>
          /\ child # "up"
          /\ IF host.error = "none" THEN Len(rows) = PageCount
             ELSE \A i \in 1 .. Len(rows) : rows[i] = NoPage
=============================================================================
