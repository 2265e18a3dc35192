------------------------------- MODULE DraftBuild -------------------------------
(***************************************************************************)
(* How ITCy builds a draft or a tweet: an id is taken from a sequence in   *)
(* SQLite, a `building` row and a research session are opened under it,    *)
(* LOAD and the writer run, and the text is saved under the id of the      *)
(* session.  Every Slack slash is a tokio task, all of them share the one  *)
(* `session` slot of ItcyTools, and each await or SQLite statement lets    *)
(* the others in.                                                          *)
(*                                                                         *)
(* A text is the build that wrote it.  The day in an id is left out.       *)
(***************************************************************************)
EXTENDS Naturals, FiniteSets

CONSTANTS Builds,       \* slash commands that build a text, each given once
          Surface,      \* Surface[b]: the surface the build is for
          Proposes,     \* bare /propose_*: the text may abandon its subject
          Farces,       \* /tweet_farce: no checkpoint of the research pack
          Edits,        \* which commands on finished drafts are given
          Faults,       \* which failures happen in this instance
          MaxOrd,       \* bound: ordinals taken per surface
          MaxRunning,   \* bound: commands running at once
          NoBuild, NoId, NoRow, NoText

Surfaces == {"LinkedIn", "X"}

\* llm: the model call of LOAD or of the writer fails.  refuse: a cite or a text
\* is refused.  sqlite: a best-effort statement fails.  crash: a restart.
AllFaults == {"llm", "refuse", "sqlite", "crash"}

\* Ordinal 0 stands for the fallback id `DRAFT-<day>-UNKNOWN`.
Ids == [surface : Surfaces, n : 0..MaxOrd]
UnknownId(s) == [surface |-> s, n |-> 0]

ASSUME BuildAssumption ==
    /\ Surface \in [Builds -> Surfaces]
    /\ Proposes \subseteq Builds
    /\ Farces \subseteq Builds
    /\ Edits \subseteq {"accept", "delete"}
    /\ Faults \subseteq AllFaults
    /\ MaxOrd \in Nat
    /\ MaxRunning \in Nat
    /\ NoBuild \notin Builds
    /\ NoId \notin Ids
    /\ NoText \notin Builds

VARIABLES seq,          \* draft_code_seq and tweet_code_seq
          session,      \* the id of the open research session, if any
          row,          \* drafts table
          build,        \* the running slash commands
          undisturbed   \* history: the build, if any, that met no open session
                        \* when it started and has run alone since

vars == <<seq, session, row, build, undisturbed>>

-------------------------------------------------------------------------------
Statuses == {"building", "open", "failed", "accepted"}
Row == [status : Statuses, text : Builds \cup {NoText}]

\* done: the text was saved.  failed: the failure was recorded.  ended: lost in a
\* restart, or its last write failed.
Ended == {"done", "failed", "ended"}

Pcs == {"new", "alloc", "bump", "stub", "begin", "open", "loadid", "loadbegin",
        "loadopen", "load", "chkid", "checkpoint", "write", "resolveid", "end",
        "finish", "fail"} \cup Ended

\* Where an allocation returns to.
Returns == {"stub", "loadbegin", "checkpoint", "end"}

\* own: the id of the command's row.  work: the id it last worked with.
\* from, seen, then: the sequence being advanced, the ordinal read from it, and
\* where the allocation returns to.
Build == [pc : Pcs, own : Ids \cup {NoId}, work : Ids \cup {NoId},
          from : Surfaces, seen : 0..MaxOrd, then : Returns]

\* A handler that is not running has no locals.
Idle(b, pc) == [pc |-> pc, own |-> NoId, work |-> NoId,
                from |-> Surface[b], seen |-> 0, then |-> "stub"]

TypeOK ==
    /\ seq \in [Surfaces -> 0..MaxOrd]
    /\ session \in Ids \cup {NoId}
    /\ row \in [Ids -> Row \cup {NoRow}]
    /\ build \in [Builds -> Build]
    /\ undisturbed \in Builds \cup {NoBuild}

Init ==
    /\ seq = [s \in Surfaces |-> 0]
    /\ session = NoId
    /\ row = [id \in Ids |-> NoRow]
    /\ build = [b \in Builds |-> Idle(b, "new")]
    /\ undisturbed = NoBuild

-------------------------------------------------------------------------------
Active(b) == build[b].pc \notin {"new"} \cup Ended
At(b, pc) == build[b].pc = pc
Goto(b, pc) == build' = [build EXCEPT ![b].pc = pc]
End(b, pc) == build' = [build EXCEPT ![b] = Idle(b, pc)]
HasRow(id) == row[id] # NoRow
HasStatus(id, status) == HasRow(id) /\ row[id].status = status

\* A slash command arrives.
Start(b) ==
    /\ At(b, "new")
    /\ Cardinality({c \in Builds : Active(c)}) < MaxRunning
    /\ Goto(b, "alloc")
    /\ undisturbed' = IF session = NoId /\ \A c \in Builds : ~Active(c)
                        THEN b ELSE NoBuild
    /\ UNCHANGED <<seq, session, row>>

\* The id is there: the locals of the allocation are gone.
Allocated(b, id) ==
    build' = [build EXCEPT ![b] = [Idle(b, build[b].then) EXCEPT
                                      !.own = build[b].own, !.work = id]]

\* next_draft_id / next_tweet_id: a SELECT, then an UPDATE, no transaction.  When
\* either statement fails the command goes on with the UNKNOWN id.
FallbackId(b) ==
    /\ "sqlite" \in Faults
    /\ Allocated(b, UnknownId(build[b].from))
    /\ UNCHANGED seq

ReadSeq(b) ==
    /\ At(b, "alloc")
    /\ \/ /\ build' = [build EXCEPT ![b].seen = seq[build[b].from], ![b].pc = "bump"]
          /\ UNCHANGED seq
       \/ FallbackId(b)
    /\ UNCHANGED <<session, row, undisturbed>>

WriteSeq(b) ==
    LET s == build[b].from
        next == build[b].seen + 1
    IN /\ At(b, "bump")
       /\ \/ /\ next <= MaxOrd
             /\ seq' = [seq EXCEPT ![s] = next]
             /\ Allocated(b, [surface |-> s, n |-> next])
          \/ FallbackId(b)
       /\ UNCHANGED <<session, row, undisturbed>>

\* stored_building_stub under the command's own id, whatever the row was; a
\* failed upsert is only logged.
Stub(b) ==
    LET id == build[b].work
    IN /\ At(b, "stub")
       /\ \/ row' = [row EXCEPT ![id] = [status |-> "building", text |-> NoText]]
          \/ "sqlite" \in Faults /\ UNCHANGED row
       /\ build' = [build EXCEPT ![b].own = id, ![b].pc = "begin"]
       /\ UNCHANGED <<seq, session, undisturbed>>

\* begin_research_session, first by the slash, then by LOAD: an open session is
\* reused whoever opened it; the lock is released before a new one is set.
AfterBegin(pc) == IF pc \in {"begin", "open"} THEN "loadid" ELSE "load"

BeginCheck(b) ==
    /\ build[b].pc \in {"begin", "loadbegin"}
    /\ Goto(b, IF session # NoId THEN AfterBegin(build[b].pc)
               ELSE IF At(b, "begin") THEN "open" ELSE "loadopen")
    /\ UNCHANGED <<seq, session, row, undisturbed>>

BeginOpen(b) ==
    /\ build[b].pc \in {"open", "loadopen"}
    /\ session' = build[b].work
    /\ Goto(b, AfterBegin(build[b].pc))
    /\ UNCHANGED <<seq, row, undisturbed>>

\* session_draft_id, asked for by LOAD, by the checkpoint and after the writer;
\* without a session a fresh DRAFT- id is allocated, for a tweet too.
AfterSessionId(pc) ==
    CASE pc = "loadid" -> "loadbegin" [] pc = "chkid" -> "checkpoint" [] OTHER -> "end"

\* Mutant: LOAD and the writer allocate an id of their own.
SessionIdAllocates(b) ==
    /\ build[b].pc \in {"loadid", "chkid", "resolveid"}
    /\ build' = [build EXCEPT ![b].from = "LinkedIn", ![b].pc = "alloc",
                              ![b].then = AfterSessionId(build[b].pc)]
    /\ UNCHANGED <<seq, session, row, undisturbed>>

SessionId(b) ==
    /\ build[b].pc \in {"loadid", "chkid", "resolveid"}
    /\ LET next == AfterSessionId(build[b].pc)
       IN build' = IF session # NoId
                     THEN [build EXCEPT ![b].work = session, ![b].pc = next]
                     ELSE [build EXCEPT ![b].from = "LinkedIn", ![b].pc = "alloc",
                                        ![b].then = next]
    /\ UNCHANGED <<seq, session, row, undisturbed>>

\* LOAD returns a research pack.  A failed model call ends the session; a
\* cite that does not answer leaves it open.
Load(b) ==
    /\ At(b, "load")
    /\ Goto(b, IF b \in Farces THEN "write" ELSE "chkid")
    /\ UNCHANGED <<seq, session, row, undisturbed>>

\* checkpoint_building_pack: the pack is no part of the row here, so only a
\* missing row changes; a failed write is not even logged.
Checkpoint(b) ==
    LET id == build[b].work
    IN /\ At(b, "checkpoint")
       /\ IF HasRow(id) THEN UNCHANGED row
          ELSE \/ row' = [row EXCEPT ![id] = [status |-> "building", text |-> NoText]]
               \/ "sqlite" \in Faults /\ UNCHANGED row
       /\ Goto(b, "write")
       /\ UNCHANGED <<seq, session, undisturbed>>

Write(b) ==
    /\ At(b, "write")
    /\ Goto(b, "resolveid")
    /\ UNCHANGED <<seq, session, row, undisturbed>>

\* end_session_best_effort ends whatever session is open.
ModelFails(b) ==
    /\ "llm" \in Faults
    /\ build[b].pc \in {"load", "write"}
    /\ session' = NoId
    /\ Goto(b, "fail")
    /\ UNCHANGED <<seq, row, undisturbed>>

\* An unreachable cite, a body that is empty, thin or a slogan after one retry,
\* a required quote still missing: the error returns with the session open.
\* After the session is ended the link floor may refuse the text too.
Refuse(b) ==
    /\ "refuse" \in Faults
    /\ build[b].pc \in {"load", "write", "finish"}
    /\ Goto(b, "fail")
    /\ UNCHANGED <<seq, session, row, undisturbed>>

EndSession(b) ==
    /\ At(b, "end")
    /\ session' = NoId
    /\ Goto(b, "finish")
    /\ UNCHANGED <<seq, row, undisturbed>>

\* persist_grounded_draft: the text goes to the row of the resolved id, which
\* becomes open.  A failed save is logged and the operator is told it was saved.
Persist(b) ==
    LET id == build[b].work
    IN /\ At(b, "finish")
       /\ \/ /\ row' = [row EXCEPT ![id] = [status |-> "open", text |-> b]]
             /\ End(b, "done")
          \/ /\ "sqlite" \in Faults
             /\ UNCHANGED row
             /\ End(b, "ended")
       /\ UNCHANGED <<seq, session, undisturbed>>

\* body_abandons_subject: the command's own row is deleted.
Abandon(b) ==
    LET id == build[b].own
    IN /\ At(b, "finish")
       /\ b \in Proposes
       /\ \/ row' = [row EXCEPT ![id] = NoRow] /\ End(b, "failed")
          \/ "sqlite" \in Faults /\ UNCHANGED row /\ End(b, "ended")
       /\ UNCHANGED <<seq, session, undisturbed>>

\* Mutant: the failure is answered and the row forgotten.
FailMarkForgotten(b) ==
    /\ At(b, "fail")
    /\ End(b, "failed")
    /\ UNCHANGED <<seq, session, row, undisturbed>>

\* Mutant: the row of a failed build is failed whatever became of it.
FailMarkAnyway(b) ==
    LET id == build[b].own
    IN /\ At(b, "fail")
       /\ row' = [row EXCEPT ![id] = IF HasRow(id) THEN [@ EXCEPT !.status = "failed"]
                                                   ELSE @]
       /\ End(b, "failed")
       /\ UNCHANGED <<seq, session, undisturbed>>

\* mark_status_from(building, failed) on the command's own row.
FailMark(b) ==
    LET id == build[b].own
    IN /\ At(b, "fail")
       /\ \/ /\ row' = IF HasStatus(id, "building")
                         THEN [row EXCEPT ![id].status = "failed"] ELSE row
             /\ End(b, "failed")
          \/ "sqlite" \in Faults /\ UNCHANGED row /\ End(b, "ended")
       /\ UNCHANGED <<seq, session, undisturbed>>

-------------------------------------------------------------------------------
\* What the publish gate does to a finished draft, seen from here.
Accept(id) ==
    /\ "accept" \in Edits
    /\ HasStatus(id, "open")
    /\ row' = [row EXCEPT ![id].status = "accepted"]
    /\ UNCHANGED <<seq, session, build, undisturbed>>

\* /delete takes any row, one that is still building included.
Delete(id) ==
    /\ "delete" \in Edits
    /\ HasRow(id)
    /\ row' = [row EXCEPT ![id] = NoRow]
    /\ UNCHANGED <<seq, session, build, undisturbed>>

\* A restart loses the running builds and the session; at boot every building
\* row becomes failed (fail_all_building, whose failure is only logged).
Restart ==
    /\ "crash" \in Faults
    /\ build' = [b \in Builds |->
                    IF Active(b) THEN Idle(b, "ended") ELSE build[b]]
    /\ session' = NoId
    /\ \/ row' = [id \in Ids |-> IF HasStatus(id, "building")
                                   THEN [row[id] EXCEPT !.status = "failed"]
                                   ELSE row[id]]
       \/ "sqlite" \in Faults /\ UNCHANGED row
    /\ UNCHANGED <<seq, undisturbed>>

Step(b) ==
    \/ ReadSeq(b) \/ WriteSeq(b) \/ Stub(b) \/ BeginCheck(b) \/ BeginOpen(b)
    \/ SessionId(b) \/ Load(b) \/ Checkpoint(b) \/ Write(b) \/ ModelFails(b)
    \/ Refuse(b) \/ EndSession(b) \/ Persist(b) \/ Abandon(b) \/ FailMark(b)

Next ==
    \/ \E b \in Builds : Start(b) \/ Step(b)
    \/ \E id \in Ids : Accept(id) \/ Delete(id)
    \/ Restart

Spec == Init /\ [][Next]_vars

-------------------------------------------------------------------------------
\* A build is disturbed by a session somebody left open and by any build that
\* runs beside it; `undisturbed` is one that meets neither.
RunsAlone(b) == b = undisturbed /\ Active(b)

\* A build that runs alone, and whose session nobody left open, touches no row
\* but its own: its stub, its checkpoint, its text and its failure all land
\* under the id the operator was given.
WritesOnlyItsRow ==
    [][\A b \in Builds :
          RunsAlone(b) /\ Step(b)
            => \A id \in Ids \ {build[b].own, build'[b].own} : row'[id] = row[id]]_vars

\* When it reports a text, that text is what its row holds, open; when it
\* reports a failure, its row is not left `building`.
EndsWithItsText ==
    [][\A b \in Builds :
          RunsAlone(b) =>
             /\ build'[b].pc = "done"
                  => row'[build[b].own] = [status |-> "open", text |-> b]
             /\ build'[b].pc = "failed"
                  => \/ row'[build[b].own] = NoRow
                     \/ row'[build[b].own].status # "building"]_vars

\* However builds, edits and restarts interleave, a failure that comes late does
\* not fail a row that holds an open or accepted text.
LateFailureSparesText ==
    [][\A id \in Ids :
          HasStatus(id, "open") \/ HasStatus(id, "accepted")
            => row'[id] = NoRow \/ row'[id].status # "failed"]_vars

\* The comment of build_grounded_draft_with_cite, "Prefer Draft ID already
\* allocated by Slack": a build that was given an id saves its text under it.
BuildKeepsItsId ==
    [][\A b \in Builds :
          Active(b) /\ build'[b].pc = "done"
            => row'[build[b].own] = [status |-> "open", text |-> b]]_vars

\* The doc comment of next_draft_id, "monotonic; never wraps".
SeqMonotonic == [][\A s \in Surfaces : seq'[s] >= seq[s]]_vars

-------------------------------------------------------------------------------
\* What makes an undisturbed build keep its id: until the slash opens its
\* session there is none, and from then on the session carries its own id.
Opening == {"alloc", "bump", "stub", "begin", "open"}
Running == {"loadid", "loadbegin", "load", "chkid", "checkpoint", "write",
            "resolveid", "end"}

NewInv == \A b \in Builds : At(b, "new") => build[b].then = "stub"

UndisturbedInv ==
    \A b \in Builds : RunsAlone(b) =>
        /\ \A c \in Builds \ {b} : ~Active(c)
        /\ build[b].pc \in Opening => session = NoId
        /\ build[b].pc \in {"alloc", "bump"} => build[b].then = "stub"
        /\ At(b, "stub") => build[b].work \in Ids
        /\ build[b].pc \in Running => session = build[b].own
        /\ build[b].pc \in {"begin", "open", "finish", "fail"} \cup Running
              => build[b].own \in Ids /\ build[b].work = build[b].own
        /\ ~At(b, "loadopen")

BuildInv == TypeOK /\ NewInv /\ UndisturbedInv
===============================================================================
