----------------------------- MODULE PromoteGuard -----------------------------
(***************************************************************************)
(* `PrPromoteGuard` of hooks/github.rs: the set of pull-request numbers in *)
(* promotion, the async mutex around it, and the wakes that go through it. *)
(* Acquiring waits for the mutex; dropping the guard only tries it, so a   *)
(* contended drop forgets to remove its number.  The set is keyed by the   *)
(* bare number, whatever the repository the pull request lives in.         *)
(***************************************************************************)
EXTENDS Naturals, FiniteSets

CONSTANTS Wakes,     \* webhook deliveries handled by the process
          Pulls,     \* pull requests of the publications repositories
          Number,    \* the number GitHub gave each pull request
          Free,      \* the mutex is not held
          NoPull     \* an idle wake

ASSUME GuardAssumption ==
    /\ Number \in [Pulls -> Nat]
    /\ Free \notin Wakes
    /\ NoPull \notin Pulls \cup Nat

VARIABLES inflight,  \* bat_promote_inflight: numbers
          lock,      \* who holds the mutex around `inflight`
          pc,        \* where each wake is
          pull       \* the pull request a wake is about

guardVars == <<inflight, lock, pc, pull>>

Phases == {"idle", "waiting", "holding", "promoting", "removing"}

Numbers == {Number[p] : p \in Pulls}

GuardTypeOK ==
    /\ inflight \subseteq Numbers
    /\ lock \in Wakes \cup {Free}
    /\ pc \in [Wakes -> Phases]
    /\ pull \in [Wakes -> Pulls \cup {NoPull}]

\* A wake inside `try_promote_if_bat_green`, past a successful try_acquire.
Promoting(w) == pc[w] \in {"promoting", "removing"}

GuardInit ==
    /\ inflight = {}
    /\ lock = Free
    /\ pc = [w \in Wakes |-> "idle"]
    /\ pull = [w \in Wakes |-> NoPull]

BackToIdle(w) ==
    /\ pc' = [pc EXCEPT ![w] = "idle"]
    /\ pull' = [pull EXCEPT ![w] = NoPull]

\* `merge_outcome` calls `try_promote_if_bat_green` for a delivery.
Deliver(w, p) ==
    /\ pc[w] = "idle"
    /\ pc' = [pc EXCEPT ![w] = "waiting"]
    /\ pull' = [pull EXCEPT ![w] = p]
    /\ UNCHANGED <<inflight, lock>>

\* `state.bat_promote_inflight.lock().await` hands the mutex to a waiter.
Lock(w) ==
    /\ pc[w] = "waiting"
    /\ lock = Free
    /\ lock' = w
    /\ pc' = [pc EXCEPT ![w] = "holding"]
    /\ UNCHANGED <<inflight, pull>>

\* Mutant: the set is not looked at.
EnterUnchecked(w) ==
    /\ pc[w] = "holding"
    /\ inflight' = inflight \cup {Number[pull[w]]}
    /\ lock' = Free
    /\ pc' = [pc EXCEPT ![w] = "promoting"]
    /\ UNCHANGED pull

\* `guard.insert` was true: the mutex is dropped and the wake promotes.
Enter(w) ==
    /\ pc[w] = "holding"
    /\ Number[pull[w]] \notin inflight
    /\ inflight' = inflight \cup {Number[pull[w]]}
    /\ lock' = Free
    /\ pc' = [pc EXCEPT ![w] = "promoting"]
    /\ UNCHANGED pull

\* Mutant: the refusal returns with the mutex held.
RefuseLocked(w) ==
    /\ pc[w] = "holding"
    /\ Number[pull[w]] \in inflight
    /\ BackToIdle(w)
    /\ UNCHANGED <<inflight, lock>>

\* `guard.insert` was false: NotReady "already in flight".
RefuseWake(w) ==
    /\ pc[w] = "holding"
    /\ Number[pull[w]] \in inflight
    /\ lock' = Free
    /\ BackToIdle(w)
    /\ UNCHANGED inflight

\* Drop for PrPromoteGuard, `try_lock` succeeds.
DropTaken(w) ==
    /\ pc[w] = "promoting"
    /\ lock = Free
    /\ lock' = w
    /\ pc' = [pc EXCEPT ![w] = "removing"]
    /\ UNCHANGED <<inflight, pull>>

\* Drop for PrPromoteGuard, `try_lock` fails: the number stays in the set.
DropContended(w) ==
    /\ pc[w] = "promoting"
    /\ lock # Free
    /\ BackToIdle(w)
    /\ UNCHANGED <<inflight, lock>>

RemoveNumber(w) ==
    /\ pc[w] = "removing"
    /\ inflight' = inflight \ {Number[pull[w]]}
    /\ lock' = Free
    /\ BackToIdle(w)

\* The connection of an inline handler closes while it waits for the mutex.
CancelWaiting(w) ==
    /\ pc[w] = "waiting"
    /\ BackToIdle(w)
    /\ UNCHANGED <<inflight, lock>>

\* The process restarts with an empty `GithubHookState`.
RestartProcess ==
    /\ inflight' = {}
    /\ lock' = Free
    /\ pc' = [w \in Wakes |-> "idle"]
    /\ pull' = [w \in Wakes |-> NoPull]

WakeStep(w) ==
    \/ Lock(w) \/ Enter(w) \/ RefuseWake(w)
    \/ DropTaken(w) \/ DropContended(w) \/ RemoveNumber(w)

GuardNext ==
    \/ \E w \in Wakes, p \in Pulls : Deliver(w, p)
    \/ \E w \in Wakes : WakeStep(w) \/ CancelWaiting(w)
    \/ RestartProcess

GuardSpec == GuardInit /\ [][GuardNext]_guardVars

\* The runtime polls a woken task again (weak fairness); tokio's mutex is a
\* FIFO queue, so a waiter is not overtaken for ever (strong fairness of Lock).
GuardFairness ==
    \A w \in Wakes : SF_guardVars(Lock(w)) /\ WF_guardVars(WakeStep(w))

FairGuardSpec == GuardSpec /\ GuardFairness

-------------------------------------------------------------------------------
\* Two wakes never promote the same pull request at the same time, in spite of
\* the gap between acquiring and dropping and of the numbers left behind.
OnePromotionPerPull ==
    \A v, w \in Wakes :
        v # w /\ Promoting(v) /\ Promoting(w) => pull[v] # pull[w]

\* The inductive strengthening: a promoting wake's own number is in the set and
\* nobody else promotes under that number; the mutex is held by who says so.
GuardInv ==
    /\ GuardTypeOK
    /\ \A w \in Wakes : pc[w] # "idle" => pull[w] \in Pulls
    /\ \A w \in Wakes : pc[w] \in {"holding", "removing"} <=> lock = w
    /\ \A w \in Wakes : Promoting(w) => Number[pull[w]] \in inflight
    /\ \A v, w \in Wakes :
          v # w /\ Promoting(v) /\ Promoting(w)
            => Number[pull[v]] # Number[pull[w]]

\* Every delivery that reached the guard is answered: no wake waits for the
\* mutex for ever and none keeps its number for ever while the runtime polls it.
WakesAreAnswered ==
    \A w \in Wakes : pc[w] = "waiting" ~> pc[w] = "idle"

\* The answer "PR #n BAT promote already in flight" is given only when another
\* wake is about that same pull request (the dedupe of concurrent webhooks).
RefusedOnlyDuplicates ==
    [][\A w \in Wakes :
          pc[w] = "holding" /\ pc'[w] = "idle" /\ lock = w /\ lock' = Free
            /\ inflight' = inflight /\ inflight # {}
          => \E v \in Wakes \ {w} : Promoting(v) /\ pull[v] = pull[w]]_guardVars

-------------------------------------------------------------------------------
\* The mutex-level guard implements the token: a wake holds the key of its
\* number from `Enter` until its drop.
holderOf ==
    [w \in Wakes |-> IF Promoting(w) THEN Number[pull[w]] ELSE NoPull]

Token == INSTANCE PromoteToken WITH
    Keys <- Numbers, NoKey <- NoPull, holder <- holderOf

TokenSafety == Token!TokenSpec
===============================================================================
