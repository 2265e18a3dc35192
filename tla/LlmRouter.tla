------------------------------- MODULE LlmRouter -------------------------------
(***************************************************************************)
(* Completions: a task (freeform, load, draft) has a route of slots        *)
(* provider:model; the router asks one slot after the other until one      *)
(* answers.  With tools a slot is asked in rounds: the tools the model     *)
(* calls are run, their results are put after its turn, and after the last *)
(* round it is asked once more without tools.                              *)
(*                                                                         *)
(* A conversation is the sequence of turns after the prompt: n > 0 is a    *)
(* turn of the model that calls n tools, 0 the result of one tool.         *)
(***************************************************************************)
EXTENDS Naturals, Sequences, FiniteSets

CONSTANTS LlmCalls,    \* completions running at once
          LlmConfs,    \* environments and config files of this instance
          MaxRounds,   \* DEFAULT_MAX_TOOL_ROUNDS
          MaxToolCalls \* bound: tools a model calls in one turn

LlmTasks == {"load", "draft"}
Providers == {"ollama", "openrouter", "groq", "gemini", "github"}

\* An entry of a route; without a colon it has no provider.
Slot == [provider : Providers \cup {"", "unknown"}, model : {"", "m1", "m2"}]
DefaultModel == "m1"

\* routes: explicit routes of the environment, per task; rankings: provider rankings;
\* file: config.toml; <<>> stands for an unset variable.  keys: providers with an API
\* key.  cutover: GitHub Models are over.  fast: FAST_DEV_MODEL, or "".
ASSUME LlmAssumption ==
    /\ \A c \in LlmConfs :
          /\ \A t \in LlmTasks : /\ c.routes[t] \in Seq(Slot) /\ c.file[t] \in Seq(Slot)
                                 /\ c.rankings[t] \in Seq(Providers \cup {"unknown"})
          /\ c.keys \subseteq Providers
          /\ c.cutover \in BOOLEAN
          /\ c.fast \in {"", "m1", "m2"}
ASSUME LlmBounds == MaxRounds \in Nat \ {0} /\ MaxToolCalls \in Nat \ {0}

VARIABLES llmConf,   \* the environment the router was built from
          llmBoot,   \* boot: the chat models of Ollama still to be warmed, or the end
          gpu,       \* models Ollama has on the GPU
          llmCall    \* the running completions

llmVars == <<llmConf, llmBoot, gpu, llmCall>>

-------------------------------------------------------------------------------
(* build_router *)

ParseExplicitRoute(entries) ==
    SelectSeq(entries, LAMBDA e : e.provider # "" /\ e.model # "")

ExpandProviderRanking(ids) ==
    LET known == SelectSeq(ids, LAMBDA p : p \in Providers)
    IN [k \in 1..Len(known) |-> [provider |-> known[k], model |-> DefaultModel]]

\* Environment before ranking before file.
ResolveTaskRoute(c, t) ==
    IF c.routes[t] # <<>> THEN ParseExplicitRoute(c.routes[t])
    ELSE IF c.rankings[t] # <<>> THEN ExpandProviderRanking(c.rankings[t])
    ELSE ParseExplicitRoute(c.file[t])

FilterGithub(c, chain) ==
    IF c.cutover THEN SelectSeq(chain, LAMBDA e : e.provider # "github") ELSE chain

ApplyFastDev(c, chain) ==
    IF c.fast # "" THEN <<[provider |-> "ollama", model |-> c.fast]>> ELSE chain

Chain(c, t) == ApplyFastDev(c, FilterGithub(c, ResolveTaskRoute(c, t)))

\* The providers of the routes that are alive and have what they need.
Pool(c) ==
    {p \in Providers \ (IF c.cutover THEN {"github"} ELSE {}) :
        /\ \E t \in LlmTasks : \E k \in DOMAIN Chain(c, t) : Chain(c, t)[k].provider = p
        /\ p = "ollama" \/ p \in c.keys}

OllamaChatModels(c) ==
    UNION {{Chain(c, t)[k].model : k \in {j \in DOMAIN Chain(c, t) : Chain(c, t)[j].provider = "ollama"}} :
           t \in LlmTasks}

-------------------------------------------------------------------------------
\* A call at some slot of its route, before anything was said there; the slots that failed.
CallAt(pc, task, tools, slot, failed) ==
    [pc |-> pc, task |-> task, tools |-> tools, slot |-> slot, rounds |-> 0,
     convo |-> <<>>, owed |-> 0, retried |-> FALSE, failed |-> failed]
Silent == CallAt("idle", "load", FALSE, 0, {})

LlmInit ==
    /\ llmConf \in LlmConfs
    /\ llmBoot = [pc |-> "warm", left |-> IF "ollama" \in Pool(llmConf)
                                          THEN OllamaChatModels(llmConf) ELSE {}]
    /\ gpu \in {{}, {"m1"}}
    /\ llmCall = [i \in LlmCalls |-> Silent]

\* Boot warms one chat model after the other; a model on the GPU is left alone, and
\* a warm that fails ends the program.
WarmModel ==
    /\ llmBoot.pc = "warm"
    /\ IF llmBoot.left = {}
       THEN llmBoot' = [llmBoot EXCEPT !.pc = "up"] /\ UNCHANGED gpu
       ELSE \E m \in llmBoot.left :
               \/ /\ llmBoot' = [llmBoot EXCEPT !.left = @ \ {m}]
                  /\ IF m \in gpu THEN UNCHANGED gpu
                     ELSE \E gone \in SUBSET gpu : gpu' = (gpu \ gone) \cup {m}
               \/ m \notin gpu /\ llmBoot' = [llmBoot EXCEPT !.pc = "refused"] /\ UNCHANGED gpu
    /\ UNCHANGED <<llmConf, llmCall>>

Route(i) == Chain(llmConf, llmCall[i].task)
Here(i) == Route(i)[llmCall[i].slot]
Set(i, r) == llmCall' = [llmCall EXCEPT ![i] = r]

Complete(i, t, tools) ==
    /\ llmBoot.pc = "up" /\ llmCall[i].pc \in {"idle", "answered", "failed"}
    /\ Set(i, CallAt(IF Pool(llmConf) = {} \/ Chain(llmConf, t) = <<>> THEN "failed" ELSE "next",
                     t, tools, 0, {}))
    /\ UNCHANGED <<llmConf, llmBoot, gpu>>

\* Mutant: every slot is asked, whoever is in the pool.
AskAnySlot(i) ==
    LET r == llmCall[i] IN
    /\ r.pc = "next"
    /\ Set(i, IF r.slot = Len(Route(i)) THEN [r EXCEPT !.pc = "failed"]
              ELSE CallAt("chat", r.task, r.tools, r.slot + 1, r.failed))
    /\ UNCHANGED <<llmConf, llmBoot, gpu>>

\* The next slot of the route; one whose provider is not in the pool is noted and
\* passed by, and each slot starts from the prompt again.
NextSlot(i) ==
    LET r == llmCall[i] IN
    /\ r.pc = "next"
    /\ Set(i, IF r.slot = Len(Route(i)) THEN [r EXCEPT !.pc = "failed"]
              ELSE IF Route(i)[r.slot + 1].provider \in Pool(llmConf)
              THEN CallAt("chat", r.task, r.tools, r.slot + 1, r.failed)
              ELSE [r EXCEPT !.slot = @ + 1, !.failed = @ \cup {r.slot + 1}])
    /\ UNCHANGED <<llmConf, llmBoot, gpu>>

SlotFails(i) ==
    Set(i, [llmCall[i] EXCEPT !.pc = "next", !.failed = @ \cup {llmCall[i].slot}])

\* The last round is asked without tools.
Offered(i) == llmCall[i].tools /\ llmCall[i].rounds < MaxRounds

\* A visible text ends the call; an empty one only a load.  Gemini cannot be asked
\* with tools.
Answer(i) ==
    /\ llmCall[i].pc = "chat" /\ (Offered(i) => Here(i).provider # "gemini")
    /\ \E empty \in BOOLEAN :
          IF empty /\ llmCall[i].task # "load" THEN SlotFails(i)
          ELSE Set(i, [llmCall[i] EXCEPT !.pc = "answered"])
    /\ UNCHANGED <<llmConf, llmBoot, gpu>>

\* An error of any kind: the next slot.
ChatFails(i) ==
    /\ llmCall[i].pc = "chat"
    /\ SlotFails(i)
    /\ UNCHANGED <<llmConf, llmBoot, gpu>>

\* The runner of Ollama died: everything on the GPU is unloaded, the model warmed
\* again and asked once more, within the same request.
CudaDeath(i) ==
    /\ llmCall[i].pc = "chat" /\ Here(i).provider = "ollama" /\ ~llmCall[i].retried
    /\ \/ gpu' = {Here(i).model} /\ Set(i, [llmCall[i] EXCEPT !.retried = TRUE])
       \/ gpu' = {} /\ SlotFails(i)
    /\ UNCHANGED <<llmConf, llmBoot>>

\* Mutant: the round is not counted.
CallToolsForEver(i) ==
    /\ llmCall[i].pc = "chat" /\ Offered(i) /\ Here(i).provider # "gemini"
    /\ \E n \in 1..MaxToolCalls :
          Set(i, [llmCall[i] EXCEPT !.pc = "tools", !.convo = <<n>>,
                                    !.owed = n, !.retried = FALSE])
    /\ UNCHANGED <<llmConf, llmBoot, gpu>>

\* The model calls tools: its turn is kept and each of them is run.
CallTools(i) ==
    /\ llmCall[i].pc = "chat" /\ Offered(i) /\ Here(i).provider # "gemini"
    /\ \E n \in 1..MaxToolCalls :
          Set(i, [llmCall[i] EXCEPT !.pc = "tools", !.convo = Append(@, n), !.owed = n,
                                    !.rounds = @ + 1, !.retried = FALSE])
    /\ UNCHANGED <<llmConf, llmBoot, gpu>>

\* Mutant: a tool that fails leaves no turn.
ResultDropped(i) ==
    LET r == llmCall[i] IN
    /\ r.pc = "tools"
    /\ \E failed \in BOOLEAN :
          Set(i, [r EXCEPT !.convo = IF failed THEN @ ELSE Append(@, 0), !.owed = @ - 1,
                           !.pc = IF r.owed = 1 THEN "chat" ELSE "tools"])
    /\ UNCHANGED <<llmConf, llmBoot, gpu>>

\* The result of one tool; a tool that fails is answered with its error.
AppendToolResult(i) ==
    LET r == llmCall[i] IN
    /\ r.pc = "tools"
    /\ Set(i, [r EXCEPT !.convo = Append(@, 0), !.owed = @ - 1,
                        !.pc = IF r.owed = 1 THEN "chat" ELSE "tools"])
    /\ UNCHANGED <<llmConf, llmBoot, gpu>>

LlmStep(i) == \/ NextSlot(i) \/ Answer(i) \/ ChatFails(i) \/ CudaDeath(i)
              \/ CallTools(i) \/ AppendToolResult(i)

LlmNext ==
    \/ WarmModel
    \/ \E i \in LlmCalls, t \in LlmTasks, tools \in BOOLEAN : Complete(i, t, tools)
    \/ \E i \in LlmCalls : LlmStep(i)

\* A request ends one way or the other.
LlmFairness == WF_llmVars(WarmModel) /\ \A i \in LlmCalls : WF_llmVars(LlmStep(i))
LlmSpec == LlmInit /\ [][LlmNext]_llmVars /\ LlmFairness

-------------------------------------------------------------------------------
(* Properties. *)

\* Whenever a provider is asked, every tool call of the conversation it is sent has
\* its result right behind it, and there is no other result; a provider refuses any
\* other conversation.
Turns(convo) == {k \in DOMAIN convo : convo[k] > 0}
Paired(convo) ==
    /\ \A k \in Turns(convo) : \A j \in 1..convo[k] : k + j \in DOMAIN convo /\ convo[k + j] = 0
    /\ \A k \in DOMAIN convo \ Turns(convo) : \E t \in Turns(convo) : k \in (t + 1)..(t + convo[t])

\* complete_with_tools and chat_with_tools: what a slot that is asked or has answered
\* can rely on.  Its provider is in the pool, GitHub is not after the cutover, every
\* slot before it was asked and failed or could not be asked, and its conversation is
\* well formed and has no turn of the slots before.
LlmInv ==
    \A i \in LlmCalls : llmCall[i].pc \in {"chat", "tools", "answered"} =>
        /\ Here(i).provider \in Pool(llmConf)
        /\ llmConf.cutover => Here(i).provider # "github"
        /\ llmCall[i].failed = 1..(llmCall[i].slot - 1)
        /\ llmCall[i].pc # "tools" => Paired(llmCall[i].convo)
        /\ Cardinality(Turns(llmCall[i].convo)) = llmCall[i].rounds
        /\ llmCall[i].rounds <= MaxRounds

\* A completion ends, however many tools the model calls and providers fail.
LlmCallsEnd ==
    \A i \in LlmCalls : llmCall[i].pc = "next" ~> llmCall[i].pc \in {"answered", "failed"}
===============================================================================
