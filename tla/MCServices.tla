------------------------------ MODULE MCServices ------------------------------
(* Instances for TLC of the modules that stand beside the publication gate.    *)
(* They share nothing but the database file, so one run checks them one after  *)
(* the other: part names the module whose steps a behaviour takes, and the     *)
(* state spaces add up instead of multiplying.                                 *)
EXTENDS ReplyShip, EnrichQueue, LlmRouter, SlackRuntime, OperatorDialog

VARIABLE part

servicesVars == <<part, replyVars, enrichVars, llmVars, slkVars, dlgVars>>

(* Replies *)

\* A raw text has no emoji yet.
Raw(words, size) == [words |-> words, size |-> size, emoji |-> 0]
Raws == {Raw({"own"}, "fits"), Raw({"own"}, "long"), Raw({"parent"}, "fits"), Raw({"old"}, "few")}

\* The two surfaces of replies are not used at the same time.
OneSurface == Cardinality({replyTask[t].id.surface : t \in {u \in ReplyTasks : replyTask[u].op # "none"}}
                  \cup {s \in ReplySurfaces : replySeq[s] > 0}) <= 1

(* Model calls *)

Model(provider, model) == [provider |-> provider, model |-> model]
LlmEnv(load, draft, ranking, keys, cutover, fast) ==
    [routes |-> [load |-> load, draft |-> draft],
     rankings |-> [load |-> ranking, draft |-> <<>>],
     file |-> [load |-> <<Model("ollama", "m1")>>, draft |-> <<Model("ollama", "m2"), Model("groq", "m1")>>],
     keys |-> keys, cutover |-> cutover, fast |-> fast]
LlmEnvs ==
    {LlmEnv(<<>>, <<>>, <<"gemini", "unknown", "ollama">>, {"gemini", "groq"}, TRUE, ""),
     LlmEnv(<<Model("github", "m1"), Model("", "m1"), Model("openrouter", "m2"), Model("ollama", "m1")>>,
            <<Model("github", "m1")>>, <<>>, {"github"}, TRUE, ""),
     LlmEnv(<<Model("github", "m1"), Model("ollama", "m1")>>, <<Model("groq", "m1")>>, <<>>, {"github", "groq"}, FALSE, ""),
     LlmEnv(<<>>, <<>>, <<>>, {"groq"}, FALSE, "m2"),
     LlmEnv(<<Model("unknown", "m1")>>, <<Model("groq", "m1")>>, <<>>, {}, FALSE, "")}

(* Slack *)

Scripts == [SlackMessages -> SlackKinds]

(* The dialog.  What the operator adds is on the site of an option. *)

Sites == [u \in DlgUrls \cup {"own"} |-> IF u = "u2" THEN "b" ELSE "a"]

(* The sum.  A part whose turn it is not starts in one state only. *)

First(S) == CHOOSE x \in S : TRUE

LlmStart == LlmInit /\ (part # "llm" => llmConf = First(LlmConfs) /\ gpu = {})
SlackStart == SlackInit /\ (part # "slack" => slkKind = First(SlackScripts))
DlgStart == /\ DlgInit
            /\ part # "dialog" => /\ dlgRow.pre = "CREPLY" /\ dlgRow.status = "open"

ServicesInit ==
    /\ part \in {"replies", "enrich", "llm", "slack", "dialog"}
    /\ ReplyInit /\ EnrichInit /\ LlmStart /\ SlackStart /\ DlgStart

ServicesNext ==
    /\ UNCHANGED part
    /\ \/ part = "replies" /\ ReplyNext /\ OneSurface' /\ UNCHANGED <<enrichVars, llmVars, slkVars, dlgVars>>
       \/ part = "enrich" /\ EnrichNext /\ UNCHANGED <<replyVars, llmVars, slkVars, dlgVars>>
       \/ part = "llm" /\ LlmNext /\ UNCHANGED <<replyVars, enrichVars, slkVars, dlgVars>>
       \/ part = "slack" /\ SlackNext /\ UNCHANGED <<replyVars, enrichVars, llmVars, dlgVars>>
       \/ part = "dialog" /\ DlgNext /\ UNCHANGED <<replyVars, enrichVars, llmVars, slkVars>>

\* The fairness each module states, for the behaviours of its part.
ServicesSpec ==
    /\ ServicesInit /\ [][ServicesNext]_servicesVars
    /\ \A d \in Drips : WF_enrichVars(part = "enrich" /\ DripStep(d))
    /\ \A w \in Workers : WF_enrichVars(part = "enrich" /\ EnrichStep(w))
    /\ WF_llmVars(part = "llm" /\ WarmModel)
    /\ \A i \in LlmCalls : WF_llmVars(part = "llm" /\ LlmStep(i))
    /\ WF_slkVars(part = "slack" /\ Connect)
    /\ \A m \in SlackMessages : WF_slkVars(part = "slack" /\ Receive(m))
    /\ \A d \in Deliveries : WF_slkVars(part = "slack" /\ SlackTask(d))

(* The liveness properties, each for the behaviours of its part. *)

\* sources/enrich.rs: OlderRowsAreTried.
EnrichRowsAreTried == part = "enrich" => OlderRowsAreTried
\* llm/router.rs, llm/agent.rs: LlmCallsEnd.
ModelCallsEnd == part = "llm" => LlmCallsEnd
\* slack/socket.rs: MessagesAreTaken.
SlackMessagesAreTaken == part = "slack" => MessagesAreTaken
===============================================================================
