------------------------------ MODULE MCAgents ------------------------------
(* What serves an agent, on a small instance: the hooks over their stores,   *)
(* `devscout init` over the registry and the agent's settings, and the pure  *)
(* algorithms behind an answer.  They share no state, so a behaviour is one  *)
(* of them: Init chooses which component moves.  An algorithm takes no step: *)
(* each of its inputs is an initial state.                                   *)
EXTENDS Hooks, InitRegistry, Questions, TLC

VARIABLE component

(* "home" holds "work", which holds the checkout "repo" and its linked       *)
(* worktree "tree"; "inner" is a repository inside "repo".                   *)
UpFrom == [d \in Dirs |->
    CASE d = "inner" -> <<"inner", "repo", "work", "home">>
      [] d \in {"repo", "tree"} -> <<d, "work", "home">>
      [] d = "work" -> <<"work", "home">>
      [] d = "home" -> <<"home">>]
CommonDir == [d \in GitEntries |-> IF d = "inner" THEN "inner" ELSE "repo"]

OneByte == [x \in Texts |-> 1]
AppScope == {<<"app">>}

Asked == INSTANCE Answers
NoQuestion == [about |-> "nothing"]

HooksAreQuiet == \A r \in Roots : reads[r] = NoRows
InitIsQuiet == settings.shape = "missing"

MCInit ==
    /\ Init
    /\ RegistryInit
    /\ \/ component = "hooks" /\ InitIsQuiet /\ question = NoQuestion
       \/ component = "init" /\ HooksAreQuiet /\ question = NoQuestion
       \/ /\ component = "answers" /\ HooksAreQuiet /\ InitIsQuiet
          /\ question \in Asked!Questions

MCNext ==
    /\ UNCHANGED <<component, question>>
    /\ \/ component = "hooks" /\ Next /\ UNCHANGED registryVars
       \/ component = "init" /\ RegistryNext /\ UNCHANGED vars

MCSpec == MCInit /\ [][MCNext]_<<vars, registryVars, component, question>>

(* The components' state is well formed, and so is what is asked.            *)
TypeOK == HooksTypeOK /\ InitTypeOK /\ QuestionOK

(* The properties of the other algorithms, by their names there.             *)
ImportsSettle == About("uses") => Asked!Scopes!ImportsSettle(question.pkg)
ImportsAreOrderFree == About("uses") => Asked!Scopes!ImportsAreOrderFree(question.pkg)

(* No definition tells one process, path or text from another.               *)
Alike == UNION {Permutations(set) : set \in {Hooks, Rels, Texts, Inits}}
=============================================================================
