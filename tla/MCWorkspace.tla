----------------------------- MODULE MCWorkspace -----------------------------
(***************************************************************************)
(* Two projects, one of them with a task, two providers, and one thread    *)
(* from an earlier session.                                                *)
(***************************************************************************)
EXTENDS Workspace

CONSTANTS alpha, beta, task1, openai, deepseek

MCProjectOf == [x \in Tasks |-> alpha]
MCOld == <<[maker |-> openai, home |-> alpha]>>

=============================================================================
