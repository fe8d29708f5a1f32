------------------------------ MODULE AppCalls ------------------------------
(***************************************************************************)
(* What a terminal and the application it has called see of the kernel, as  *)
(* if each of them had a processor of its own: the application calls the    *)
(* kernel and goes on where it was; when it ends, the terminal goes on where*)
(* it had called it, with the code the application has given, or that of a  *)
(* kill.                                                                    *)
(***************************************************************************)
EXTENDS Integers, Sequences

CONSTANTS Shells,  \* the tasks that call applications
          Codes    \* the codes applications end with

VARIABLES
  stage,  \* "shell", "app" runs, "call" to the kernel, "ending"
  shell,  \* what the terminal has in its registers: it counts the applications
  app,    \* what the application has in its registers: it counts its calls
  asked,  \* the code with which the application ends
  codes   \* the codes the terminal was given

callVars == <<stage, shell, app, asked, codes>>

Killed == 139  \* 128 + SIGSEGV

CallsInit ==
  /\ stage = [t \in Shells |-> "shell"]
  /\ shell = [t \in Shells |-> 0]
  /\ app = [t \in Shells |-> 0]
  /\ asked = [t \in Shells |-> 0]
  /\ codes = [t \in Shells |-> <<>>]

Goes(t, from, to) == stage[t] = from /\ stage' = [stage EXCEPT ![t] = to]

Begin(t) == Goes(t, "shell", "app") /\ UNCHANGED <<shell, app, asked, codes>>

Call(t) == Goes(t, "app", "call") /\ UNCHANGED <<shell, app, asked, codes>>

Return(t) ==
  /\ Goes(t, "call", "app")
  /\ app' = [app EXCEPT ![t] = @ + 1]
  /\ UNCHANGED <<shell, asked, codes>>

Ends(t, from, code) ==
  /\ Goes(t, from, "ending")
  /\ asked' = [asked EXCEPT ![t] = code]
  /\ app' = [app EXCEPT ![t] = 0]
  /\ UNCHANGED <<shell, codes>>

GoesOn(t) ==
  /\ Goes(t, "ending", "shell")
  /\ codes' = [codes EXCEPT ![t] = Append(@, asked[t])]
  /\ shell' = [shell EXCEPT ![t] = @ + 1]
  /\ asked' = [asked EXCEPT ![t] = 0]
  /\ UNCHANGED app

CallsNext ==
  \E t \in Shells :
    \/ Begin(t) \/ Call(t) \/ Return(t) \/ GoesOn(t)
    \/ \E c \in Codes : Ends(t, "call", c)
    \/ Ends(t, "app", Killed)

CallsSpec == CallsInit /\ [][CallsNext]_callVars
=============================================================================
