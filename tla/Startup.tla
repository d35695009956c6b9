------------------------------ MODULE Startup ------------------------------
(***************************************************************************)
(* main(): the singletons are initialised and their threads started one    *)
(* after the other.  A thread polls its queue from the moment it is        *)
(* started, and the Server thread is the first that puts anything in one.  *)
(***************************************************************************)
EXTENDS Naturals, Sequences

VARIABLES
  called,  \* how many of the calls main has made
  built,   \* the singletons whose init() constructed their queue
  down     \* "no", or what ended the process

startupVars == <<called, built, down>>

Singleton == {"sender", "pm", "cm", "server"}

\* The calls of main, in order.  A mutant: the server is started before the
\* CommandManager.
MainCalls_ServerFirst ==
  << <<"sender", "init">>, <<"sender", "start">>, <<"pm", "init">>, <<"pm", "start">>,
     <<"server", "init">>, <<"server", "start">>, <<"cm", "init">>, <<"cm", "start">> >>
MainCalls ==
  << <<"sender", "init">>, <<"sender", "start">>, <<"pm", "init">>, <<"pm", "start">>,
     <<"cm", "init">>, <<"cm", "start">>, <<"server", "init">>, <<"server", "start">> >>

Started(t) == \E i \in 1..called : MainCalls[i] = <<t, "start">>

StartupInit ==
  /\ called = 0
  /\ built = {}
  /\ down = "no"

\* init() constructs the queue.  Server::init binds the port instead and ends
\* the process when it cannot.  CommandManager::start promises a pointer and
\* has no return statement: what happens after its thread runs is undefined.
MainCall ==
  /\ down = "no"
  /\ called < Len(MainCalls)
  /\ LET call == MainCalls[called + 1]
     IN  /\ built' = IF call[2] = "init" THEN built \cup {call[1]} ELSE built
         /\ \/ down' = down
            \/ call = <<"server", "init">> /\ down' = "bind"
            \/ call = <<"cm", "start">> /\ down' = "start"
  /\ called' = called + 1
=============================================================================
