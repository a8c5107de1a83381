----------------------------- MODULE OneShotHooks -----------------------------
(***************************************************************************)
(* What a PipeSubscriber promises about the hooks its client registers,    *)
(* without its twelve states and two threads: a hook is invoked at most    *)
(* once, never after a later one, and it stays registered until it is      *)
(* invoked or a later one has been supplied.  A client that has quit, by   *)
(* its Abort or by a ThreadingViolation it was thrown, is promised no more *)
(* than the first two.                                                     *)
(***************************************************************************)
EXTENDS Naturals

VARIABLES
  supplied,    \* number of hooks supplied so far
  registered,  \* those that may still be invoked
  invoked,     \* those that were
  quit         \* has the client quit?

hooksVars == <<supplied, registered, invoked, quit>>

HooksInit == supplied = 0 /\ registered = {} /\ invoked = {} /\ quit = FALSE

(* The next hook is registered, unless the client has quit. *)
Register(others) ==
  /\ supplied' = supplied + 1
  /\ \/ registered' = others \cup {supplied + 1}
     \/ quit /\ registered' = others

Supply ==
  /\ Register(registered)
  /\ UNCHANGED invoked /\ quit' = quit

(* Hook h is invoked; while it runs it may supply the next. *)
Invoke(h) ==
  /\ h \in registered
  /\ invoked' = invoked \cup {h}
  /\ LET later == {k \in registered : k > h} IN
       \/ registered' = later /\ UNCHANGED supplied
       \/ Register(later)
  /\ quit' = quit

(* A hook gives way, but only to a later one. *)
Supersede ==
  /\ registered' \in SUBSET registered
  /\ supplied \in registered => supplied \in registered'
  /\ UNCHANGED <<supplied, invoked>> /\ quit' = quit

Quit ==
  /\ quit' = TRUE
  /\ registered' \in SUBSET registered
  /\ UNCHANGED <<supplied, invoked>>

HooksNext == Supply \/ (\E h \in registered : Invoke(h)) \/ Supersede \/ Quit

HooksSpec == HooksInit /\ [][HooksNext]_hooksVars
=============================================================================
