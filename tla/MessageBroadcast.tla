-------------------------- MODULE MessageBroadcast --------------------------
(***************************************************************************)
(* What a PipePublisher promises to those who subscribe to it, without its *)
(* list, its lock, its passes and its batches: one message is under way at *)
(* a time, each is given once to every member there is when it sets out,   *)
(* unless that member resigns or the message is abandoned, and nobody      *)
(* joins in the middle of one.                                             *)
(***************************************************************************)
EXTENDS Naturals, Sequences

CONSTANT Member  \* all who may ever join

VARIABLES
  posted,    \* number of the last message that set out
  members,   \* those who have joined
  resigned,  \* those who want no more of it: for ever
  owed,      \* the members that message is still to be given to
  view       \* what each member was given, in order

broadcastVars == <<posted, members, resigned, owed, view>>

BroadcastInit ==
  /\ posted = 0 /\ members = {} /\ resigned = {} /\ owed = {}
  /\ view = [c \in Member |-> <<>>]

(* A member joins once, between two messages. *)
Join(c) ==
  /\ owed = {}
  /\ c \notin members \cup resigned /\ view[c] = <<>>
  /\ members' = members \cup {c}
  /\ UNCHANGED <<posted, resigned, owed, view>>

Resign(c) ==
  /\ c \in members
  /\ resigned' = resigned \cup {c}
  /\ UNCHANGED <<posted, members, owed, view>>

(* Only who has resigned is let go, and is owed nothing from then on. *)
LetGo(c) ==
  /\ c \in members \cap resigned
  /\ members' = members \ {c} /\ owed' = owed \ {c}
  /\ UNCHANGED <<posted, resigned, view>>

(* The next message sets out, to all the members. *)
Post ==
  /\ owed = {}
  /\ posted' = posted + 1 /\ owed' = members
  /\ UNCHANGED <<members, resigned, view>>

Give(c) ==
  /\ c \in owed
  /\ view' = [view EXCEPT ![c] = Append(@, posted)]
  /\ owed' = owed \ {c}
  /\ UNCHANGED <<posted, members, resigned>>

(* The rest of the members do not get this message. *)
Abandon ==
  /\ owed # {} /\ owed' = {}
  /\ UNCHANGED <<posted, members, resigned, view>>

BroadcastNext ==
  \/ \E c \in Member : Join(c) \/ Resign(c) \/ LetGo(c) \/ Give(c)
  \/ Post
  \/ Abandon

BroadcastSpec == BroadcastInit /\ [][BroadcastNext]_broadcastVars
=============================================================================
