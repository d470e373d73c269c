----------------------------- MODULE ChannelLog -----------------------------
(***************************************************************************)
(* What the broker promises the subscribers of its channels, without       *)
(* threads and locks: the messages of a channel form one log, and what a   *)
(* subscriber is given is a contiguous part of that log that starts at the *)
(* moment it joined: no gap, no repetition, no reordering, and no two      *)
(* subscribers that see the same messages in different orders.             *)
(***************************************************************************)
EXTENDS Naturals, Sequences

CONSTANTS Channels, Subs, Messages, NULL

VARIABLES
  log,      \* log[c]: the messages of channel c, in the order of publication
  member,   \* member[s]: the channel s has joined, or NULL
  start,    \* start[s]: length of the log of that channel when s joined
  view,     \* view[s]: the messages delivered to s, in order
  left      \* the subscribers that have left

logVars == << log, member, start, view, left >>

Init ==
  /\ log = [c \in Channels |-> << >>]
  /\ member = [s \in Subs |-> NULL]
  /\ start = [s \in Subs |-> 0]
  /\ view = [s \in Subs |-> << >>]
  /\ left = {}

Publish(c, m) ==
  /\ \A k \in Channels : \A i \in 1..Len(log[k]) : log[k][i] # m
  /\ log' = [log EXCEPT ![c] = Append(@, m)]
  /\ UNCHANGED << member, start, view, left >>

Join(s, c) ==
  /\ member[s] = NULL
  /\ member' = [member EXCEPT ![s] = c]
  /\ start' = [start EXCEPT ![s] = Len(log[c])]
  /\ UNCHANGED << log, view, left >>

Deliver(s) ==
  /\ member[s] # NULL
  /\ s \notin left
  /\ LET next == start[s] + Len(view[s]) + 1 IN
     /\ next <= Len(log[member[s]])
     /\ view' = [view EXCEPT ![s] = Append(@, log[member[s]][next])]
  /\ UNCHANGED << log, member, start, left >>

Leave(s) ==
  /\ member[s] # NULL
  /\ left' = left \cup {s}
  /\ UNCHANGED << log, member, start, view >>

Next ==
  \/ \E c \in Channels, m \in Messages : Publish(c, m)
  \/ \E s \in Subs : (\E c \in Channels : Join(s, c)) \/ Deliver(s) \/ Leave(s)

Spec == Init /\ [][Next]_logVars

=============================================================================
