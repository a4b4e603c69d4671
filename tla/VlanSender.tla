----------------------------- MODULE VlanSender -----------------------------
(***************************************************************************)
(* The sender src/lkml/vlan-app/vlan_packet.c, while the interface vlan100 *)
(* comes and goes.  The kernel is external: a socket is bound to the index *)
(* an interface has, and every interface that is created gets a new one.   *)
(***************************************************************************)
EXTENDS Naturals

CONSTANTS
  MaxIndex,    \* bound: how often vlan100 is created
  Faults       \* which calls may fail

VARIABLES
  pc,          \* the next call of main
  server,      \* the result of gethostbyname is not NULL
  sd,          \* the socket exists
  bound,       \* the index it is bound to, 0 for none
  vlan100,     \* the index of the interface, 0 when there is none
  index,       \* the last index given
  sent         \* where the last packet left: "nowhere", "vlan100", "routed"

vars == <<pc, server, sd, bound, vlan100, index, sent>>

Init ==
  /\ pc = "gethostbyname" /\ server = TRUE /\ sd = TRUE /\ bound = 0
  /\ vlan100 = 0 /\ index = 0 /\ sent = "nowhere"

-----------------------------------------------------------------------------
main_gethostbyname ==
  /\ pc = "gethostbyname" /\ pc' = "socket"
  /\ server' \in {TRUE} \cup {s \in {FALSE} : "gethostbyname" \in Faults}
  /\ UNCHANGED <<sd, bound, vlan100, index, sent>>

(* A failed socket is reported, and the program goes on.                   *)
main_socket ==
  /\ pc = "socket" /\ pc' = "setsockopt"
  /\ sd' \in {TRUE} \cup {s \in {FALSE} : "socket" \in Faults}
  /\ UNCHANGED <<server, bound, vlan100, index, sent>>

(* What main does when SO_BINDTODEVICE fails.                              *)
Unbound_mutant_goes_on == "copy"
Unbound == "exit"

main_setsockopt ==
  /\ pc = "setsockopt"
  /\ IF sd /\ vlan100 # 0 THEN pc' = "copy" /\ bound' = vlan100
                          ELSE pc' = Unbound /\ UNCHANGED bound
  /\ UNCHANGED <<server, sd, vlan100, index, sent>>

(* The address is copied out of what gethostbyname returned.               *)
main_copy ==
  /\ pc = "copy"
  /\ pc' = IF server THEN "sendto" ELSE "killed"
  /\ UNCHANGED <<server, sd, bound, vlan100, index, sent>>

(* sendto, whose result nobody looks at.                                   *)
Leaves ==
  IF ~sd THEN "nowhere" ELSE IF bound = 0 THEN "routed"
  ELSE IF bound = vlan100 THEN "vlan100" ELSE "nowhere"

main_sendto ==
  /\ pc = "sendto" /\ pc' = "sleep" /\ sent' = Leaves
  /\ UNCHANGED <<server, sd, bound, vlan100, index>>

Awake_mutant_ends == "exit"
Awake == "sendto"

main_sleep ==
  /\ pc = "sleep" /\ pc' = Awake
  /\ UNCHANGED <<server, sd, bound, vlan100, index, sent>>

Main == main_gethostbyname \/ main_socket \/ main_setsockopt \/ main_copy
        \/ main_sendto \/ main_sleep

(* The administrator creates and deletes vlan100.                          *)
Admin ==
  /\ \/ vlan100 = 0 /\ index < MaxIndex /\ index' = index + 1 /\ vlan100' = index'
     \/ vlan100 # 0 /\ vlan100' = 0 /\ UNCHANGED index
  /\ UNCHANGED <<pc, server, sd, bound, sent>>

Ended == pc \in {"exit", "killed"} /\ UNCHANGED vars

Next == Main \/ Admin \/ Ended

(* The scheduler runs the program, and a sleep of two seconds ends.        *)
FairSpec == Init /\ [][Next]_vars /\ WF_vars(Main)

-----------------------------------------------------------------------------
(* Properties.                                                             *)

(* "Bind to vlan100 interface only - this is a private VLAN" (vlan_        *)
(* packet.c:31): no packet ever leaves another way, whatever fails and     *)
(* however vlan100 comes and goes.                                         *)
PrivateVlan == sent # "routed"

(* A program that has got as far as sending on an interface that stays     *)
(* keeps sending on it (vlan_packet.c:58-61).                              *)
KeepsSending ==
  \A i \in 1 .. MaxIndex :
    <>[](vlan100 = i) /\ <>(pc = "sendto" /\ bound = i)
      => []<>(pc = "sleep" /\ sent = "vlan100")
=============================================================================
