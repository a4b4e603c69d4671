------------------------------- MODULE DrmApp -------------------------------
(***************************************************************************)
(* The DRM program src/lkml/drm-app/drm_app.c on an arbitrary card.  The   *)
(* card is external: any ioctl may fail, and a query that is passed too    *)
(* little room returns the count and no array.  The program prints what    *)
(* fails and goes on.  Printing and the id of the encoder are left out.    *)
(***************************************************************************)
EXTENDS Integers, Sequences

CONSTANTS
  Cards,       \* the lists of connector ids the card may have, at most ten each
  Sizes,       \* widths and heights of a mode
  Pads,        \* bytes a row of a dumb buffer is longer than its pixels
  Rounds       \* drawing rounds: 500 in the program

Entry == 0 .. 9

VARIABLES
  pc,            \* where main is
  card,          \* the connectors of the card
  count,         \* res.count_connectors
  res_conn_buf,  \* its entries: two 32-bit words
  i, j, round,   \* the loops
  mode,          \* conn_mode_buf[0]: hdisplay and vdisplay
  fb             \* fb_base, fb_w and fb_h, and the bytes mapped

vars == <<pc, card, count, res_conn_buf, i, j, round, mode, fb>>

NoFb  == [base |-> "NULL", w |-> 0, h |-> 0, size |-> 0]
Empty == [low |-> 0, high |-> 0]

Init ==
  /\ pc = "open" /\ card \in Cards /\ count = 0
  /\ res_conn_buf = [e \in Entry |-> Empty] /\ i = 0 /\ j = 0 /\ round = 0
  /\ mode = [w |-> 0, h |-> 0] /\ fb = [e \in Entry |-> NoFb]

-----------------------------------------------------------------------------
main_open ==
  /\ pc = "open" /\ pc' \in {"resources", "end"}
  /\ UNCHANGED <<card, count, res_conn_buf, i, j, round, mode, fb>>

(* The kernel writes 32-bit ids one after the other into an array of       *)
(* 64-bit entries; id k is the connector's, 0 where there is none.         *)
Id(k) == IF k < Len(card) THEN card[k + 1] ELSE 0
Packed == [e \in Entry |-> [low |-> Id(2 * e), high |-> Id(2 * e + 1)]]

(* The two GETRESOURCES.  The second one returns ids if both succeed, a    *)
(* count if one does.  Then the third entry is overwritten.                *)
main_resources ==
  /\ pc = "resources" /\ pc' = "connector"
  /\ \E ids \in {Packed, [e \in Entry |-> Empty]}, n \in {Len(card), 0} :
       /\ (ids = Packed => n = Len(card)) /\ count' = n
       /\ res_conn_buf' = [ids EXCEPT ![2] = [low |-> 201, high |-> 0]]
  /\ UNCHANGED <<card, i, j, round, mode, fb>>

Is201_mutant_any(e) == TRUE
Is201(e) == e = [low |-> 201, high |-> 0]

NextIndex_mutant_same == i
NextIndex == i + 1

(* The two GETCONNECTOR and the test of line 184.  The query of a known id *)
(* finds something connected or not; the mode stays 0x0 when one call      *)
(* fails, or modes have come between the two.                              *)
main_connector ==
  /\ pc = "connector" /\ i < count
  /\ \/ /\ Is201(res_conn_buf[i]) /\ \E k \in 1 .. Len(card) : card[k] = res_conn_buf[i].low
        /\ mode' \in [w : Sizes, h : Sizes] \cup {[w |-> 0, h |-> 0]}
        /\ pc' = "buffer" /\ UNCHANGED i
     \/ i' = NextIndex /\ UNCHANGED <<pc, mode>>
  /\ UNCHANGED <<card, count, res_conn_buf, j, round, fb>>

(* CREATE_DUMB, ADDFB, MAP_DUMB, mmap and the modesetting calls: the size  *)
(* of the buffer is the card's, that of the picture the mode's, and the    *)
(* mapping fails (which is not NULL) if any call it rests on has failed.   *)
main_buffer ==
  /\ pc = "buffer" /\ pc' = "connector" /\ i' = NextIndex
  /\ \E pad \in Pads, ok \in BOOLEAN :
       fb' = [fb EXCEPT ![i] =
                IF ok /\ mode.w > 0
                THEN [base |-> "mapped", w |-> mode.w, h |-> mode.h,
                      size |-> (4 * mode.w + pad) * mode.h]
                ELSE [base |-> "MAP_FAILED", w |-> mode.w, h |-> mode.h, size |-> 0]]
  /\ UNCHANGED <<card, count, res_conn_buf, j, round, mode>>

main_scan_done ==
  /\ pc = "connector" /\ i >= count /\ pc' = "draw"
  /\ UNCHANGED <<card, count, res_conn_buf, i, j, round, mode, fb>>

(* The pixels of the picture, by their place in the mapping.               *)
Pixels_mutant_one_row_more(f) == {y * f.w + x : y \in 0 .. f.h, x \in 0 .. f.w - 1}
Pixels(f) == {y * f.w + x : y \in 0 .. f.h - 1, x \in 0 .. f.w - 1}

(* One picture: skipped if there is none, fatal where nothing is mapped.   *)
main_draw ==
  /\ pc = "draw" /\ round < Rounds /\ j < count
  /\ j' = j + 1
  /\ pc' = IF fb[j].base = "MAP_FAILED" /\ Pixels(fb[j]) # {} THEN "killed"
           ELSE IF \A p \in Pixels(fb[j]) : 4 * p + 4 <= fb[j].size THEN pc
           ELSE "overrun"
  /\ UNCHANGED <<card, count, res_conn_buf, i, round, mode, fb>>

main_round ==
  /\ pc = "draw"
  /\ \/ round < Rounds /\ j >= count /\ j' = 0 /\ round' = round + 1 /\ UNCHANGED pc
     \/ round = Rounds /\ pc' = "end" /\ UNCHANGED <<j, round>>
  /\ UNCHANGED <<card, count, res_conn_buf, i, mode, fb>>

Step == main_open \/ main_resources \/ main_connector \/ main_buffer
        \/ main_scan_done \/ main_draw \/ main_round

Ended == pc \in {"end", "killed", "overrun"} /\ UNCHANGED vars

Next == Step \/ Ended

(* The scheduler runs the program, and every ioctl and sleep returns.      *)
FairSpec == Init /\ [][Next]_vars /\ WF_vars(Step)

-----------------------------------------------------------------------------
(* Properties.                                                             *)

(* Every variable has its type.                                            *)
TypeOK ==
  /\ pc \in {"open", "resources", "connector", "buffer", "draw", "end", "killed", "overrun"}
  /\ count \in {0, Len(card)} /\ i \in 0 .. count /\ j \in 0 .. count /\ round \in 0 .. Rounds
  /\ res_conn_buf \in [Entry -> [low : Nat, high : Nat]]
  /\ mode \in [w : Nat, h : Nat]
  /\ fb \in [Entry -> [base : {"NULL", "MAP_FAILED", "mapped"}, w : Nat, h : Nat, size : Nat]]

(* However long the rows of the buffer are, the pixels drawn, placed by    *)
(* the width of the mode alone, lie in what is mapped (drm_app.c:203-204,  *)
(* 231-233, 299-302).                                                      *)
DrawsInMapping == pc # "overrun"

(* A picture exists only if the card has connector 201, even though that   *)
(* id is written over whatever the card returned (drm_app.c:95, 184).      *)
Only201 == \A e \in Entry : fb[e].base # "NULL" => \E k \in 1 .. Len(card) : card[k] = 201

(* Whatever the card answers, the program ends (drm_app.c:151, 292).       *)
Terminates == <>(pc \in {"end", "killed"})
=============================================================================
