--------------------------- MODULE NCTransfer_proofs ---------------------------
(***************************************************************************)
(* What the updates of NCTransfer do to a transfer record, field by field,  *)
(* whatever the record holds.                                              *)
(***************************************************************************)
EXTENDS NCTransfer, TLAPS

\* What no frame of a session changes.
SameSession(new, old) ==
    /\ new.active = old.active /\ new.tid = old.tid /\ new.crc = old.crc
    /\ new.clean = old.clean /\ new.format = old.format /\ new.plane = old.plane
    /\ new.pattern = old.pattern

\* Sequence numbers, without their modulus written out.
LEMMA SeqNumbers ==
  /\ SeqModulus \in Nat \ {0}
  /\ \A n \in 0 .. SeqModulus - 1 : n \in Nat
  /\ \A n \in 0 .. SeqModulus - 1 : (n + 1) % SeqModulus \in 0 .. SeqModulus - 1
<1>1. SeqModulus \in Nat \ {0}
  BY DEF SeqModulus
<1>2. \A n \in 0 .. SeqModulus - 1 : n \in Nat
  BY <1>1
<1>3. \A n, m \in Nat : m # 0 => (n + 1) % m \in 0 .. m - 1
  OBVIOUS
<1>4. QED
  BY <1>1, <1>2, <1>3

-----------------------------------------------------------------------------
(* The record, field by field.                                             *)

LEMMA FieldNames ==
  DOMAIN ResetTransfer =
    {"active", "committed", "execute_requested", "tid", "seq", "off", "crc", "clean",
     "format", "plane", "pattern", "last"}
  BY DEF ResetTransfer

\* The transfer after an accepted frame of the session.
LEMMA AdvancedFields ==
  ASSUME NEW tr, DOMAIN tr = DOMAIN ResetTransfer, NEW f
  PROVE  /\ DOMAIN Advanced(tr, f) = DOMAIN ResetTransfer
         /\ SameSession(Advanced(tr, f), tr)
         /\ Advanced(tr, f).committed = tr.committed
         /\ Advanced(tr, f).execute_requested = tr.execute_requested
         /\ Advanced(tr, f).off = tr.off
         /\ Advanced(tr, f).seq = (tr.seq + 1) % SeqModulus
         /\ Advanced(tr, f).last = remember(f)
<1>1. DOMAIN tr =
        {"active", "committed", "execute_requested", "tid", "seq", "off", "crc", "clean",
         "format", "plane", "pattern", "last"}
  BY FieldNames
<1>2. DOMAIN Advanced(tr, f) = DOMAIN ResetTransfer
  BY DEF Advanced
<1>3. Advanced(tr, f).active = tr.active
  BY <1>1 DEF Advanced
<1>4. Advanced(tr, f).tid = tr.tid
  BY <1>1 DEF Advanced
<1>5. Advanced(tr, f).crc = tr.crc
  BY <1>1 DEF Advanced
<1>6. Advanced(tr, f).clean = tr.clean
  BY <1>1 DEF Advanced
<1>7. Advanced(tr, f).format = tr.format
  BY <1>1 DEF Advanced
<1>8. Advanced(tr, f).plane = tr.plane
  BY <1>1 DEF Advanced
<1>9. Advanced(tr, f).pattern = tr.pattern
  BY <1>1 DEF Advanced
<1>10. Advanced(tr, f).committed = tr.committed
  BY <1>1 DEF Advanced
<1>11. Advanced(tr, f).execute_requested = tr.execute_requested
  BY <1>1 DEF Advanced
<1>12. Advanced(tr, f).off = tr.off
  BY <1>1 DEF Advanced
<1>13. Advanced(tr, f).seq = (tr.seq + 1) % SeqModulus
  BY <1>1 DEF Advanced
<1>14. Advanced(tr, f).last = remember(f)
  BY <1>1 DEF Advanced
<1>15. QED
  BY <1>2, <1>3, <1>4, <1>5, <1>6, <1>7, <1>8, <1>9, <1>10, <1>11, <1>12, <1>13, <1>14
  DEF SameSession

\* A transfer and the same transfer with one field of its progress set.
LEMMA OffSet ==
  ASSUME NEW tr, DOMAIN tr = DOMAIN ResetTransfer, NEW v,
         NEW new, new = [tr EXCEPT !.off = v]
  PROVE  /\ DOMAIN new = DOMAIN ResetTransfer
         /\ SameSession(new, tr)
         /\ new.off = v
         /\ new.seq = tr.seq /\ new.last = tr.last
         /\ new.committed = tr.committed /\ new.execute_requested = tr.execute_requested
<1>1. DOMAIN tr =
        {"active", "committed", "execute_requested", "tid", "seq", "off", "crc", "clean",
         "format", "plane", "pattern", "last"}
  BY FieldNames
<1>2. DOMAIN new = DOMAIN ResetTransfer /\ new.off = v
  BY <1>1
<1>3. \A y \in DOMAIN tr : y # "off" => new[y] = tr[y]
  BY <1>1
<1>4. SameSession(new, tr)
  BY <1>1, <1>3 DEF SameSession
<1>5. /\ new.seq = tr.seq /\ new.last = tr.last
      /\ new.committed = tr.committed /\ new.execute_requested = tr.execute_requested
  BY <1>1, <1>3
<1>6. QED
  BY <1>2, <1>4, <1>5

LEMMA CommittedSet ==
  ASSUME NEW tr, DOMAIN tr = DOMAIN ResetTransfer, NEW v,
         NEW new, new = [tr EXCEPT !.committed = v]
  PROVE  /\ DOMAIN new = DOMAIN ResetTransfer
         /\ SameSession(new, tr)
         /\ new.committed = v
         /\ new.seq = tr.seq /\ new.last = tr.last
         /\ new.off = tr.off /\ new.execute_requested = tr.execute_requested
<1>1. DOMAIN tr =
        {"active", "committed", "execute_requested", "tid", "seq", "off", "crc", "clean",
         "format", "plane", "pattern", "last"}
  BY FieldNames
<1>2. DOMAIN new = DOMAIN ResetTransfer /\ new.committed = v
  BY <1>1
<1>3. \A y \in DOMAIN tr : y # "committed" => new[y] = tr[y]
  BY <1>1
<1>4. SameSession(new, tr)
  BY <1>1, <1>3 DEF SameSession
<1>5. /\ new.seq = tr.seq /\ new.last = tr.last
      /\ new.off = tr.off /\ new.execute_requested = tr.execute_requested
  BY <1>1, <1>3
<1>6. QED
  BY <1>2, <1>4, <1>5

LEMMA ExecuteSet ==
  ASSUME NEW tr, DOMAIN tr = DOMAIN ResetTransfer, NEW v,
         NEW new, new = [tr EXCEPT !.execute_requested = v]
  PROVE  /\ DOMAIN new = DOMAIN ResetTransfer
         /\ SameSession(new, tr)
         /\ new.execute_requested = v
         /\ new.seq = tr.seq /\ new.last = tr.last
         /\ new.off = tr.off /\ new.committed = tr.committed
<1>1. DOMAIN tr =
        {"active", "committed", "execute_requested", "tid", "seq", "off", "crc", "clean",
         "format", "plane", "pattern", "last"}
  BY FieldNames
<1>2. DOMAIN new = DOMAIN ResetTransfer /\ new.execute_requested = v
  BY <1>1
<1>3. \A y \in DOMAIN tr : y # "execute_requested" => new[y] = tr[y]
  BY <1>1
<1>4. SameSession(new, tr)
  BY <1>1, <1>3 DEF SameSession
<1>5. /\ new.seq = tr.seq /\ new.last = tr.last
      /\ new.off = tr.off /\ new.committed = tr.committed
  BY <1>1, <1>3
<1>6. QED
  BY <1>2, <1>4, <1>5
=============================================================================
