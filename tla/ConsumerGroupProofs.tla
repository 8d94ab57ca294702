------------------------- MODULE ConsumerGroupProofs -------------------------
(***************************************************************************)
(* What the commands of ConsumerGroup keep, for every set of entries and   *)
(* consumers: the types, and every entry of the stream, which is new,      *)
(* pending or dropped with its consumer until it is acknowledged.          *)
(***************************************************************************)
EXTENDS ConsumerGroup, TLAPS

USE GroupAssumption

(* A command, or time; XACK apart. *)
GroupStep ==
    \/ \E e \in Entry : XAdd(e) \/ Trim(e) \/ GrowsIdle(e)
    \/ LoseGroup \/ XGroupCreate
    \/ \E c \in Consumer :
         \/ \E entries \in SUBSET Entry : XReadGroup(c, entries) \/ XAutoClaim(c, entries)
         \/ \E e \in Entry : XAutoClaimDeleted(c, e)
         \/ \E e \in Entry, n \in Nat : XClaim(c, e, HeldBy(c, n))
         \/ XGroupDelConsumer(c)
         \/ FallsAsleep(c)
    \/ UNCHANGED redis

LEMMA GroupTypeInit == GroupInit => GroupTypeOK
<1>1. NotPending \in Pending
  BY DEF NotPending, Pending
<1> SUFFICES ASSUME GroupInit PROVE GroupTypeOK
  OBVIOUS
<1>2. pel \in [Entry -> Pending]
  BY <1>1 DEF GroupInit
<1>3. losses \in 0 .. MaxLosses
  BY DEF GroupInit
<1> QED
  BY <1>2, <1>3 DEF GroupInit, GroupTypeOK

(* All commands but XACK keep the types. *)
LEMMA GroupTypeStep ==
    ASSUME GroupTypeOK, GroupStep
    PROVE  GroupTypeOK'
<1>1. NotPending \in Pending
  BY DEF NotPending, Pending
<1>2. \A c \in Consumer, n \in Nat : HeldBy(c, n) \in Pending
  BY DEF HeldBy, Pending
<1>3. \A e \in Entry : pel[e].deliveries \in Nat
  BY DEF GroupTypeOK, Pending
<1>4. CASE \E e \in Entry : XAdd(e)
  BY <1>4 DEF XAdd, GroupTypeOK
<1>5. CASE \E e \in Entry : Trim(e)
  BY <1>5 DEF Trim, GroupTypeOK
<1>6. ASSUME NEW e \in Entry, GrowsIdle(e) PROVE GroupTypeOK'
  <2>1. [pel[e] EXCEPT !.idle = TRUE] \in Pending
    BY DEF GroupTypeOK, Pending
  <2> QED
    BY <1>6, <2>1 DEF GrowsIdle, GroupTypeOK
<1>7. CASE LoseGroup
  <2>1. pel' \in [Entry -> Pending]
    BY <1>1, <1>7 DEF LoseGroup
  <2>2. losses' \in 0 .. MaxLosses
    BY <1>7 DEF LoseGroup, GroupTypeOK
  <2> QED
    BY <1>7, <2>1, <2>2 DEF LoseGroup, GroupTypeOK
<1>8. CASE XGroupCreate
  BY <1>8 DEF XGroupCreate, GroupTypeOK
<1>9. ASSUME NEW c \in Consumer, NEW entries \in SUBSET Entry, XReadGroup(c, entries)
      PROVE  GroupTypeOK'
  BY <1>2, <1>9 DEF XReadGroup, Touch, GroupTypeOK
<1>10. ASSUME NEW c \in Consumer, NEW entries \in SUBSET Entry, XAutoClaim(c, entries)
       PROVE  GroupTypeOK'
  BY <1>2, <1>3, <1>10 DEF XAutoClaim, Touch, GroupTypeOK
<1>11. ASSUME NEW c \in Consumer, NEW e \in Entry, XAutoClaimDeleted(c, e)
       PROVE  GroupTypeOK'
  BY <1>1, <1>11 DEF XAutoClaimDeleted, Touch, GroupTypeOK
<1>12. ASSUME NEW c \in Consumer, NEW e \in Entry, NEW n \in Nat, XClaim(c, e, HeldBy(c, n))
       PROVE  GroupTypeOK'
  BY <1>1, <1>2, <1>12 DEF XClaim, Touch, GroupTypeOK
<1>13. ASSUME NEW c \in Consumer, XGroupDelConsumer(c) PROVE GroupTypeOK'
  BY <1>1, <1>13 DEF XGroupDelConsumer, PendingOf, GroupTypeOK
<1>14. CASE \E c \in Consumer : FallsAsleep(c)
  BY <1>14 DEF FallsAsleep, GroupTypeOK
<1>15. CASE UNCHANGED redis
  BY <1>15 DEF redis, GroupTypeOK
<1> QED
  BY <1>4, <1>5, <1>6, <1>7, <1>8, <1>9, <1>10, <1>11, <1>12, <1>13, <1>14, <1>15
  DEF GroupStep

LEMMA GroupTypeAck ==
    ASSUME GroupTypeOK, NEW e \in Entry, XAck(e)
    PROVE  GroupTypeOK'
<1>1. NotPending \in Pending
  BY DEF NotPending, Pending
<1> QED
  BY <1>1 DEF XAck, GroupTypeOK

(* No command but XACK, and neither time nor the loss of the group, takes  *)
(* an entry that is in the stream away from the group that exists after it. *)
HasIt(e) == e \in fresh \/ IsPending(e) \/ e \in dropped

LEMMA EntryStays ==
    ASSUME GroupTypeOK, GroupStep, NEW e \in Entry,
           e \in stream', group', e \in stream /\ group => HasIt(e)
    PROVE  HasIt(e)'
<1>1. CASE \E f \in Entry : XAdd(f)
  BY <1>1 DEF XAdd, HasIt, IsPending
<1>2. CASE \E f \in Entry : Trim(f)
  BY <1>2 DEF Trim, HasIt, IsPending
<1>3. ASSUME NEW f \in Entry, GrowsIdle(f) PROVE HasIt(e)'
  <2>1. pel'[e].owner = pel[e].owner
    BY <1>3 DEF GrowsIdle, GroupTypeOK, Pending
  <2> QED
    BY <1>3, <2>1 DEF GrowsIdle, HasIt, IsPending, Pending, GroupTypeOK
<1>4. CASE LoseGroup
  BY <1>4 DEF LoseGroup
<1>5. CASE XGroupCreate
  BY <1>5 DEF XGroupCreate, HasIt
<1>6. ASSUME NEW c \in Consumer, NEW entries \in SUBSET Entry,
             XReadGroup(c, entries) \/ XAutoClaim(c, entries)
      PROVE  HasIt(e)'
  <2>1. c # None
    OBVIOUS
  <2>2. HeldBy(c, 1).owner = c /\ HeldBy(c, pel[e].deliveries + 1).owner = c
    BY DEF HeldBy
  <2>3. e \in entries => pel'[e].owner = c
    BY <1>6, <2>2 DEF XReadGroup, XAutoClaim
  <2> QED
    BY <1>6, <2>1, <2>3 DEF XReadGroup, XAutoClaim, HasIt, IsPending
<1>7. ASSUME NEW c \in Consumer, NEW f \in Entry, XAutoClaimDeleted(c, f)
      PROVE  HasIt(e)'
  BY <1>7 DEF XAutoClaimDeleted, HasIt, IsPending, GroupTypeOK
<1>8. ASSUME NEW c \in Consumer, NEW f \in Entry, NEW n \in Nat, XClaim(c, f, HeldBy(c, n))
      PROVE  HasIt(e)'
  <2>1. c # None /\ HeldBy(c, n).owner = c
    BY DEF HeldBy
  <2> QED
    BY <1>8, <2>1 DEF XClaim, HasIt, IsPending, GroupTypeOK
<1>9. ASSUME NEW c \in Consumer, XGroupDelConsumer(c) PROVE HasIt(e)'
  BY <1>9 DEF XGroupDelConsumer, PendingOf, HasIt, IsPending, GroupTypeOK
<1>10. CASE \E c \in Consumer : FallsAsleep(c)
  BY <1>10 DEF FallsAsleep, HasIt, IsPending
<1>11. CASE UNCHANGED redis
  BY <1>11 DEF redis, HasIt, IsPending
<1> QED
  BY <1>1, <1>2, <1>3, <1>4, <1>5, <1>6, <1>7, <1>8, <1>9, <1>10, <1>11 DEF GroupStep

(* An entry is never new and pending at once. *)
InOnePlace == \A e \in Entry : IsPending(e) => group /\ e \in added \ fresh

LEMMA OnePlaceInit == GroupInit => InOnePlace
  BY DEF GroupInit, InOnePlace, IsPending, NotPending

LEMMA OnePlaceStep ==
    ASSUME GroupTypeOK, InOnePlace, GroupStep \/ \E e \in Entry : XAck(e)
    PROVE  InOnePlace'
<1> USE DEF InOnePlace, IsPending
<1>1. \A e \in Entry : pel[e] \in Pending
  BY DEF GroupTypeOK
<1>2. NotPending.owner = None
  BY DEF NotPending
<1>3. CASE \E f \in Entry : XAdd(f)
  BY <1>3 DEF XAdd
<1>4. CASE \E f \in Entry : Trim(f)
  BY <1>4 DEF Trim
<1>5. ASSUME NEW f \in Entry, GrowsIdle(f) PROVE InOnePlace'
  <2>1. \A e \in Entry : pel'[e].owner = pel[e].owner
    BY <1>1, <1>5 DEF GrowsIdle, GroupTypeOK, Pending
  <2> QED
    BY <1>5, <2>1 DEF GrowsIdle
<1>6. CASE LoseGroup
  BY <1>2, <1>6 DEF LoseGroup
<1>7. CASE XGroupCreate
  BY <1>7 DEF XGroupCreate
<1>8. ASSUME NEW c \in Consumer, NEW entries \in SUBSET Entry, XReadGroup(c, entries)
      PROVE  InOnePlace'
  BY <1>8 DEF XReadGroup, GroupTypeOK
<1>9. ASSUME NEW c \in Consumer, NEW entries \in SUBSET Entry, XAutoClaim(c, entries)
      PROVE  InOnePlace'
  BY <1>9 DEF XAutoClaim, Reclaimable
<1>10. ASSUME NEW c \in Consumer, NEW f \in Entry, XAutoClaimDeleted(c, f)
       PROVE  InOnePlace'
  BY <1>2, <1>10 DEF XAutoClaimDeleted, GroupTypeOK
<1>11. ASSUME NEW c \in Consumer, NEW f \in Entry, NEW n \in Nat, XClaim(c, f, HeldBy(c, n))
       PROVE  InOnePlace'
  BY <1>2, <1>11 DEF XClaim, GroupTypeOK
<1>12. ASSUME NEW c \in Consumer, XGroupDelConsumer(c) PROVE InOnePlace'
  BY <1>2, <1>12 DEF XGroupDelConsumer, PendingOf
<1>13. CASE \E c \in Consumer : FallsAsleep(c)
  BY <1>13 DEF FallsAsleep
<1>14. CASE UNCHANGED redis
  BY <1>14 DEF redis
<1>15. CASE \E e \in Entry : XAck(e)
  BY <1>2, <1>15 DEF XAck, GroupTypeOK
<1> QED
  BY <1>3, <1>4, <1>5, <1>6, <1>7, <1>8, <1>9, <1>10, <1>11, <1>12, <1>13, <1>14, <1>15
  DEF GroupStep

(* XACK takes the acknowledged entry only. *)
LEMMA AckTakesOne ==
    ASSUME GroupTypeOK, NEW f \in Entry, XAck(f), NEW e \in Entry, e # f, HasIt(e)
    PROVE  HasIt(e)'
  BY DEF XAck, HasIt, IsPending, GroupTypeOK
=============================================================================
