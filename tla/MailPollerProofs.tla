-------------------------- MODULE MailPollerProofs --------------------------
(***************************************************************************)
(* What holds of MailPoller for any folder, any attachments and any number *)
(* of pollers and faults.                                                  *)
(***************************************************************************)
EXTENDS MailPoller, SequenceTheorems, TLAPS

(* The types the proofs need: of the folder and the store, of the polls.   *)
StoreTypes ==
  /\ box \in Seq(Messages)
  /\ docs \subseteq Contents /\ jobs \in [Contents -> Nat]
PollTypes ==
  /\ pc \in [Pollers -> Calls] /\ got \in [Pollers -> Seq(Messages)]
  /\ todo \in [Pollers -> SUBSET Nat] /\ cur \in [Pollers -> Nat]
  /\ read \in [Pollers -> Nat] /\ attachments \in [Pollers -> Seq(Contents)]
  /\ cancelled \in [Pollers -> BOOLEAN]

(* What a poller has saved and not yet enqueued is of the message it is at. *)
OfMessage(p) == \A k \in DOMAIN attachments[p] : attachments[p][k] \in ContentsOf(Msg(p))

(* Where p stands in the message it is at.                                 *)
Place(p) ==
  /\ todo[p] \subseteq DOMAIN got[p]
  /\ pc[p] \in Processing =>
       cur[p] \in todo[p] /\ read[p] <= Len(Parts[Msg(p)]) /\ OfMessage(p)
  /\ pc[p] \in {"enqueue", "job"} => attachments[p] # <<>>
  /\ pc[p] \notin Processing => read[p] = 0 /\ attachments[p] = <<>>

TypeInv == StoreTypes /\ PollTypes /\ \A p \in Pollers : Place(p)

(* Cutting a message out of the folder leaves a folder.                    *)
LEMMA WithoutSeq ==
  ASSUME NEW S, NEW s \in Seq(S), NEW i \in DOMAIN s
  PROVE  Without(s, i) \in Seq(S)
<1>1. i \in 1..Len(s)
  OBVIOUS
<1>2. SubSeq(s, 1, i - 1) \in Seq(S)
  <2>1. \A k \in 1..(i - 1) : s[k] \in S
    BY <1>1, ElementOfSeq
  <2> QED BY <1>1, <2>1, SubSeqProperties
<1>3. SubSeq(s, i + 1, Len(s)) \in Seq(S)
  <2>1. \A k \in (i + 1)..Len(s) : s[k] \in S
    BY <1>1, ElementOfSeq
  <2> QED BY <1>1, <2>1, SubSeqProperties
<1> QED BY <1>2, <1>3, ConcatProperties DEF Without

(* The message a poller is at, and its attachments.                        *)
Attachment == [name : Names, content : Contents, decodes : BOOLEAN]

LEMMA MessageAt ==
  ASSUME TypeInv, NEW p \in Pollers, pc[p] \in Processing
  PROVE  /\ cur[p] \in DOMAIN got[p] /\ Msg(p) \in Messages
         /\ Parts[Msg(p)] \in Seq(Attachment)
         /\ Len(Parts[Msg(p)]) \in Nat
         /\ DOMAIN Parts[Msg(p)] = 1..Len(Parts[Msg(p)])
         /\ read[p] <= Len(Parts[Msg(p)])
<1>1. cur[p] \in DOMAIN got[p] /\ got[p] \in Seq(Messages)
  BY DEF TypeInv, StoreTypes, PollTypes, Place
<1>2. Msg(p) \in Messages
  BY <1>1, ElementOfSeq DEF Msg
<1>3. Parts[Msg(p)] \in Seq(Attachment)
  BY <1>2, MailAssumption DEF Attachment
<1> QED BY <1>1, <1>2, <1>3 DEF TypeInv, Place

(* What NextPart comes to.                                                 *)
LEMMA UpcomingAt ==
  ASSUME TypeInv, NEW p \in Pollers, pc[p] = "save", MoreParts(p)
  PROVE  /\ read[p] + 1 \in DOMAIN Parts[Msg(p)] /\ Upcoming(p) \in Attachment
         /\ Upcoming(p).decodes => Upcoming(p).content \in ContentsOf(Msg(p))
<1> DEFINE s == Parts[Msg(p)]
           n == read[p] + 1
<1>1. s \in Seq(Attachment) /\ Len(s) \in Nat /\ DOMAIN s = 1..Len(s) /\ read[p] \in Nat
  BY MessageAt DEF Processing, TypeInv, PollTypes
<1>2. n \in 1..Len(s)
  BY <1>1 DEF MoreParts
<1>3. Upcoming(p) = s[n]
  BY DEF Upcoming
<1> HIDE DEF s, n
<1>4. Upcoming(p) \in Attachment
  BY <1>1, <1>2, <1>3, ElementOfSeq
<1>5. Upcoming(p).decodes => Upcoming(p).content \in ContentsOf(Msg(p))
  BY <1>1, <1>2, <1>3 DEF ContentsOf, Decodable, s
<1> QED BY <1>1, <1>2, <1>4, <1>5 DEF s, n

(* The attachments left, and those behind the first of them.               *)
LEMMA AttachmentsLeft ==
  ASSUME NEW s \in Seq(Contents), s # <<>>
  PROVE  /\ 1 \in DOMAIN s /\ Head(s) = s[1] /\ s[1] \in Contents
         /\ Tail(s) \in Seq(Contents)
         /\ Len(s) = 1 <=> Tail(s) = <<>>
         /\ \A k \in DOMAIN s : k # 1 => k - 1 \in DOMAIN Tail(s) /\ Tail(s)[k - 1] = s[k]
         /\ \A k \in DOMAIN Tail(s) : k + 1 \in DOMAIN s /\ Tail(s)[k] = s[k + 1]
         /\ Len(s) = 1 => DOMAIN s = {1}
<1>1. Len(s) \in Nat \ {0} /\ DOMAIN s = 1..Len(s)
  BY EmptySeq
<1>2. Tail(s) \in Seq(Contents) /\ Len(Tail(s)) = Len(s) - 1 /\ Head(s) = s[1]
  BY <1>1, HeadTailProperties
<1>3. \A k \in 1..Len(Tail(s)) : Tail(s)[k] = s[k + 1]
  BY <1>1, <1>2, HeadTailProperties
<1>4. DOMAIN Tail(s) = 1..(Len(s) - 1)
  BY <1>2
<1>5. s[1] \in Contents
  BY <1>1, ElementOfSeq
<1>6. Len(s) = 1 <=> Tail(s) = <<>>
  <2>1. Len(<<>>) = 0
    OBVIOUS
  <2>2. Tail(s) # <<>> => Len(Tail(s)) \in Nat \ {0}
    BY <1>2, EmptySeq
  <2>3. Tail(s) = <<>> => Len(Tail(s)) = 0
    BY <2>1
  <2> QED BY <1>1, <1>2, <2>2, <2>3
<1>7. ASSUME NEW k \in DOMAIN s, k # 1
      PROVE  k - 1 \in DOMAIN Tail(s) /\ Tail(s)[k - 1] = s[k]
  <2>1. k \in 2..Len(s) /\ k - 1 \in 1..Len(Tail(s)) /\ (k - 1) + 1 = k
    BY <1>1, <1>2, <1>7
  <2> QED BY <1>3, <2>1
<1> QED BY <1>1, <1>2, <1>3, <1>4, <1>5, <1>6, <1>7

(* Leaving a message, or an attachment, keeps the types and the places.    *)
LEMMA NextMessageKeeps ==
  ASSUME TypeInv, NEW p \in Pollers, NEW i, NextMessage(p, i)
  PROVE  PollTypes' /\ \A q \in Pollers : Place(q)'
<1>1. todo' \in [Pollers -> SUBSET Nat]
  BY DEF NextMessage, TypeInv, StoreTypes, PollTypes
<1>2. pc' \in [Pollers -> Calls]
  BY DEF NextMessage, Goto, TypeInv, StoreTypes, PollTypes, Calls
<1>3. /\ cur' \in [Pollers -> Nat] /\ read' \in [Pollers -> Nat]
      /\ attachments' \in [Pollers -> Seq(Contents)] /\ cancelled' \in [Pollers -> BOOLEAN]
      /\ got' \in [Pollers -> Seq(Messages)]
  BY DEF NextMessage, TypeInv, StoreTypes, PollTypes
<1>4. Place(p)'
  BY DEF NextMessage, Goto, Place, Processing, TypeInv, StoreTypes, PollTypes
<1>5. ASSUME NEW q \in Pollers, q # p
      PROVE  Place(q)'
  BY <1>5 DEF NextMessage, Goto, Place, OfMessage, Msg, TypeInv, StoreTypes, PollTypes
<1> QED BY <1>1, <1>2, <1>3, <1>4, <1>5 DEF PollTypes

LEMMA NextPartKeeps ==
  ASSUME TypeInv, NEW p \in Pollers, pc[p] \in {"enqueue", "job"}, NextPart(p)
  PROVE  PollTypes' /\ \A q \in Pollers : Place(q)'
<1>1. attachments[p] \in Seq(Contents) /\ attachments[p] # <<>>
  BY DEF TypeInv, PollTypes, Place
<1>2. /\ attachments' = [attachments EXCEPT ![p] = Tail(@)]
      /\ pc' = [pc EXCEPT ![p] = IF Len(attachments[p]) = 1 THEN "act" ELSE "enqueue"]
      /\ UNCHANGED <<got, todo, cur, read, cancelled>>
  BY DEF NextPart, Goto
<1>3. attachments' \in [Pollers -> Seq(Contents)] /\ attachments'[p] = Tail(attachments[p])
  BY <1>1, <1>2, AttachmentsLeft DEF TypeInv, PollTypes
<1>4. PollTypes'
  BY <1>2, <1>3 DEF TypeInv, PollTypes, Calls, Processing
<1>5. pc'[p] \in Processing /\ (pc'[p] \in {"enqueue", "job"} => Len(attachments[p]) # 1)
  BY <1>2 DEF TypeInv, PollTypes, Processing
<1>6. OfMessage(p)'
  <2>1. OfMessage(p) /\ Msg(p)' = Msg(p)
    BY <1>2 DEF TypeInv, Place, OfMessage, Processing, Msg
  <2> QED BY <1>1, <1>3, <2>1, AttachmentsLeft DEF OfMessage
<1>7. Place(p)'
  <2>1. pc[p] \in Processing
    BY DEF Processing
  <2>2. attachments'[p] = <<>> => Len(attachments[p]) = 1
    BY <1>1, <1>3, AttachmentsLeft
  <2> QED BY <1>2, <1>5, <1>6, <2>1, <2>2 DEF TypeInv, Place, OfMessage, Msg
<1>8. ASSUME NEW q \in Pollers, q # p
      PROVE  Place(q)'
  BY <1>2, <1>8 DEF Place, OfMessage, Msg, TypeInv, StoreTypes, PollTypes
<1> QED BY <1>4, <1>7, <1>8

LEMMA DisconnectKeeps ==
  ASSUME TypeInv, NEW p \in Pollers, Disconnect(p)
  PROVE  PollTypes' /\ \A q \in Pollers : Place(q)'
<1>1. todo' \in [Pollers -> SUBSET Nat] /\ got' \in [Pollers -> Seq(Messages)]
  BY DEF Disconnect, TypeInv, StoreTypes, PollTypes
<1>2. PollTypes'
  BY <1>1 DEF Disconnect, Goto, TypeInv, StoreTypes, PollTypes, Calls
<1>3. Place(p)'
  BY DEF Disconnect, Goto, Place, Processing, TypeInv, StoreTypes, PollTypes
<1>4. ASSUME NEW q \in Pollers, q # p
      PROVE  Place(q)'
  BY <1>4 DEF Disconnect, Goto, Place, OfMessage, Msg, TypeInv, StoreTypes, PollTypes
<1> QED BY <1>2, <1>3, <1>4

(* The content at hand is one of the message's.                            *)
LEMMA ContentAt ==
  ASSUME TypeInv, NEW p \in Pollers, pc[p] \in {"enqueue", "job"}
  PROVE  /\ attachments[p] \in Seq(Contents) /\ attachments[p] # <<>>
         /\ Content(p) \in ContentsOf(Msg(p)) /\ Content(p) \in Contents
<1>1. attachments[p] \in Seq(Contents) /\ attachments[p] # <<>> /\ OfMessage(p)
  BY DEF TypeInv, PollTypes, Place, Processing
<1> QED BY <1>1, AttachmentsLeft DEF Content, OfMessage

(* So does giving a message up.                                            *)
LEMMA DropKeeps ==
  ASSUME TypeInv, NEW p \in Pollers, Drop(p)
  PROVE  PollTypes' /\ \A q \in Pollers : Place(q)'
BY NextMessageKeeps DEF Drop

(* The types hold, and a poller is where its variables say.                *)
LEMMA TypeInvariant == Spec => []TypeInv
<1>1. Init => TypeInv
  BY MailAssumption DEF Init, TypeInv, StoreTypes, PollTypes, Place, Calls, Processing
<1>2. TypeInv /\ [Next]_vars => TypeInv'
  <2> SUFFICES ASSUME TypeInv, [Next]_vars
               PROVE  TypeInv'
    OBVIOUS
  <2>1. ASSUME NEW m \in Messages, Arrive(m)
        PROVE  TypeInv'
    BY <2>1, AppendProperties DEF Arrive, TypeInv, StoreTypes, PollTypes, Place, OfMessage, Msg, vars, serverVars, storeVars, pollVars
  <2>2. ASSUME NEW i \in 1..Size, Delete(i)
        PROVE  TypeInv'
    BY <2>2, WithoutSeq DEF Delete, TypeInv, StoreTypes, PollTypes, Place, OfMessage, Msg, vars, serverVars, storeVars, pollVars
  <2>3. ASSUME Renumber
        PROVE  TypeInv'
    BY <2>3 DEF Renumber, TypeInv, StoreTypes, PollTypes, Place, OfMessage, Msg, vars, serverVars, storeVars, pollVars
  <2>4. ASSUME NEW p \in Pollers, Select(p)
        PROVE  TypeInv'
    BY <2>4 DEF Select, Msg, Goto, Place, OfMessage, TypeInv, StoreTypes, PollTypes, Calls, Processing, vars, serverVars, storeVars, pollVars
  <2>5. ASSUME NEW p \in Pollers, Fetch(p)
        PROVE  TypeInv'
    <3>1. StoreTypes' /\ PollTypes'
      BY <2>5 DEF Fetch, Found, Goto, TypeInv, StoreTypes, PollTypes, Calls, Processing, vars, serverVars, storeVars, pollVars
    <3>2. Place(p)'
      BY <2>5 DEF Fetch, Found, Goto, Msg, Place, OfMessage, TypeInv, StoreTypes, PollTypes, Calls, Processing, vars, serverVars, storeVars, pollVars
    <3>3. ASSUME NEW q \in Pollers, q # p
          PROVE  Place(q)'
      BY <2>5, <3>3 DEF Fetch, Found, Goto, Msg, Place, OfMessage, TypeInv, StoreTypes, PollTypes, Calls, Processing, vars, serverVars, storeVars, pollVars
    <3> QED BY <3>1, <3>2, <3>3 DEF TypeInv
  <2>6. ASSUME NEW p \in Pollers, Check(p)
        PROVE  TypeInv'
    <3>1. PICK i \in todo[p] :
            IF Id(got[p][i], i) \in tracked
            THEN NextMessage(p, i)
            ELSE /\ cur' = [cur EXCEPT ![p] = i]
                 /\ Goto(p, "save")
                 /\ UNCHANGED <<sel, got, todo, read, attachments, cancelled>>
      BY <2>6 DEF Check
    <3>2. StoreTypes'
      BY <2>6 DEF Check, TypeInv, StoreTypes, PollTypes, serverVars, storeVars
    <3>3. CASE NextMessage(p, i)
      BY <3>2, <3>3, NextMessageKeeps DEF TypeInv
    <3>4. CASE ~ NextMessage(p, i)
      <4>1. /\ cur' = [cur EXCEPT ![p] = i] /\ pc' = [pc EXCEPT ![p] = "save"]
            /\ UNCHANGED <<sel, got, todo, read, attachments, cancelled>>
        BY <3>1, <3>4 DEF Goto
      <4>2. i \in DOMAIN got[p] /\ i \in Nat /\ read[p] = 0 /\ attachments[p] = <<>>
        BY <2>6 DEF Check, TypeInv, StoreTypes, PollTypes, Place, Processing
      <4>3. got[p][i] \in Messages
        BY <4>2, ElementOfSeq DEF TypeInv, StoreTypes, PollTypes
      <4>4. Len(Parts[got[p][i]]) \in Nat
        BY <4>3, MailAssumption
      <4>5. PollTypes'
        BY <4>1, <4>2 DEF TypeInv, StoreTypes, PollTypes, Calls, Processing
      <4>6. Place(p)'
        BY <4>1, <4>2, <4>4 DEF TypeInv, StoreTypes, PollTypes, Place, OfMessage, Msg, Processing
      <4>7. ASSUME NEW q \in Pollers, q # p
            PROVE  Place(q)'
        BY <4>1, <4>7 DEF TypeInv, StoreTypes, PollTypes, Place, OfMessage, Msg, Processing
      <4> QED BY <3>2, <4>5, <4>6, <4>7 DEF TypeInv
    <3> QED BY <3>3, <3>4
  <2>7. ASSUME NEW p \in Pollers, SavePart(p)
        PROVE  TypeInv'
    <3>1. StoreTypes'
      BY <2>7 DEF SavePart, TypeInv, StoreTypes, PollTypes, serverVars, storeVars
    <3>2. CASE Drop(p)
      BY <3>1, <3>2, DropKeeps DEF TypeInv
    <3>3. CASE ~ Drop(p)
      <4>1. /\ read' = [read EXCEPT ![p] = @ + 1]
            /\ attachments' = [attachments EXCEPT ![p] = Append(@, Upcoming(p).content)]
            /\ UNCHANGED <<pc, sel, got, todo, cur, cancelled>>
            /\ pc[p] = "save" /\ MoreParts(p) /\ Upcoming(p).decodes
        BY <2>7, <3>3 DEF SavePart
      <4>2. Len(Parts[Msg(p)]) \in Nat /\ read[p] < Len(Parts[Msg(p)])
        BY <4>1, MessageAt DEF Processing, MoreParts
      <4>3. Upcoming(p).content \in Contents /\ Upcoming(p).content \in ContentsOf(Msg(p))
        BY <4>1, UpcomingAt DEF Attachment
      <4>4. attachments[p] \in Seq(Contents) /\ OfMessage(p) /\ Msg(p)' = Msg(p)
        BY <4>1 DEF TypeInv, PollTypes, Place, Processing, Msg
      <4>5. /\ attachments' \in [Pollers -> Seq(Contents)]
            /\ attachments'[p] = Append(attachments[p], Upcoming(p).content)
        BY <4>1, <4>3, AppendProperties DEF TypeInv, PollTypes
      <4>6. PollTypes'
        BY <4>1, <4>5 DEF TypeInv, PollTypes
      <4>7. OfMessage(p)'
        <5>1. ASSUME NEW k \in DOMAIN attachments'[p]
              PROVE  attachments'[p][k] \in ContentsOf(Msg(p))
          BY <4>3, <4>4, <4>5, AppendProperties DEF OfMessage
        <5> QED BY <4>4, <5>1 DEF OfMessage
      <4>8. Place(p)'
        BY <4>1, <4>2, <4>4, <4>7 DEF TypeInv, PollTypes, Place, Processing
      <4>9. ASSUME NEW q \in Pollers, q # p
            PROVE  Place(q)'
        BY <4>1, <4>9 DEF TypeInv, StoreTypes, PollTypes, Place, OfMessage, Msg
      <4> QED BY <3>1, <4>6, <4>8, <4>9 DEF TypeInv
    <3> QED BY <3>2, <3>3
  <2>22. ASSUME NEW p \in Pollers, SkipPart(p)
         PROVE  TypeInv'
    <3>1. StoreTypes'
      BY <2>22 DEF SkipPart, TypeInv, StoreTypes, serverVars, storeVars
    <3>2. /\ read' = [read EXCEPT ![p] = @ + 1]
          /\ UNCHANGED <<pc, got, todo, cur, attachments, cancelled>>
          /\ pc[p] = "save" /\ MoreParts(p)
      BY <2>22 DEF SkipPart
    <3>3. Len(Parts[Msg(p)]) \in Nat /\ read[p] < Len(Parts[Msg(p)])
      BY <3>2, MessageAt DEF Processing, MoreParts
    <3>4. PollTypes'
      BY <3>2 DEF TypeInv, PollTypes
    <3>5. ASSUME NEW q \in Pollers
          PROVE  Place(q)'
      <4>1. Msg(q)' = Msg(q) /\ (OfMessage(q) => OfMessage(q)')
        BY <3>2 DEF OfMessage, Msg
      <4> QED BY <3>2, <3>3, <4>1 DEF TypeInv, PollTypes, Place, Processing
    <3> QED BY <3>1, <3>4, <3>5 DEF TypeInv
  <2>8. ASSUME NEW p \in Pollers, EndOfParts(p)
        PROVE  TypeInv'
    <3>0. pc[p] \in Processing
      BY <2>8 DEF EndOfParts, Processing
    <3>a. Msg(p) \in Messages /\ Len(Parts[Msg(p)]) \in Nat /\ read[p] <= Len(Parts[Msg(p)])
      BY <3>0, MessageAt
    <3>1. StoreTypes' /\ PollTypes'
      BY <2>8, <3>0, <3>a DEF EndOfParts, Goto, TypeInv, StoreTypes, PollTypes, Calls, Processing, vars, serverVars, storeVars, pollVars
    <3>2. Place(p)'
      BY <2>8, <3>0, <3>a DEF EndOfParts, Goto, Msg, Place, OfMessage, TypeInv, StoreTypes, PollTypes, Calls, Processing, vars, serverVars, storeVars, pollVars
    <3>3. ASSUME NEW q \in Pollers, q # p
          PROVE  Place(q)'
      BY <2>8, <3>3 DEF EndOfParts, Goto, Msg, Place, OfMessage, TypeInv, StoreTypes, PollTypes, Calls, Processing, vars, serverVars, storeVars, pollVars
    <3> QED BY <3>1, <3>2, <3>3 DEF TypeInv
  <2>9. ASSUME NEW p \in Pollers, Enqueue(p)
        PROVE  TypeInv'
    <3>0. pc[p] = "enqueue" /\ Content(p) \in Contents
      BY <2>9, ContentAt DEF Enqueue
    <3>1. StoreTypes'
      BY <2>9, <3>0 DEF Enqueue, TypeInv, StoreTypes, PollTypes, serverVars, storeVars
    <3>2. CASE Drop(p)
      BY <3>1, <3>2, DropKeeps DEF TypeInv
    <3>3. CASE NextPart(p)
      BY <3>0, <3>1, <3>3, NextPartKeeps DEF TypeInv
    <3>4. CASE ~ Drop(p) /\ ~ NextPart(p)
      <4>1. /\ pc' = [pc EXCEPT ![p] = "job"]
            /\ UNCHANGED <<sel, got, todo, cur, read, attachments, cancelled>>
        BY <2>9, <3>4 DEF Enqueue, Goto
      <4>2. PollTypes' /\ \A q \in Pollers : Place(q)'
        BY <3>0, <4>1 DEF TypeInv, StoreTypes, PollTypes, Place, OfMessage, Msg, Calls, Processing
      <4> QED BY <3>1, <4>2 DEF TypeInv
    <3> QED BY <3>2, <3>3, <3>4
  <2>10. ASSUME NEW p \in Pollers, EnqueueJob(p)
        PROVE  TypeInv'
    <3>1. StoreTypes'
      <4>1. Content(p) \in Contents
        BY <2>10, ContentAt DEF EnqueueJob
      <4>2. box' = box /\ docs' = docs /\ jobs' = [jobs EXCEPT ![Content(p)] = @ + 1]
        BY <2>10 DEF EnqueueJob, serverVars
      <4> QED BY <4>1, <4>2 DEF TypeInv, StoreTypes
    <3>2. PollTypes' /\ \A q \in Pollers : Place(q)'
      BY <2>10, NextPartKeeps DEF EnqueueJob
    <3> QED BY <3>1, <3>2 DEF TypeInv
  <2>11. ASSUME NEW p \in Pollers, MarkSeen(p)
        PROVE  TypeInv'
    BY <2>11 DEF MarkSeen, Msg, Goto, Place, OfMessage, TypeInv, StoreTypes, PollTypes, Calls, Processing, vars, serverVars, storeVars, pollVars
  <2>12. ASSUME NEW p \in Pollers, Move(p)
        PROVE  TypeInv'
    <3>1. \A m : InBox(m) => Position(m) \in DOMAIN box
      BY DEF InBox, Position
    <3>2. StoreTypes'
      <4>1. box' = box \/ \E m : InBox(m) /\ box' = Without(box, Position(m))
        BY <2>12 DEF Move
      <4>2. box' \in Seq(Messages)
        BY <3>1, <4>1, WithoutSeq DEF TypeInv, StoreTypes, PollTypes
      <4> QED BY <2>12, <4>2 DEF Move, TypeInv, StoreTypes, PollTypes, storeVars
    <3>3. CASE Drop(p)
      BY <3>2, <3>3, DropKeeps DEF TypeInv
    <3>4. CASE ~ Drop(p)
      <4>1. /\ pc' = [pc EXCEPT ![p] = "track"] /\ pc[p] = "act"
            /\ UNCHANGED <<sel, got, todo, cur, read, attachments, cancelled>>
        BY <2>12, <3>4 DEF Move, Goto
      <4>2. PollTypes' /\ \A q \in Pollers : Place(q)'
        BY <4>1 DEF TypeInv, StoreTypes, PollTypes, Place, OfMessage, Msg, Calls, Processing
      <4> QED BY <3>2, <4>2 DEF TypeInv
    <3> QED BY <3>3, <3>4
  <2>13. ASSUME NEW p \in Pollers, Track(p)
        PROVE  TypeInv'
    BY <2>13, NextMessageKeeps DEF Track, TypeInv, StoreTypes, PollTypes, serverVars
  <2>14. ASSUME NEW p \in Pollers, SaveCursor(p)
        PROVE  TypeInv'
    BY <2>14, DisconnectKeeps DEF SaveCursor, TypeInv, StoreTypes, PollTypes, serverVars
  <2>15. ASSUME NEW p \in Pollers, Abandon(p)
        PROVE  TypeInv'
    BY <2>15, DisconnectKeeps DEF Abandon, TypeInv, StoreTypes, PollTypes, serverVars, storeVars
  <2>16. ASSUME NEW p \in Pollers, PollFails(p)
        PROVE  TypeInv'
    BY <2>16, DisconnectKeeps DEF PollFails, TypeInv, StoreTypes, PollTypes, serverVars, storeVars
  <2>17. ASSUME NEW p \in Pollers, MessageFails(p)
        PROVE  TypeInv'
    BY <2>17, DropKeeps DEF MessageFails, TypeInv, StoreTypes, PollTypes, serverVars, storeVars
  <2>18. ASSUME NEW p \in Pollers, ActionFails(p)
        PROVE  TypeInv'
    BY <2>18, DropKeeps DEF ActionFails, TypeInv, StoreTypes, PollTypes, serverVars, storeVars
  <2>19. ASSUME NEW p \in Pollers, Crash(p)
        PROVE  TypeInv'
    BY <2>19, DisconnectKeeps DEF Crash, TypeInv, StoreTypes, PollTypes, serverVars, storeVars
  <2>20. ASSUME NEW p \in Pollers, Shutdown(p)
        PROVE  TypeInv'
    BY <2>20 DEF Shutdown, Fault, Msg, Goto, Place, OfMessage, TypeInv, StoreTypes, PollTypes, Calls, Processing, vars, serverVars, storeVars, pollVars
  <2>23. ASSUME NEW p \in Pollers, SavingFails(p)
         PROVE  TypeInv'
    BY <2>23, DropKeeps DEF SavingFails, TypeInv, StoreTypes, PollTypes, serverVars, storeVars
  <2>21. ASSUME UNCHANGED vars
        PROVE  TypeInv'
    BY <2>21 DEF TypeInv, StoreTypes, PollTypes, Place, OfMessage, Msg, vars, serverVars, storeVars, pollVars
  <2> QED
    BY <2>1, <2>2, <2>3, <2>4, <2>5, <2>6, <2>7, <2>8, <2>9, <2>10, <2>11, <2>12, <2>13, <2>14, <2>15, <2>16, <2>17, <2>18, <2>19, <2>20, <2>21, <2>22, <2>23 DEF Next, Step, Disturb
<1> QED BY <1>1, <1>2, PTL DEF Spec

-----------------------------------------------------------------------------
(* A step of one poller leaves the others where they are.                  *)
Apart(q) ==
  /\ pc'[q] = pc[q] /\ got'[q] = got[q] /\ cur'[q] = cur[q]
  /\ read'[q] = read[q] /\ attachments'[q] = attachments[q] /\ cancelled'[q] = cancelled[q]

LEMMA OthersApart ==
  ASSUME TypeInv, NEW p \in Pollers, NEW q \in Pollers, q # p, Step(p) \/ Disturb(p)
  PROVE  Apart(q)
<1> USE DEF Apart, TypeInv, PollTypes
<1>1. CASE Select(p)
  BY <1>1 DEF Select, Goto
<1>2. CASE Fetch(p)
  BY <1>2 DEF Fetch, Goto
<1>3. CASE Check(p)
  BY <1>3 DEF Check, NextMessage, Goto
<1>4. CASE SavePart(p)
  BY <1>4 DEF SavePart, Drop, NextMessage, Goto
<1>5. CASE EndOfParts(p)
  BY <1>5 DEF EndOfParts, Goto
<1>6. CASE Enqueue(p)
  BY <1>6 DEF Enqueue, Drop, NextMessage, NextPart, Goto
<1>7. CASE EnqueueJob(p)
  BY <1>7 DEF EnqueueJob, NextPart, Goto
<1>8. CASE MarkSeen(p)
  BY <1>8 DEF MarkSeen, Goto
<1>9. CASE Move(p)
  BY <1>9 DEF Move, Drop, NextMessage, Goto
<1>10. CASE Track(p)
  BY <1>10 DEF Track, NextMessage, Goto
<1>11. CASE SaveCursor(p)
  BY <1>11 DEF SaveCursor, Disconnect, Goto
<1>12. CASE Abandon(p)
  BY <1>12 DEF Abandon, Disconnect, Goto
<1>13. CASE PollFails(p)
  BY <1>13 DEF PollFails, Disconnect, Goto
<1>14. CASE MessageFails(p)
  BY <1>14 DEF MessageFails, Drop, NextMessage, Goto
<1>15. CASE ActionFails(p)
  BY <1>15 DEF ActionFails, Drop, NextMessage, Goto
<1>16. CASE Crash(p)
  BY <1>16 DEF Crash, Disconnect, Goto
<1>17. CASE Shutdown(p)
  BY <1>17 DEF Shutdown
<1>21. CASE SkipPart(p)
  BY <1>21 DEF SkipPart
<1>22. CASE SavingFails(p)
  BY <1>22 DEF SavingFails, Drop, NextMessage, Goto
<1> QED BY <1>1, <1>2, <1>3, <1>4, <1>5, <1>6, <1>7, <1>8, <1>9, <1>10, <1>11, <1>12, <1>13, <1>14, <1>15, <1>16, <1>17, <1>21, <1>22 DEF Step, Disturb

(* What users and the server do leaves all the pollers where they are.     *)
LEMMA ServerStore ==
  ASSUME (\E m \in Messages : Arrive(m)) \/ (\E i \in 1..Size : Delete(i)) \/ Renumber \/ UNCHANGED vars
  PROVE  UNCHANGED <<storeVars, pollVars, failed>>
BY DEF Arrive, Delete, Renumber, vars, storeVars, pollVars

LEMMA ServerApart ==
  ASSUME NEW q \in Pollers,
         (\E m \in Messages : Arrive(m)) \/ (\E i \in 1..Size : Delete(i)) \/ Renumber \/ UNCHANGED vars
  PROVE  Apart(q)
BY ServerStore DEF Apart, pollVars

(* Documents are never removed.                                            *)
LEMMA DocsGrow ==
  ASSUME NEW p \in Pollers, Step(p) \/ Disturb(p)
  PROVE  docs \subseteq docs'
<1> USE DEF storeVars
<1>1. CASE Select(p)
  BY <1>1 DEF Select
<1>2. CASE Fetch(p)
  BY <1>2 DEF Fetch
<1>3. CASE Check(p)
  BY <1>3 DEF Check
<1>4. CASE SavePart(p)
  BY <1>4 DEF SavePart
<1>5. CASE EndOfParts(p)
  BY <1>5 DEF EndOfParts
<1>6. CASE Enqueue(p)
  BY <1>6 DEF Enqueue
<1>7. CASE EnqueueJob(p)
  BY <1>7 DEF EnqueueJob
<1>8. CASE MarkSeen(p)
  BY <1>8 DEF MarkSeen
<1>9. CASE Move(p)
  BY <1>9 DEF Move
<1>10. CASE Track(p)
  BY <1>10 DEF Track
<1>11. CASE SaveCursor(p)
  BY <1>11 DEF SaveCursor
<1>12. CASE Abandon(p)
  BY <1>12 DEF Abandon
<1>13. CASE PollFails(p)
  BY <1>13 DEF PollFails
<1>14. CASE MessageFails(p)
  BY <1>14 DEF MessageFails
<1>15. CASE ActionFails(p)
  BY <1>15 DEF ActionFails
<1>16. CASE Crash(p)
  BY <1>16 DEF Crash
<1>17. CASE Shutdown(p)
  BY <1>17 DEF Shutdown
<1>21. CASE SkipPart(p)
  BY <1>21 DEF SkipPart
<1>22. CASE SavingFails(p)
  BY <1>22 DEF SavingFails
<1> QED BY <1>1, <1>2, <1>3, <1>4, <1>5, <1>6, <1>7, <1>8, <1>9, <1>10, <1>11, <1>12, <1>13, <1>14, <1>15, <1>16, <1>17, <1>21, <1>22 DEF Step, Disturb

-----------------------------------------------------------------------------
(* What is tracked is recorded.  On the way there a poller that is not     *)
(* being stopped has each attachment behind it waiting or recorded, and    *)
(* comes to the end of a message before it enqueues the first of them.     *)
Waits(p, c) == \E k \in DOMAIN attachments[p] : attachments[p][k] = c

Custody(p) ==
  /\ pc[p] = "save" /\ ~ cancelled[p] =>
       \A i \in 1..read[p] : i \in Decodable(Msg(p)) => Waits(p, Parts[Msg(p)][i].content)
  /\ pc[p] \in {"enqueue", "job"} /\ ~ cancelled[p] =>
       \A c \in ContentsOf(Msg(p)) : c \in docs \/ Waits(p, c)
  /\ pc[p] = "job" => Content(p) \in docs
  /\ pc[p] \in {"act", "track"} /\ ~ cancelled[p] => Recorded(Msg(p))

LEMMA RecordedGrows ==
  ASSUME NEW m, docs \subseteq docs', Recorded(m)
  PROVE  Recorded(m)'
BY DEF Recorded, ContentsOf

(* A poller that does not move keeps what it has recorded.                 *)
LEMMA CustodyStays ==
  ASSUME NEW q, Custody(q), Apart(q), docs \subseteq docs'
  PROVE  Custody(q)'
<1>1. Msg(q)' = Msg(q) /\ Content(q)' = Content(q)
  BY DEF Apart, Msg, Content
<1>2. Recorded(Msg(q)) => Recorded(Msg(q))'
  BY <1>1, RecordedGrows DEF Recorded, ContentsOf
<1>3. \A c : Waits(q, c) => Waits(q, c)'
  BY DEF Waits, Apart
<1> QED BY <1>1, <1>2, <1>3 DEF Custody, Apart

(* Nothing is claimed of a poller between two messages.                    *)
LEMMA CustodyIdle ==
  ASSUME NEW p, pc'[p] \in {"idle", "fetch", "check", "cursor"}
  PROVE  Custody(p)'
BY DEF Custody

(* The next attachment: when it was the last one, all are recorded.        *)
LEMMA CustodyNextPart ==
  ASSUME TypeInv, NEW p \in Pollers, Custody(p), pc[p] \in {"enqueue", "job"},
         NextPart(p), Content(p) \in docs, docs' = docs
  PROVE  Custody(p)'
<1>1. /\ attachments'[p] = Tail(attachments[p]) /\ Msg(p)' = Msg(p)
      /\ pc'[p] = IF Len(attachments[p]) = 1 THEN "act" ELSE "enqueue"
      /\ cancelled'[p] = cancelled[p]
  BY DEF NextPart, Goto, TypeInv, PollTypes, Msg
<1>2. attachments[p] \in Seq(Contents) /\ attachments[p] # <<>>
  BY ContentAt
<1>3. ASSUME NEW c, Waits(p, c), c # Content(p)
      PROVE  Waits(p, c)'
  <2>1. PICK k \in DOMAIN attachments[p] : attachments[p][k] = c
    BY <1>3 DEF Waits
  <2>2. k # 1
    BY <1>2, <1>3, <2>1, AttachmentsLeft DEF Content
  <2>3. k - 1 \in DOMAIN Tail(attachments[p]) /\ Tail(attachments[p])[k - 1] = c
    BY <1>2, <2>1, <2>2, AttachmentsLeft
  <2> QED BY <1>1, <2>3 DEF Waits
<1>4. Len(attachments[p]) = 1 => \A c : Waits(p, c) => c = Content(p)
  <2>1. /\ Head(attachments[p]) = attachments[p][1]
        /\ Len(attachments[p]) = 1 => DOMAIN attachments[p] = {1}
    BY <1>2, AttachmentsLeft
  <2> QED BY <2>1 DEF Waits, Content
<1>5. ~ cancelled[p] => \A c \in ContentsOf(Msg(p)) : c \in docs \/ Waits(p, c)
  BY DEF Custody
<1>6. Len(attachments[p]) = 1 /\ ~ cancelled[p] => Recorded(Msg(p))
  BY <1>4, <1>5 DEF Recorded
<1>7. Recorded(Msg(p)) => Recorded(Msg(p))'
  BY <1>1 DEF Recorded, ContentsOf
<1> QED BY <1>1, <1>3, <1>5, <1>6, <1>7 DEF Custody

RecordInv == TrackedIsRecorded /\ \A p \in Pollers : Custody(p)

(* Enqueue in its three cases.                                             *)
Creates(p) ==
  /\ Content(p) \notin docs /\ docs' = docs \cup {Content(p)}
  /\ pc' = [pc EXCEPT ![p] = "job"]
  /\ UNCHANGED <<sel, got, todo, cur, read, attachments, cancelled, failed>>

LEMMA EnqueueCases ==
  ASSUME NEW p, Enqueue(p)
  PROVE  /\ pc[p] = "enqueue" /\ jobs' = jobs
         /\ \/ Drop(p) /\ docs' = docs
            \/ Content(p) \in docs /\ NextPart(p) /\ docs' = docs
            \/ Creates(p)
BY DEF Enqueue, Creates, Goto

(* The document of an attachment is created.                               *)
LEMMA CreatesAtJob ==
  ASSUME TypeInv, NEW p \in Pollers, Creates(p)
  PROVE  pc'[p] = "job" /\ Msg(p)' = Msg(p) /\ Content(p)' = Content(p)
<1>1. pc'[p] = "job"
  BY DEF Creates, TypeInv, PollTypes
<1>2. got' = got /\ cur' = cur /\ attachments' = attachments
  BY DEF Creates
<1> QED BY <1>1, <1>2 DEF Content, Msg

(* A poller's own steps.                                                   *)
LEMMA CustodyKept ==
  ASSUME TypeInv, NEW p \in Pollers, Custody(p), Step(p) \/ Disturb(p)
  PROVE  Custody(p)'
<1> USE DEF TypeInv, PollTypes
<1>1. CASE Select(p)
  BY <1>1, CustodyIdle DEF Select, Goto
<1>2. CASE Fetch(p)
  BY <1>2, CustodyIdle DEF Fetch, Goto
<1>3. CASE Check(p)
  <2>1. /\ pc'[p] \in {"check", "cursor", "save"}
        /\ pc'[p] = "save" => read'[p] = 0
    BY <1>3 DEF Check, NextMessage, Goto, Place, Processing
  <2> QED BY <2>1 DEF Custody
<1>4. CASE SavePart(p)
  <2>1. CASE Drop(p)
    BY <2>1, CustodyIdle DEF Drop, NextMessage, Goto
  <2>2. CASE ~ Drop(p)
    <3>1. /\ pc[p] = "save" /\ pc' = pc /\ cancelled' = cancelled /\ Msg(p)' = Msg(p)
          /\ read'[p] = read[p] + 1 /\ MoreParts(p) /\ Upcoming(p).decodes
          /\ attachments'[p] = Append(attachments[p], Upcoming(p).content)
      BY <1>4, <2>2 DEF SavePart, Msg
    <3>2. attachments[p] \in Seq(Contents) /\ Upcoming(p).content \in Contents
      BY <3>1, UpcomingAt DEF Attachment
    <3>3. \A c : c = Upcoming(p).content \/ Waits(p, c) => Waits(p, c)'
      <4> DEFINE s == attachments[p]
                 e == Upcoming(p).content
      <4>1. s \in Seq(Contents) /\ e \in Contents /\ attachments'[p] = Append(s, e)
        BY <3>1, <3>2
      <4> HIDE DEF s, e
      <4>2. /\ Len(s) + 1 \in DOMAIN Append(s, e) /\ Append(s, e)[Len(s) + 1] = e
            /\ \A k \in DOMAIN s : k \in DOMAIN Append(s, e) /\ Append(s, e)[k] = s[k]
        BY <4>1, AppendProperties
      <4>3. \A c : (\E k \in DOMAIN s : s[k] = c) => \E k \in DOMAIN attachments'[p] : attachments'[p][k] = c
        BY <4>1, <4>2
      <4>4. \E k \in DOMAIN attachments'[p] : attachments'[p][k] = e
        BY <4>1, <4>2
      <4> QED BY <4>3, <4>4 DEF Waits, s, e
    <3>4. \A i \in 1..(read[p] + 1) : i \in 1..read[p] \/ i = read[p] + 1
      OBVIOUS
    <3>5. ASSUME ~ cancelled[p], NEW i \in 1..(read[p] + 1), i \in Decodable(Msg(p)),
                 NEW c, c = Parts[Msg(p)][i].content
          PROVE  Waits(p, c)'
      <4>1. c = Upcoming(p).content \/ Waits(p, c)
        BY <3>1, <3>4, <3>5 DEF Custody, Upcoming
      <4> QED BY <3>3, <4>1
    <3> QED BY <3>1, <3>5 DEF Custody
  <2> QED BY <2>1, <2>2
<1>5. CASE EndOfParts(p)
  <2>1. /\ pc[p] = "save" /\ (~ MoreParts(p) \/ cancelled[p])
        /\ pc'[p] = IF attachments[p] = <<>> THEN "act" ELSE "enqueue"
        /\ UNCHANGED <<cancelled, attachments, docs>> /\ Msg(p)' = Msg(p)
    BY <1>5 DEF EndOfParts, Goto, Msg, storeVars
  <2>2. ~ MoreParts(p) => \A i \in Decodable(Msg(p)) : i \in 1..read[p]
    BY <2>1, MessageAt DEF MoreParts, Decodable, Processing
  <2>3. ~ cancelled[p] => \A c \in ContentsOf(Msg(p)) : Waits(p, c)
    BY <2>1, <2>2 DEF Custody, ContentsOf
  <2>4. attachments[p] = <<>> => \A c : ~ Waits(p, c)
    BY DEF Waits
  <2>5. \A c : Waits(p, c) => Waits(p, c)'
    BY <2>1 DEF Waits
  <2>6. pc'[p] = "act" /\ ~ cancelled'[p] => Recorded(Msg(p))'
    BY <2>1, <2>3, <2>4 DEF Recorded
  <2> QED BY <2>1, <2>3, <2>5, <2>6 DEF Custody
<1>6. CASE Enqueue(p)
  <2>1. CASE Drop(p)
    BY <2>1, CustodyIdle DEF Drop, NextMessage, Goto
  <2>2. CASE NextPart(p) /\ Content(p) \in docs /\ docs' = docs
    <3>1. pc[p] \in {"enqueue", "job"}
      BY <1>6, EnqueueCases
    <3> HIDE DEF TypeInv, PollTypes
    <3> QED BY <2>2, <3>1, CustodyNextPart
  <2>3. CASE Creates(p)
    <3> HIDE DEF TypeInv, PollTypes
    <3>1. Msg(p)' = Msg(p) /\ Content(p)' = Content(p) /\ pc'[p] = "job" /\ pc[p] = "enqueue"
      BY <1>6, <2>3, EnqueueCases, CreatesAtJob
    <3>2. docs' = docs \cup {Content(p)} /\ UNCHANGED <<attachments, cancelled>>
      BY <2>3 DEF Creates
    <3>3. Content(p) \in docs' /\ docs \subseteq docs'
      BY <3>2
    <3>4. \A c : Waits(p, c) => Waits(p, c)'
      BY <3>2 DEF Waits
    <3>5. ~ cancelled[p] => \A c \in ContentsOf(Msg(p)) : c \in docs \/ Waits(p, c)
      BY <3>1 DEF Custody
    <3> QED BY <3>1, <3>2, <3>3, <3>4, <3>5 DEF Custody
  <2> HIDE DEF TypeInv, PollTypes
  <2> QED BY <1>6, <2>1, <2>2, <2>3, EnqueueCases
<1>7. CASE EnqueueJob(p)
  BY <1>7, CustodyNextPart DEF EnqueueJob, Custody
<1>8. CASE MarkSeen(p)
  <2>1. /\ pc[p] = "act" /\ pc'[p] = "track" /\ Msg(p)' = Msg(p)
        /\ UNCHANGED <<cancelled, docs>>
    BY <1>8 DEF MarkSeen, Goto, Msg, storeVars
  <2> QED BY <2>1, RecordedGrows DEF Custody, Recorded, ContentsOf
<1>9. CASE Move(p)
  <2>1. CASE Drop(p)
    BY <2>1, CustodyIdle DEF Drop, NextMessage, Goto
  <2>2. CASE ~ Drop(p)
    <3>1. /\ pc[p] = "act" /\ pc'[p] = "track" /\ Msg(p)' = Msg(p)
          /\ UNCHANGED <<cancelled, docs>>
      BY <1>9, <2>2 DEF Move, Goto, Msg, storeVars
    <3> QED BY <3>1 DEF Custody, Recorded, ContentsOf
  <2> QED BY <2>1, <2>2
<1>10. CASE Track(p)
  BY <1>10, CustodyIdle DEF Track, NextMessage, Goto
<1>11. CASE SaveCursor(p)
  BY <1>11, CustodyIdle DEF SaveCursor, Disconnect, Goto
<1>12. CASE Abandon(p)
  BY <1>12, CustodyIdle DEF Abandon, Disconnect, Goto
<1>13. CASE PollFails(p)
  BY <1>13, CustodyIdle DEF PollFails, Disconnect, Goto
<1>14. CASE MessageFails(p)
  BY <1>14, CustodyIdle DEF MessageFails, Drop, NextMessage, Goto
<1>15. CASE ActionFails(p)
  BY <1>15, CustodyIdle DEF ActionFails, Drop, NextMessage, Goto
<1>16. CASE Crash(p)
  BY <1>16, CustodyIdle DEF Crash, Disconnect, Goto
<1>17. CASE Shutdown(p)
  <2>1. /\ cancelled'[p] = TRUE /\ Msg(p)' = Msg(p) /\ Content(p)' = Content(p)
        /\ UNCHANGED <<pc, read, attachments, docs>>
    BY <1>17 DEF Shutdown, Msg, Content, storeVars
  <2> QED BY <2>1 DEF Custody
<1>21. CASE SkipPart(p)
  <2>1. /\ pc[p] = "save" /\ pc' = pc /\ cancelled' = cancelled /\ Msg(p)' = Msg(p)
        /\ read'[p] = read[p] + 1 /\ MoreParts(p) /\ ~ Upcoming(p).decodes
        /\ attachments' = attachments
    BY <1>21 DEF SkipPart, Msg
  <2>2. \A i \in 1..(read[p] + 1) : i \in Decodable(Msg(p)) => i \in 1..read[p]
    BY <2>1 DEF Decodable, Upcoming
  <2>3. \A c : Waits(p, c) => Waits(p, c)'
    BY <2>1 DEF Waits
  <2> QED BY <2>1, <2>2, <2>3 DEF Custody
<1>22. CASE SavingFails(p)
  BY <1>22, CustodyIdle DEF SavingFails, Drop, NextMessage, Goto
<1> QED BY <1>1, <1>2, <1>3, <1>4, <1>5, <1>6, <1>7, <1>8, <1>9, <1>10, <1>11, <1>12, <1>13, <1>14, <1>15, <1>16, <1>17, <1>21, <1>22 DEF Step, Disturb

(* No other step than Track adds to what is tracked.                       *)
LEMMA OnlyTrack ==
  ASSUME NEW p \in Pollers, Step(p) \/ Disturb(p), ~ Track(p)
  PROVE  tracked' = tracked
<1> USE DEF storeVars
<1>1. CASE Select(p)
  BY <1>1 DEF Select
<1>2. CASE Fetch(p)
  BY <1>2 DEF Fetch
<1>3. CASE Check(p)
  BY <1>3 DEF Check
<1>4. CASE SavePart(p)
  BY <1>4 DEF SavePart
<1>5. CASE EndOfParts(p)
  BY <1>5 DEF EndOfParts
<1>6. CASE Enqueue(p)
  BY <1>6 DEF Enqueue
<1>7. CASE EnqueueJob(p)
  BY <1>7 DEF EnqueueJob
<1>8. CASE MarkSeen(p)
  BY <1>8 DEF MarkSeen
<1>9. CASE Move(p)
  BY <1>9 DEF Move
<1>10. CASE SaveCursor(p)
  BY <1>10 DEF SaveCursor
<1>11. CASE Abandon(p)
  BY <1>11 DEF Abandon
<1>12. CASE PollFails(p)
  BY <1>12 DEF PollFails
<1>13. CASE MessageFails(p)
  BY <1>13 DEF MessageFails
<1>14. CASE ActionFails(p)
  BY <1>14 DEF ActionFails
<1>15. CASE Crash(p)
  BY <1>15 DEF Crash
<1>16. CASE Shutdown(p)
  BY <1>16 DEF Shutdown
<1>21. CASE SkipPart(p)
  BY <1>21 DEF SkipPart
<1>22. CASE SavingFails(p)
  BY <1>22 DEF SavingFails
<1> QED BY <1>1, <1>2, <1>3, <1>4, <1>5, <1>6, <1>7, <1>8, <1>9, <1>10, <1>11, <1>12, <1>13, <1>14, <1>15, <1>16, <1>21, <1>22 DEF Step, Disturb

LEMMA RecordInvariant == Spec => []RecordInv
<1>1. Init => RecordInv
  BY DEF Init, RecordInv, TrackedIsRecorded, Custody
<1>2. TypeInv /\ RecordInv /\ [Next]_vars => RecordInv'
  <2> SUFFICES ASSUME TypeInv, RecordInv, [Next]_vars
               PROVE  RecordInv'
    OBVIOUS
  <2>1. ASSUME NEW p \in Pollers, Step(p) \/ Disturb(p)
        PROVE  RecordInv'
    <3>1. docs \subseteq docs'
      BY <2>1, DocsGrow
    <3>2. \A q \in Pollers : Custody(q)'
      BY <2>1, <3>1, CustodyKept, CustodyStays, OthersApart DEF RecordInv
    <3>3. ASSUME NEW m \in Messages \ Anonymous, <<"id", m>> \in tracked'
          PROVE  Recorded(m)'
      <4>1. CASE <<"id", m>> \in tracked
        BY <3>1, <4>1, RecordedGrows DEF RecordInv, TrackedIsRecorded
      <4>2. CASE <<"id", m>> \notin tracked
        <5>1. Track(p)
          BY <2>1, <3>3, <4>2, OnlyTrack
        <5>2. <<"id", m>> = MsgId(p)
          BY <3>3, <4>2, <5>1 DEF Track
        <5>3. m = Msg(p)
          BY <5>2 DEF MsgId, Id
        <5>4. Recorded(m)
          BY <5>1, <5>3 DEF Track, RecordInv, Custody
        <5> QED BY <3>1, <5>4, RecordedGrows
      <4> QED BY <4>1, <4>2
    <3> QED BY <3>2, <3>3 DEF RecordInv, TrackedIsRecorded
  <2>2. ASSUME (\E m \in Messages : Arrive(m)) \/ (\E i \in 1..Size : Delete(i)) \/ Renumber \/ UNCHANGED vars
        PROVE  RecordInv'
    <3>1. docs' = docs /\ tracked' = tracked
      BY <2>2, ServerApart, ServerStore DEF storeVars
    <3>2. \A q \in Pollers : Custody(q)'
      BY <2>2, <3>1, ServerApart, CustodyStays DEF RecordInv
    <3> QED BY <3>1, <3>2, RecordedGrows DEF RecordInv, TrackedIsRecorded
  <2> QED BY <2>1, <2>2 DEF Next
<1> QED BY <1>1, <1>2, TypeInvariant, PTL DEF Spec

(* However polls of any number of processes, faults and new messages       *)
(* interleave: what TrackMailMessage has recorded is never a message with  *)
(* an attachment that has no document (mail.go:426-527).                   *)
THEOREM TrackingFollowsRecording == Spec => []TrackedIsRecorded
<1>1. RecordInv => TrackedIsRecorded
  BY DEF RecordInv
<1> QED BY <1>1, RecordInvariant, PTL

-----------------------------------------------------------------------------
(* A content gets one job.  The poller that is about to enqueue it is the  *)
(* only one to be, and a poller that is being stopped has its message      *)
(* among the failed ones.                                                  *)
AtJob(p) == pc[p] = "job"
Owners ==
  /\ \A p \in Pollers : AtJob(p) => jobs[Content(p)] = 0 /\ Content(p) \in docs
  /\ \A p, q \in Pollers : AtJob(p) /\ AtJob(q) /\ p # q => Content(p) # Content(q)
Stopped(p) == cancelled[p] /\ pc[p] \in Processing => Msg(p) \in failed

JobInv == DocumentHasItsJob /\ Owners /\ \A p \in Pollers : Stopped(p)

(* A step of p that touches no document and no job, and leaves an unfinished *)
(* job only with its message among the failed ones.                        *)
NoJob(p) ==
  /\ docs' = docs /\ jobs' = jobs /\ failed \subseteq failed'
  /\ AtJob(p)' => AtJob(p) /\ Content(p)' = Content(p)
  /\ AtJob(p) => AtJob(p)' \/ Msg(p) \in failed'

LEMMA NoJobKeeps ==
  ASSUME TypeInv, NEW p \in Pollers, DocumentHasItsJob, Owners, NoJob(p),
         \A q \in Pollers \ {p} : Apart(q)
  PROVE  DocumentHasItsJob' /\ Owners'
<1>1. \A q \in Pollers \ {p} : (AtJob(q)' <=> AtJob(q)) /\ Content(q)' = Content(q)
  BY DEF Apart, AtJob, Content, Msg
<1>2. \A q \in Pollers : AtJob(q)' => AtJob(q) /\ Content(q)' = Content(q)
  BY <1>1 DEF NoJob
<1>3. Owners'
  BY <1>2 DEF Owners, NoJob
<1>4. ASSUME NEW c \in Contents, c \in docs, jobs[c] = 0
      PROVE  \/ \E q \in Pollers : AtJob(q)' /\ Content(q)' = c
             \/ \E m \in failed' : c \in ContentsOf(m)
  <2>1. CASE \E m \in failed : c \in ContentsOf(m)
    BY <2>1 DEF NoJob
  <2>2. CASE \E q \in Pollers : pc[q] = "job" /\ Content(q) = c
    <3>1. PICK q \in Pollers : AtJob(q) /\ Content(q) = c
      BY <2>2 DEF AtJob
    <3>2. CASE AtJob(q)'
      BY <1>2, <3>1, <3>2
    <3>3. CASE ~ AtJob(q)'
      <4>1. q = p /\ Msg(q) \in failed'
        BY <1>1, <3>1, <3>3 DEF NoJob
      <4>2. c \in ContentsOf(Msg(q))
        BY <3>1, ContentAt DEF AtJob
      <4> QED BY <4>1, <4>2
    <3> QED BY <3>2, <3>3
  <2> QED BY <1>4, <2>1, <2>2 DEF DocumentHasItsJob
<1>5. \A c \in Contents : jobs'[c] <= IF c \in docs' THEN 1 ELSE 0
  BY DEF DocumentHasItsJob, NoJob
<1>6. docs' = docs /\ jobs' = jobs
  BY DEF NoJob
<1>7. ASSUME NEW c \in Contents, c \in docs', jobs'[c] = 0
      PROVE  \/ \E q \in Pollers : (pc[q] = "job" /\ Content(q) = c)'
             \/ \E m \in failed' : c \in ContentsOf(m)
  <2>1. \/ \E q \in Pollers : AtJob(q)' /\ Content(q)' = c
        \/ \E m \in failed' : c \in ContentsOf(m)
    BY <1>4, <1>6, <1>7, Zenon
  <2> QED BY <2>1, Zenon DEF AtJob
<1>8. DocumentHasItsJob'
  BY <1>5, <1>7, Zenon DEF DocumentHasItsJob
<1> QED BY <1>3, <1>8

(* The document is created: its job is due.                                *)
LEMMA CreateKeeps ==
  ASSUME TypeInv, NEW p \in Pollers, DocumentHasItsJob, Owners,
         \A q \in Pollers \ {p} : Apart(q),
         pc[p] = "enqueue", Content(p) \notin docs,
         docs' = docs \cup {Content(p)}, jobs' = jobs, failed' = failed,
         AtJob(p)', Content(p)' = Content(p)
  PROVE  DocumentHasItsJob' /\ Owners'
<1>1. \A q \in Pollers \ {p} : (AtJob(q)' <=> AtJob(q)) /\ Content(q)' = Content(q)
  BY DEF Apart, AtJob, Content, Msg
<1>2. Content(p) \in Contents /\ jobs[Content(p)] \in Nat
  BY ContentAt DEF TypeInv, StoreTypes
<1>3. jobs[Content(p)] = 0
  BY <1>2 DEF DocumentHasItsJob
<1>4. \A q \in Pollers : AtJob(q) => Content(q) # Content(p)
  BY DEF Owners
<1>5. Owners'
  BY <1>1, <1>3, <1>4 DEF Owners
<1>6. ASSUME NEW c \in Contents
      PROVE  /\ jobs'[c] <= IF c \in docs' THEN 1 ELSE 0
             /\ c \in docs' /\ jobs'[c] = 0 =>
                  \/ \E q \in Pollers : AtJob(q)' /\ Content(q)' = c
                  \/ \E m \in failed' : c \in ContentsOf(m)
  <2>1. CASE c = Content(p)
    BY <1>3, <2>1
  <2>2. CASE c # Content(p)
    <3>1. (c \in docs' <=> c \in docs) /\ jobs'[c] = jobs[c]
      BY <2>2
    <3>2. \A q \in Pollers : AtJob(q) => AtJob(q)' /\ Content(q)' = Content(q)
      BY <1>1 DEF AtJob
    <3>3. jobs[c] <= IF c \in docs THEN 1 ELSE 0
      BY DEF DocumentHasItsJob
    <3>4. c \in docs /\ jobs[c] = 0 =>
            \/ \E q \in Pollers : AtJob(q) /\ Content(q) = c
            \/ \E m \in failed : c \in ContentsOf(m)
      BY DEF DocumentHasItsJob, AtJob
    <3> QED BY <3>1, <3>2, <3>3, <3>4
  <2> QED BY <2>1, <2>2
<1>7. DocumentHasItsJob'
  BY <1>6 DEF DocumentHasItsJob, AtJob
<1> QED BY <1>5, <1>7

(* The job is enqueued.                                                    *)
LEMMA EnqueueKeeps ==
  ASSUME TypeInv, NEW p \in Pollers, DocumentHasItsJob, Owners,
         \A q \in Pollers \ {p} : Apart(q), EnqueueJob(p)
  PROVE  DocumentHasItsJob' /\ Owners'
<1>1. \A q \in Pollers \ {p} : (AtJob(q)' <=> AtJob(q)) /\ Content(q)' = Content(q)
  BY DEF Apart, AtJob, Content, Msg
<1>2. /\ AtJob(p) /\ ~ AtJob(p)' /\ docs' = docs /\ failed' = failed
      /\ jobs' = [jobs EXCEPT ![Content(p)] = @ + 1]
  BY DEF EnqueueJob, NextPart, Goto, AtJob, TypeInv, PollTypes
<1>3. Content(p) \in Contents /\ jobs[Content(p)] = 0 /\ Content(p) \in docs
  BY <1>2, ContentAt DEF Owners, AtJob
<1>4. /\ jobs'[Content(p)] = 1
      /\ \A c \in Contents : c # Content(p) => jobs'[c] = jobs[c]
  BY <1>2, <1>3 DEF TypeInv, StoreTypes
<1>5. \A q \in Pollers : AtJob(q)' => q # p /\ AtJob(q) /\ Content(q)' = Content(q)
  BY <1>1, <1>2
<1>6. \A q \in Pollers : AtJob(q) => Content(q) \in Contents
  BY ContentAt DEF AtJob
<1>7. Owners'
  BY <1>2, <1>4, <1>5, <1>6 DEF Owners
<1>8. ASSUME NEW c \in Contents
      PROVE  /\ jobs'[c] <= IF c \in docs' THEN 1 ELSE 0
             /\ c \in docs' /\ jobs'[c] = 0 =>
                  \/ \E q \in Pollers : AtJob(q)' /\ Content(q)' = c
                  \/ \E m \in failed' : c \in ContentsOf(m)
  <2>1. CASE c = Content(p)
    BY <1>2, <1>3, <1>4, <2>1
  <2>2. CASE c # Content(p)
    <3>1. \A q \in Pollers : AtJob(q) /\ Content(q) = c => AtJob(q)' /\ Content(q)' = c
      BY <1>1, <2>2
    <3> QED BY <1>2, <1>4, <2>2, <3>1 DEF DocumentHasItsJob, AtJob
  <2> QED BY <2>1, <2>2
<1> QED BY <1>7, <1>8 DEF DocumentHasItsJob, AtJob

(* A poller's own steps.                                                   *)
LEMMA StoppedKept ==
  ASSUME TypeInv, NEW p \in Pollers, Stopped(p), Step(p) \/ Disturb(p)
  PROVE  Stopped(p)' /\ failed \subseteq failed'
<1> USE DEF TypeInv, PollTypes, Stopped, Processing
<1>1. CASE Select(p)
  BY <1>1 DEF Select, Goto
<1>2. CASE Fetch(p)
  BY <1>2 DEF Fetch, Goto
<1>3. CASE Check(p)
  BY <1>3 DEF Check, NextMessage, Goto
<1>4. CASE SavePart(p)
  BY <1>4 DEF SavePart, Drop, NextMessage, Goto, Msg
<1>5. CASE EndOfParts(p)
  BY <1>5 DEF EndOfParts, Goto, Msg
<1>6. CASE Enqueue(p)
  BY <1>6 DEF Enqueue, Drop, NextMessage, NextPart, Goto, Msg
<1>7. CASE EnqueueJob(p)
  BY <1>7 DEF EnqueueJob, NextPart, Goto, Msg
<1>8. CASE MarkSeen(p)
  BY <1>8 DEF MarkSeen, Goto, Msg
<1>9. CASE Move(p)
  BY <1>9 DEF Move, Drop, NextMessage, Goto, Msg
<1>10. CASE Track(p)
  BY <1>10 DEF Track, NextMessage, Goto
<1>11. CASE SaveCursor(p)
  BY <1>11 DEF SaveCursor, Disconnect, Goto
<1>12. CASE Abandon(p)
  BY <1>12 DEF Abandon, Disconnect, Goto
<1>13. CASE PollFails(p)
  BY <1>13 DEF PollFails, Disconnect, Goto
<1>14. CASE MessageFails(p)
  BY <1>14 DEF MessageFails, Drop, NextMessage, Goto
<1>15. CASE ActionFails(p)
  BY <1>15 DEF ActionFails, Drop, NextMessage, Goto
<1>16. CASE Crash(p)
  BY <1>16 DEF Crash, Disconnect, Goto, Hit
<1>17. CASE Shutdown(p)
  BY <1>17 DEF Shutdown, Hit, Msg
<1>21. CASE SkipPart(p)
  BY <1>21 DEF SkipPart, Msg
<1>22. CASE SavingFails(p)
  BY <1>22 DEF SavingFails, Drop, NextMessage, Goto
<1> QED BY <1>1, <1>2, <1>3, <1>4, <1>5, <1>6, <1>7, <1>8, <1>9, <1>10, <1>11, <1>12, <1>13, <1>14, <1>15, <1>16, <1>17, <1>21, <1>22 DEF Step, Disturb

LEMMA NoJobSteps ==
  ASSUME TypeInv, NEW p \in Pollers, Stopped(p), Step(p) \/ Disturb(p),
         ~ Enqueue(p), ~ EnqueueJob(p)
  PROVE  NoJob(p)
<1> USE DEF TypeInv, PollTypes, Stopped, Processing, NoJob, AtJob, storeVars
<1>1. CASE Select(p)
  BY <1>1 DEF Select, Goto
<1>2. CASE Fetch(p)
  BY <1>2 DEF Fetch, Goto
<1>3. CASE Check(p)
  BY <1>3 DEF Check, NextMessage, Goto
<1>4. CASE SavePart(p)
  BY <1>4 DEF SavePart, Drop, NextMessage, Goto
<1>5. CASE EndOfParts(p)
  BY <1>5 DEF EndOfParts, Goto, Msg
<1>6. CASE MarkSeen(p)
  BY <1>6 DEF MarkSeen, Goto, Msg
<1>7. CASE Move(p)
  BY <1>7 DEF Move, Drop, NextMessage, Goto, Msg
<1>8. CASE Track(p)
  BY <1>8 DEF Track, NextMessage, Goto
<1>9. CASE SaveCursor(p)
  BY <1>9 DEF SaveCursor, Disconnect, Goto
<1>10. CASE Abandon(p)
  BY <1>10 DEF Abandon, Disconnect, Goto
<1>11. CASE PollFails(p)
  BY <1>11 DEF PollFails, Disconnect, Goto
<1>12. CASE MessageFails(p)
  BY <1>12 DEF MessageFails, Drop, NextMessage, Goto
<1>13. CASE ActionFails(p)
  BY <1>13 DEF ActionFails, Drop, NextMessage, Goto
<1>14. CASE Crash(p)
  BY <1>14 DEF Crash, Disconnect, Goto, Hit
<1>15. CASE Shutdown(p)
  BY <1>15 DEF Shutdown, Hit, Msg, Content
<1>21. CASE SkipPart(p)
  BY <1>21 DEF SkipPart
<1>22. CASE SavingFails(p)
  BY <1>22 DEF SavingFails, Drop, NextMessage, Goto
<1> QED BY <1>1, <1>2, <1>3, <1>4, <1>5, <1>6, <1>7, <1>8, <1>9, <1>10, <1>11, <1>12, <1>13, <1>14, <1>15, <1>21, <1>22 DEF Step, Disturb

LEMMA JobInvariant == Spec => []JobInv
<1>1. Init => JobInv
  BY DEF Init, JobInv, DocumentHasItsJob, Owners, AtJob, Stopped
<1>2. TypeInv /\ JobInv /\ [Next]_vars => JobInv'
  <2> SUFFICES ASSUME TypeInv, JobInv, [Next]_vars
               PROVE  JobInv'
    OBVIOUS
  <2>1. ASSUME NEW p \in Pollers, Step(p) \/ Disturb(p)
        PROVE  JobInv'
    <3>1. \A q \in Pollers \ {p} : Apart(q)
      BY <2>1, OthersApart
    <3>2. Stopped(p)' /\ failed \subseteq failed'
      BY <2>1, StoppedKept DEF JobInv
    <3>3. \A q \in Pollers \ {p} : Stopped(q)'
      BY <3>1, <3>2 DEF JobInv, Stopped, Apart, Msg
    <3>4. DocumentHasItsJob' /\ Owners'
      <4>1. CASE EnqueueJob(p)
        BY <3>1, <4>1, EnqueueKeeps DEF JobInv
      <4>2. CASE Enqueue(p)
        <5>1. CASE Drop(p) \/ NextPart(p)
          <6>1. NoJob(p)
            BY <4>2, <5>1
               DEF Enqueue, NoJob, AtJob, Drop, NextMessage, NextPart, Goto, TypeInv, PollTypes
          <6> QED BY <3>1, <6>1, NoJobKeeps DEF JobInv
        <5>2. CASE Creates(p)
          <6>1. pc[p] = "enqueue" /\ jobs' = jobs
            BY <4>2, EnqueueCases
          <6>2. AtJob(p)' /\ Content(p)' = Content(p)
            BY <5>2, CreatesAtJob DEF AtJob
          <6>3. Content(p) \notin docs /\ docs' = docs \cup {Content(p)} /\ failed' = failed
            BY <5>2 DEF Creates
          <6>4. DocumentHasItsJob /\ Owners /\ TypeInv
            BY DEF JobInv
          <6> QED BY <3>1, <6>1, <6>2, <6>3, <6>4, CreateKeeps
        <5> QED BY <4>2, <5>1, <5>2, EnqueueCases
      <4>3. CASE ~ Enqueue(p) /\ ~ EnqueueJob(p)
        <5>1. NoJob(p)
          BY <2>1, <3>1, <4>3, NoJobSteps DEF JobInv
        <5>2. DocumentHasItsJob /\ Owners /\ TypeInv
          BY DEF JobInv
        <5> QED BY <3>1, <5>1, <5>2, NoJobKeeps
      <4> QED BY <4>1, <4>2, <4>3
    <3> QED BY <3>2, <3>3, <3>4 DEF JobInv
  <2>2. ASSUME (\E m \in Messages : Arrive(m)) \/ (\E i \in 1..Size : Delete(i)) \/ Renumber \/ UNCHANGED vars
        PROVE  JobInv'
    <3>1. UNCHANGED <<storeVars, pollVars, failed>>
      BY <2>2, ServerStore
    <3>2. /\ docs' = docs /\ jobs' = jobs /\ failed' = failed /\ pc' = pc /\ cancelled' = cancelled
          /\ got' = got /\ cur' = cur /\ attachments' = attachments
      BY <3>1, Zenon DEF storeVars, pollVars
    <3>3. \A q \in Pollers : /\ AtJob(q)' = AtJob(q) /\ Content(q)' = Content(q)
                            /\ (pc[q] = "job")' = (pc[q] = "job") /\ Stopped(q)' = Stopped(q)
      BY <3>2, Zenon DEF AtJob, Content, Msg, Stopped
    <3>4. DocumentHasItsJob'
      <4>1. DocumentHasItsJob
        BY DEF JobInv
      <4>2. \A q \in Pollers : pc'[q] = pc[q] /\ Content(q)' = Content(q)
        BY <3>2, <3>3
      <4>3. ASSUME NEW c \in Contents, c \in docs', jobs'[c] = 0
            PROVE  \/ \E q \in Pollers : (pc[q] = "job" /\ Content(q) = c)'
                   \/ \E m \in failed' : c \in ContentsOf(m)
        <5>1. \/ \E q \in Pollers : pc[q] = "job" /\ Content(q) = c
              \/ \E m \in failed : c \in ContentsOf(m)
          BY <3>2, <4>1, <4>3, Zenon DEF DocumentHasItsJob
        <5> QED BY <3>2, <4>2, <5>1, Zenon
      <4>4. \A c \in Contents : jobs'[c] <= IF c \in docs' THEN 1 ELSE 0
        BY <3>2, <4>1 DEF DocumentHasItsJob
      <4> QED BY <4>3, <4>4, Zenon DEF DocumentHasItsJob
    <3>5. Owners' /\ \A q \in Pollers : Stopped(q)'
      BY <3>2, <3>3 DEF JobInv, Owners
    <3> QED BY <3>4, <3>5, Zenon DEF JobInv
  <2> QED BY <2>1, <2>2 DEF Next
<1> QED BY <1>1, <1>2, TypeInvariant, PTL DEF Spec

(* However polls interleave, an attachment's content is enqueued at most   *)
(* once, and a document whose job was never enqueued comes from a message  *)
(* an error, a crash or a shutdown cut off (mail.go:539-570).              *)
THEOREM OneJobPerContent == Spec => []DocumentHasItsJob
<1>1. JobInv => DocumentHasItsJob
  BY DEF JobInv
<1> QED BY <1>1, JobInvariant, PTL

-----------------------------------------------------------------------------
(* The types of everything else: what one step of a poller changes, then   *)
(* the invariant.                                                          *)
FieldTypes ==
  /\ uid \in [Messages -> Nat] /\ uidNext \in Nat \ {0} /\ validity \in 1..MaxValidity + 1
  /\ seen \subseteq Messages /\ moved \subseteq Messages
  /\ tracked \subseteq Ids /\ cursor \in [validity : Nat, uid : Nat]
  /\ files \subseteq Ids \X Names
  /\ failed \subseteq Messages /\ faults \in 0..MaxFaults
SessionTypes ==
  /\ sel \in [Pollers -> [validity : Nat, next : Nat, start : Nat]]
  /\ live \in [Pollers -> Seq(Messages)]
  /\ \A p \in Pollers : pc[p] # "idle" => sel[p].next >= 1
  /\ Action = "mark_seen" => live = got

FullTypes == FieldTypes /\ SessionTypes

(* Each part of the state has one step that changes it.                    *)
LEMMA StepChanges ==
  ASSUME NEW p \in Pollers, Step(p) \/ Disturb(p)
  PROVE  /\ UNCHANGED <<uid, uidNext, validity>>
         /\ MarkSeen(p) \/ seen' = seen
         /\ Move(p) \/ (box' = box /\ moved' = moved)
         /\ Track(p) \/ tracked' = tracked
         /\ SaveCursor(p) \/ cursor' = cursor
         /\ files' = files \/ (pc[p] = "save" /\ MoreParts(p) /\ files' = files \cup {File(p)})
         /\ failed' = failed \/ (failed' = failed \cup {Msg(p)} /\ pc[p] \in Processing)
         /\ faults' = faults \/ (faults < MaxFaults /\ faults' = faults + 1)
<1> USE DEF storeVars, serverVars, Processing
<1>1. CASE Select(p)
  BY <1>1 DEF Select
<1>2. CASE Fetch(p)
  BY <1>2 DEF Fetch
<1>3. CASE Check(p)
  BY <1>3 DEF Check
<1>4. CASE SavePart(p)
  BY <1>4 DEF SavePart, Drop
<1>5. CASE EndOfParts(p)
  BY <1>5 DEF EndOfParts
<1>6. CASE Enqueue(p)
  BY <1>6 DEF Enqueue, Drop, NextPart
<1>7. CASE EnqueueJob(p)
  BY <1>7 DEF EnqueueJob, NextPart
<1>8. CASE MarkSeen(p)
  BY <1>8 DEF MarkSeen
<1>9. CASE Move(p)
  BY <1>9 DEF Move, Drop
<1>10. CASE Track(p)
  BY <1>10 DEF Track
<1>11. CASE SaveCursor(p)
  BY <1>11 DEF SaveCursor
<1>12. CASE Abandon(p)
  BY <1>12 DEF Abandon
<1>13. CASE PollFails(p)
  BY <1>13 DEF PollFails, Fault
<1>14. CASE MessageFails(p)
  BY <1>14 DEF MessageFails, Fault, Drop
<1>15. CASE ActionFails(p)
  BY <1>15 DEF ActionFails, Fault, Drop
<1>16. CASE Crash(p)
  BY <1>16 DEF Crash, Fault, Hit
<1>17. CASE Shutdown(p)
  BY <1>17 DEF Shutdown, Fault, Hit
<1>21. CASE SkipPart(p)
  BY <1>21 DEF SkipPart
<1>22. CASE SavingFails(p)
  BY <1>22 DEF SavingFails, Fault, Drop
<1> QED BY <1>1, <1>2, <1>3, <1>4, <1>5, <1>6, <1>7, <1>8, <1>9, <1>10, <1>11, <1>12, <1>13, <1>14, <1>15, <1>16, <1>17, <1>21, <1>22 DEF Step, Disturb

(* A session begins with Select, takes the folder with Fetch, and ends.    *)
LEMMA SessionChanges ==
  ASSUME TypeInv, NEW p \in Pollers, Step(p) \/ Disturb(p)
  PROVE  \/ Select(p) \/ Fetch(p) \/ Disconnect(p)
         \/ Move(p) /\ UNCHANGED <<sel, got>> /\ pc[p] # "idle"
         \/ UNCHANGED <<sel, got, live>> /\ pc[p] # "idle"
<1>1. CASE Select(p)
  BY <1>1
<1>2. CASE Fetch(p)
  BY <1>2
<1>3. CASE Check(p)
  BY <1>3 DEF Check, NextMessage
<1>4. CASE SavePart(p)
  BY <1>4 DEF SavePart, Drop, NextMessage
<1>5. CASE EndOfParts(p)
  BY <1>5 DEF EndOfParts
<1>6. CASE Enqueue(p)
  BY <1>6 DEF Enqueue, Drop, NextPart, NextMessage
<1>7. CASE EnqueueJob(p)
  BY <1>7 DEF EnqueueJob, NextPart
<1>8. CASE MarkSeen(p)
  BY <1>8 DEF MarkSeen
<1>9. CASE Move(p)
  BY <1>9 DEF Move, Drop, NextMessage
<1>10. CASE Track(p)
  BY <1>10 DEF Track, NextMessage
<1>11. CASE SaveCursor(p)
  BY <1>11 DEF SaveCursor
<1>12. CASE Abandon(p)
  BY <1>12 DEF Abandon
<1>13. CASE PollFails(p)
  BY <1>13 DEF PollFails
<1>14. CASE MessageFails(p)
  BY <1>14 DEF MessageFails, Drop, NextMessage, Processing
<1>15. CASE ActionFails(p)
  BY <1>15 DEF ActionFails, Drop, NextMessage
<1>16. CASE Crash(p)
  BY <1>16 DEF Crash
<1>17. CASE Shutdown(p)
  BY <1>17 DEF Shutdown
<1>21. CASE SkipPart(p)
  BY <1>21 DEF SkipPart
<1>22. CASE SavingFails(p)
  BY <1>22 DEF SavingFails, Drop, NextMessage
<1> QED BY <1>1, <1>2, <1>3, <1>4, <1>5, <1>6, <1>7, <1>8, <1>9, <1>10, <1>11, <1>12, <1>13, <1>14, <1>15, <1>16, <1>17, <1>21, <1>22 DEF Step, Disturb

LEMMA FieldTypesKept ==
  ASSUME TypeInv, FieldTypes, SessionTypes, NEW p \in Pollers, Step(p) \/ Disturb(p)
  PROVE  FieldTypes'
<1>2. pc[p] \in Processing => MsgId(p) \in Ids /\ Msg(p) \in Messages
  <2> SUFFICES ASSUME pc[p] \in Processing
               PROVE  MsgId(p) \in Ids /\ Msg(p) \in Messages
    OBVIOUS
  <2>1. Msg(p) \in Messages /\ cur[p] \in Nat
    BY MessageAt DEF TypeInv, PollTypes
  <2> QED BY <2>1 DEF MsgId, Id, Ids
<1>3. seen' \subseteq Messages
  <2>1. CASE MarkSeen(p)
    <3>1. live[p][cur[p]] = Msg(p) /\ pc[p] \in Processing
      BY <2>1 DEF MarkSeen, SessionTypes, Msg, Processing
    <3> QED BY <1>2, <2>1, <3>1 DEF MarkSeen, FieldTypes
  <2> QED BY StepChanges, <2>1 DEF FieldTypes
<1>4. moved' \subseteq Messages
  <2>1. CASE Move(p)
    <3>1. moved' = moved \/ \E m : InBox(m) /\ moved' = moved \cup {m}
      BY <2>1 DEF Move
    <3>2. \A m : InBox(m) => m \in Messages
      BY ElementOfSeq DEF InBox, TypeInv, StoreTypes
    <3> QED BY <3>1, <3>2 DEF FieldTypes
  <2> QED BY StepChanges, <2>1 DEF FieldTypes
<1>5. tracked' \subseteq Ids
  BY StepChanges, <1>2 DEF Track, FieldTypes, Processing
<1>6. cursor' \in [validity : Nat, uid : Nat]
  <2>1. CASE SaveCursor(p)
    <3>1. /\ sel[p].validity \in Nat /\ sel[p].next \in Nat /\ sel[p].next >= 1
          /\ cursor' = [validity |-> sel[p].validity, uid |-> sel[p].next - 1]
      BY <2>1 DEF SaveCursor, SessionTypes
    <3> QED BY <3>1
  <2> QED BY StepChanges, <2>1 DEF FieldTypes
<1>7. files' \subseteq Ids \X Names
  <2>1. CASE pc[p] = "save" /\ MoreParts(p) /\ files' = files \cup {File(p)}
    <3>1. MsgId(p) \in Ids
      BY <1>2, <2>1 DEF Processing
    <3>2. Upcoming(p).name \in Names
      BY <2>1, UpcomingAt DEF Attachment
    <3> QED BY <2>1, <3>1, <3>2 DEF File, FieldTypes
  <2> QED BY StepChanges, <2>1 DEF FieldTypes
<1>8. failed' \subseteq Messages /\ faults' \in 0..MaxFaults
  <2>1. \/ failed' = failed
        \/ failed' = failed \cup {Msg(p)} /\ pc[p] \in Processing
    BY StepChanges, Zenon
  <2>2. faults' = faults \/ (faults < MaxFaults /\ faults' = faults + 1)
    BY StepChanges, Zenon
  <2>3. failed' \subseteq Messages
    BY <1>2, <2>1 DEF FieldTypes
  <2>4. faults' \in 0..MaxFaults
    BY <2>2, MailAssumption DEF FieldTypes
  <2> QED BY <2>3, <2>4
<1> QED BY StepChanges, <1>3, <1>4, <1>5, <1>6, <1>7, <1>8 DEF FieldTypes

LEMMA SessionTypesKept ==
  ASSUME TypeInv, TypeInv', FieldTypes, SessionTypes, NEW p \in Pollers, Step(p) \/ Disturb(p)
  PROVE  SessionTypes'
<1>1. \A q \in Pollers : q # p => pc'[q] = pc[q]
  BY OthersApart DEF Apart
<1>2. CASE Select(p)
  <2>1. /\ sel' = [sel EXCEPT ![p] =
             [validity |-> validity, next |-> uidNext,
              start |-> IF cursor.validity = validity THEN cursor.uid + 1 ELSE 1]]
        /\ live' = live /\ got' = got
    BY <1>2 DEF Select
  <2>2. /\ validity \in Nat /\ uidNext \in Nat /\ uidNext >= 1 /\ cursor.uid \in Nat
    BY MailAssumption DEF FieldTypes
  <2>3. sel' \in [Pollers -> [validity : Nat, next : Nat, start : Nat]]
    BY <2>1, <2>2 DEF SessionTypes
  <2>4. sel'[p].next = uidNext /\ \A q \in Pollers : q # p => sel'[q] = sel[q]
    BY <2>1 DEF SessionTypes
  <2> QED BY <1>1, <2>1, <2>2, <2>3, <2>4 DEF SessionTypes
<1>3. CASE Fetch(p)
  <2>1. /\ sel' = sel /\ live' = [live EXCEPT ![p] = box] /\ got' = [got EXCEPT ![p] = box]
        /\ pc[p] = "fetch"
    BY <1>3 DEF Fetch
  <2>2. live' \in [Pollers -> Seq(Messages)]
    BY <2>1 DEF SessionTypes, TypeInv, StoreTypes
  <2> QED BY <1>1, <2>1, <2>2 DEF SessionTypes
<1>4. CASE Disconnect(p)
  <2>1. /\ sel' = [sel EXCEPT ![p] = NoPoll] /\ live' = [live EXCEPT ![p] = <<>>]
        /\ got' = [got EXCEPT ![p] = <<>>] /\ pc'[p] = "idle"
    BY <1>4 DEF Disconnect, Goto, TypeInv, PollTypes
  <2>2. /\ live' \in [Pollers -> Seq(Messages)]
        /\ sel' \in [Pollers -> [validity : Nat, next : Nat, start : Nat]]
        /\ \A q \in Pollers : q # p => sel'[q] = sel[q]
    BY <2>1 DEF SessionTypes, NoPoll
  <2> QED BY <1>1, <2>1, <2>2 DEF SessionTypes
<1>5. CASE Move(p) /\ UNCHANGED <<sel, got>> /\ pc[p] # "idle"
  <2>1. Action # "mark_seen"
    BY <1>5 DEF Move
  <2>2. live' = live \/ (cur[p] \in DOMAIN live[p]
                         /\ live' = [live EXCEPT ![p] = Without(live[p], cur[p])])
    BY <1>5 DEF Move
  <2>3. live' \in [Pollers -> Seq(Messages)]
    <3>1. live[p] \in Seq(Messages)
      BY DEF SessionTypes
    <3>2. cur[p] \in DOMAIN live[p] => Without(live[p], cur[p]) \in Seq(Messages)
      BY <3>1, WithoutSeq
    <3> QED BY <2>2, <3>2 DEF SessionTypes
  <2> QED BY <1>1, <1>5, <2>1, <2>3 DEF SessionTypes
<1>6. CASE UNCHANGED <<sel, got, live>> /\ pc[p] # "idle"
  BY <1>1, <1>6 DEF SessionTypes
<1> QED BY <1>2, <1>3, <1>4, <1>5, <1>6, SessionChanges

LEMMA FullTypesInvariant == Spec => []FullTypes
<1>1. Init => FullTypes
  BY MailAssumption DEF Init, FullTypes, FieldTypes, SessionTypes, NoPoll
<1>2. TypeInv /\ TypeInv' /\ FullTypes /\ [Next]_vars => FullTypes'
  <2> SUFFICES ASSUME TypeInv, TypeInv', FullTypes, [Next]_vars
               PROVE  FullTypes'
    OBVIOUS
  <2>1. ASSUME NEW p \in Pollers, Step(p) \/ Disturb(p)
        PROVE  FullTypes'
    BY <2>1, FieldTypesKept, SessionTypesKept DEF FullTypes
  <2>2. ASSUME NEW m \in Messages, Arrive(m)
        PROVE  FullTypes'
    <3>1. /\ uid' = [uid EXCEPT ![m] = uidNext] /\ uidNext' = uidNext + 1
          /\ UNCHANGED <<validity, seen, moved, tracked, cursor, files, failed, faults>>
          /\ UNCHANGED <<sel, live, got, pc>>
      BY <2>2 DEF Arrive, storeVars, pollVars
    <3> QED BY <3>1 DEF FullTypes, FieldTypes, SessionTypes
  <2>3. ASSUME NEW i \in 1..Size, Delete(i)
        PROVE  FullTypes'
    BY <2>3 DEF Delete, storeVars, pollVars, FullTypes, FieldTypes, SessionTypes
  <2>4. CASE Renumber
    <3>1. /\ validity < MaxValidity /\ validity' = validity + 1 /\ uidNext' = Len(box) + 1
          /\ uid' = [m \in Messages |-> IF InBox(m) THEN Position(m) ELSE uid[m]]
          /\ UNCHANGED <<seen, moved, tracked, cursor, files, failed, faults>>
          /\ UNCHANGED <<sel, live, got, pc>>
      BY <2>4 DEF Renumber, storeVars, pollVars
    <3>2. Len(box) \in Nat /\ \A m : InBox(m) => Position(m) \in Nat
      BY DEF InBox, Position, TypeInv, StoreTypes
    <3>3. uid' \in [Messages -> Nat] /\ uidNext' \in Nat \ {0}
      BY <3>1, <3>2 DEF FullTypes, FieldTypes
    <3>4. validity' \in 1..MaxValidity + 1
      BY <3>1, MailAssumption DEF FullTypes, FieldTypes
    <3> QED BY <3>1, <3>3, <3>4 DEF FullTypes, FieldTypes, SessionTypes
  <2>5. CASE UNCHANGED vars
    BY <2>5 DEF vars, serverVars, storeVars, pollVars, FullTypes, FieldTypes, SessionTypes
  <2> QED BY <2>1, <2>2, <2>3, <2>4, <2>5 DEF Next
<1> QED BY <1>1, <1>2, TypeInvariant, PTL DEF Spec

(* Every variable keeps its type: what the cursor and the flags hold comes *)
(* from a session that is still open (mail.go:349-424).                    *)
THEOREM MailTypes == Spec => []TypeOK
<1>1. TypeInv /\ FullTypes => TypeOK
  BY DEF TypeInv, StoreTypes, PollTypes, Place, FullTypes, FieldTypes, SessionTypes, TypeOK
<1> QED BY <1>1, TypeInvariant, FullTypesInvariant, PTL

-----------------------------------------------------------------------------
(* The cursor.  Of a poll that is under way: what is below its start is    *)
(* settled, and what is between its start and its end is settled or among  *)
(* the messages it has yet to process.                                     *)
Known == Messages \ Anonymous
Settled(m) == Recorded(m) \/ m \in failed

UidInv == \A m \in Messages : InBox(m) => uid[m] \in 1..(uidNext - 1)

CursorInv ==
  /\ \A m \in seen : Settled(m)
  /\ cursor.validity <= validity
  /\ cursor.validity = validity => cursor.uid < uidNext
  /\ CursorPassesOnlySettled

Window(p) ==
  /\ pc[p] # "idle" =>
       /\ sel[p].validity = validity /\ sel[p].next \in 1..uidNext /\ sel[p].start <= uidNext
       /\ \A m \in Known : InBox(m) /\ uid[m] < sel[p].start => Settled(m)
  /\ pc[p] \notin {"idle", "fetch"} =>
       \A m \in Known :
         InBox(m) /\ uid[m] < sel[p].next => Settled(m) \/ \E i \in todo[p] : got[p][i] = m
  /\ pc[p] = "cursor" => todo[p] = {}

PassInv == UidInv /\ CursorInv /\ \A p \in Pollers : Window(p)

(* A message whose action is due has been recorded or given up.            *)
LEMMA ActingSettled ==
  ASSUME NEW p \in Pollers, Custody(p), Stopped(p), cancelled[p] \in BOOLEAN,
         pc[p] \in {"act", "track"}
  PROVE  Settled(Msg(p))
BY DEF Custody, Stopped, Settled, Processing

(* What is settled stays settled.                                          *)
LEMMA SettledStays ==
  ASSUME NEW m, docs \subseteq docs', failed \subseteq failed', Settled(m)
  PROVE  Settled(m)'
BY RecordedGrows DEF Settled

(* Cutting a message out brings none in.                                   *)
LEMMA WithoutShrinks ==
  ASSUME NEW S, NEW s \in Seq(S), NEW i \in DOMAIN s, NEW k \in DOMAIN Without(s, i)
  PROVE  \E j \in DOMAIN s : s[j] = Without(s, i)[k]
<1> DEFINE n == Len(s)
           front == SubSeq(s, 1, i - 1)
           back == SubSeq(s, i + 1, Len(s))
<1>1. i \in 1..Len(s) /\ Len(s) \in Nat
  OBVIOUS
<1>2. /\ front \in Seq(S) /\ Len(front) = i - 1
      /\ \A j \in 1..(i - 1) : front[j] = s[j]
  <2>1. \A j \in 1..(i - 1) : s[j] \in S
    BY <1>1, ElementOfSeq
  <2> QED BY <1>1, <2>1, SubSeqProperties
<1>3. /\ back \in Seq(S) /\ Len(back) = Len(s) - i
      /\ \A j \in 1..(Len(s) - i) : back[j] = s[i + j]
  <2>1. \A j \in (i + 1)..Len(s) : s[j] \in S
    BY <1>1, ElementOfSeq
  <2> QED BY <1>1, <2>1, SubSeqProperties
<1>4. n \in Nat /\ DOMAIN s = 1..n /\ i \in 1..n /\ Len(front) = i - 1 /\ Len(back) = n - i
  BY <1>1, <1>2, <1>3
<1>5. Without(s, i) = front \o back
  BY DEF Without
<1> HIDE DEF n, front, back
<1>6. /\ Len(front \o back) = Len(front) + Len(back)
      /\ DOMAIN (front \o back) = 1..(Len(front) + Len(back))
      /\ \A j \in 1..(Len(front) + Len(back)) :
           (front \o back)[j] = IF j <= Len(front) THEN front[j] ELSE back[j - Len(front)]
  <2>1. front \o back \in Seq(S) /\ Len(front \o back) = Len(front) + Len(back)
    BY <1>2, <1>3, ConcatProperties
  <2>2. DOMAIN (front \o back) = 1..Len(front \o back)
    BY <2>1
  <2>3. \A j \in 1..(Len(front) + Len(back)) :
          (front \o back)[j] = IF j <= Len(front) THEN front[j] ELSE back[j - Len(front)]
    BY <1>2, <1>3, ConcatProperties
  <2> QED BY <2>1, <2>2, <2>3
<1>7. k \in 1..(Len(front) + Len(back))
  BY <1>5, <1>6
<1>8. Len(front) + Len(back) = n - 1
  BY <1>4
<1>9. k \in Nat /\ 1 <= k /\ k <= n - 1
  BY <1>4, <1>7, <1>8
<1>10. CASE k <= i - 1
  <2>1. k \in 1..(i - 1) /\ k \in 1..n
    BY <1>4, <1>9, <1>10
  <2>2. k <= Len(front)
    BY <1>4, <1>10
  <2>3. (front \o back)[k] = front[k]
    BY <1>6, <1>7, <2>2
  <2>4. front[k] = s[k]
    BY <1>2, <2>1
  <2> QED BY <1>4, <1>5, <2>1, <2>3, <2>4
<1>11. CASE k > i - 1
  <2> DEFINE r == k - (i - 1)
  <2>1. r \in 1..(n - i) /\ i + r = k + 1 /\ k + 1 \in 1..n
    BY <1>4, <1>9, <1>11
  <2>2. ~ (k <= Len(front)) /\ k - Len(front) = r
    BY <1>4, <1>9, <1>11
  <2>3. (front \o back)[k] = back[r]
    BY <1>6, <1>7, <2>2
  <2>4. back[r] = s[i + r]
    BY <1>3, <2>1 DEF n
  <2> QED BY <1>4, <1>5, <2>1, <2>3, <2>4
<1> QED BY <1>4, <1>9, <1>10, <1>11

LEMMA FolderShrinks ==
  ASSUME TypeInv, NEW i \in DOMAIN box, box' = Without(box, i), NEW m, InBox(m)'
  PROVE  InBox(m)
<1>1. PICK k \in DOMAIN Without(box, i) : Without(box, i)[k] = m
  BY DEF InBox
<1>2. \E j \in DOMAIN box : box[j] = Without(box, i)[k]
  BY WithoutShrinks DEF TypeInv, StoreTypes
<1> QED BY <1>1, <1>2 DEF InBox

LEMMA PollersOnlyRemove ==
  ASSUME TypeInv, NEW p \in Pollers, Step(p) \/ Disturb(p), NEW m, InBox(m)'
  PROVE  InBox(m)
<1>1. CASE box' = box
  BY <1>1 DEF InBox
<1>2. CASE box' # box
  <2>1. Move(p)
    BY <1>2, StepChanges
  <2>2. PICK n : InBox(n) /\ box' = Without(box, Position(n))
    BY <1>2, <2>1 DEF Move
  <2>3. Position(n) \in DOMAIN box
    BY <2>2 DEF InBox, Position
  <2> QED BY <2>2, <2>3, FolderShrinks
<1> QED BY <1>1, <1>2

(* What p's variables say of the folder survives a step that leaves them   *)
(* alone.                                                                  *)
LEMMA WindowStays ==
  ASSUME NEW q \in Pollers, Window(q),
         pc'[q] = pc[q], sel'[q] = sel[q], todo'[q] = todo[q], got'[q] = got[q],
         docs \subseteq docs', failed \subseteq failed',
         uid' = uid, uidNext' = uidNext, validity' = validity,
         \A m : InBox(m)' => InBox(m)
  PROVE  Window(q)'
<1>1. \A m : Settled(m) => Settled(m)'
  BY SettledStays
<1> QED BY <1>1 DEF Window

(* The search: what it leaves out is settled.                              *)
LEMMA FetchWindow ==
  ASSUME TypeInv, FullTypes, RecordInv, PassInv, NEW p \in Pollers, Fetch(p)
  PROVE  Window(p)'
<1>1. /\ pc[p] = "fetch" /\ got'[p] = box /\ todo'[p] = Found(p)
      /\ pc'[p] = IF Found(p) = {} THEN "cursor" ELSE "check"
      /\ UNCHANGED <<box, uid, uidNext, validity, seen, tracked, docs, sel, failed>>
  BY DEF Fetch, Goto, TypeInv, PollTypes, serverVars, storeVars
<1>2. /\ sel[p].validity = validity /\ sel[p].next \in 1..uidNext
      /\ sel[p].start <= uidNext
      /\ \A m \in Known : InBox(m) /\ uid[m] < sel[p].start => Settled(m)
  BY <1>1 DEF PassInv, Window
<1>3. \A m : (Settled(m)' <=> Settled(m)) /\ (InBox(m)' <=> InBox(m))
  BY <1>1 DEF Settled, Recorded, ContentsOf, InBox
<1>4. ASSUME NEW m \in Known, InBox(m), ~ Settled(m)
      PROVE  \E i \in Found(p) : box[i] = m
  <2>1. PICK i \in DOMAIN box : box[i] = m
    BY <1>4 DEF InBox
  <2>2. ~ (uid[m] < sel[p].start)
    BY <1>2, <1>4
  <2>3. m \notin seen
    BY <1>4 DEF PassInv, CursorInv
  <2>4. Id(m, i) \notin tracked
    <3>1. Id(m, i) = <<"id", m>> /\ m \in Messages \ Anonymous
      BY DEF Id, Known
    <3> QED BY <1>4, <3>1 DEF RecordInv, TrackedIsRecorded, Settled
  <2>5. uid[m] >= sel[p].start
    <3>1. uid[m] \in Nat /\ sel[p].start \in Nat
      BY DEF Known, FullTypes, FieldTypes, SessionTypes
    <3> QED BY <2>2, <3>1
  <2>6. i \in Found(p)
    BY <2>1, <2>3, <2>4, <2>5 DEF Found
  <2> QED BY <2>1, <2>6
<1> QED BY <1>1, <1>2, <1>3, <1>4 DEF Window

(* A message left behind is settled.                                       *)
LEMMA NextMessageWindow ==
  ASSUME TypeInv, NEW p \in Pollers, Window(p), NEW i, NextMessage(p, i),
         pc[p] \notin {"idle", "fetch"}, \A m \in Known : m = got[p][i] => Settled(m)',
         docs \subseteq docs', failed \subseteq failed',
         uid' = uid, uidNext' = uidNext, validity' = validity,
         \A m : InBox(m)' => InBox(m)
  PROVE  Window(p)'
<1>1. /\ todo'[p] = todo[p] \ {i} /\ sel' = sel /\ got' = got
      /\ pc'[p] = IF todo[p] = {i} THEN "cursor" ELSE "check"
  BY DEF NextMessage, Goto, TypeInv, PollTypes
<1>2. \A m : Settled(m) => Settled(m)'
  BY SettledStays
<1>3. ASSUME NEW m \in Known, InBox(m)', uid[m] < sel[p].next
      PROVE  Settled(m)' \/ \E j \in todo'[p] : got[p][j] = m
  <2>1. Settled(m) \/ \E j \in todo[p] : got[p][j] = m
    BY <1>3 DEF Window
  <2> QED BY <1>1, <1>2, <2>1
<1> QED BY <1>1, <1>2, <1>3 DEF Window

(* A poller's own steps.                                                   *)
LEMMA WindowKept ==
  ASSUME TypeInv, FullTypes, RecordInv, PassInv, NEW p \in Pollers, Stopped(p),
         Step(p) \/ Disturb(p)
  PROVE  Window(p)'
<1>1. /\ docs \subseteq docs' /\ failed \subseteq failed'
      /\ uid' = uid /\ uidNext' = uidNext /\ validity' = validity
      /\ \A m : InBox(m)' => InBox(m)
  BY DocsGrow, StoppedKept, StepChanges, PollersOnlyRemove
<1>2. Window(p) /\ Custody(p) /\ cancelled[p] \in BOOLEAN
  BY DEF PassInv, RecordInv, TypeInv, PollTypes
<1>3. ASSUME Disconnect(p)
      PROVE  Window(p)'
  BY <1>3 DEF Disconnect, Goto, Window, TypeInv, PollTypes
<1>4. ASSUME Drop(p), pc[p] \in Processing
      PROVE  Window(p)'
  <2>1. \A m : m = got[p][cur[p]] => Settled(m)'
    BY <1>4 DEF Drop, Settled, Msg
  <2> QED BY <1>1, <1>2, <1>4, <2>1, NextMessageWindow DEF Drop, Processing
<1>5. ASSUME sel' = sel, got' = got, todo' = todo,
             pc[p] \notin {"idle", "fetch"}, pc'[p] \notin {"cursor"}
      PROVE  Window(p)'
  BY <1>1, <1>2, <1>5, SettledStays DEF Window
<1>6. CASE Select(p)
  <2>1. /\ pc'[p] = "fetch"
        /\ sel'[p] = [validity |-> validity, next |-> uidNext,
                      start |-> IF cursor.validity = validity THEN cursor.uid + 1 ELSE 1]
        /\ UNCHANGED <<box, uid, uidNext, validity, docs, failed>>
    BY <1>6 DEF Select, Goto, serverVars, storeVars, TypeInv, PollTypes, FullTypes, SessionTypes
  <2>2. uidNext \in Nat \ {0} /\ cursor.uid \in Nat /\ uid \in [Messages -> Nat]
    BY DEF FullTypes, FieldTypes
  <2>3. \A m \in Known : InBox(m) /\ uid[m] < sel'[p].start => Settled(m)
    <3>1. ASSUME NEW m \in Known, InBox(m), uid[m] < sel'[p].start
          PROVE  Settled(m)
      <4>1. uid[m] \in 1..(uidNext - 1) /\ uid[m] \in Nat
        BY <2>2, <3>1 DEF PassInv, UidInv, Known
      <4>2. cursor.validity = validity /\ uid[m] <= cursor.uid
        BY <2>1, <2>2, <3>1, <4>1
      <4> QED BY <3>1, <4>2 DEF PassInv, CursorInv, CursorPassesOnlySettled, Settled, Known
    <3> QED BY <3>1
  <2>4. sel'[p].start <= uidNext
    BY <2>1, <2>2 DEF PassInv, CursorInv
  <2>5. \A m : Settled(m) => Settled(m)'
    BY <1>1, SettledStays
  <2> QED BY <2>1, <2>2, <2>3, <2>4, <2>5, <1>1 DEF Window
<1>7. CASE Fetch(p)
  BY <1>7, FetchWindow
<1>8. CASE Check(p)
  <2>1. PICK i \in todo[p] :
          IF Id(got[p][i], i) \in tracked
          THEN NextMessage(p, i)
          ELSE /\ cur' = [cur EXCEPT ![p] = i]
               /\ Goto(p, "save")
               /\ UNCHANGED <<sel, got, todo, read, attachments, cancelled>>
    BY <1>8 DEF Check
  <2>2. pc[p] = "check"
    BY <1>8 DEF Check
  <2>3. CASE Id(got[p][i], i) \in tracked
    <3>1. ASSUME NEW m \in Known, m = got[p][i]
          PROVE  Settled(m)'
      <4>1. <<"id", m>> \in tracked
        BY <2>3, <3>1 DEF Id, Known
      <4>2. Settled(m)
        BY <4>1 DEF RecordInv, TrackedIsRecorded, Settled, Known
      <4> QED BY <1>1, <4>2, SettledStays
    <3> QED BY <1>1, <1>2, <2>1, <2>2, <2>3, <3>1, NextMessageWindow
  <2>4. CASE Id(got[p][i], i) \notin tracked
    BY <2>1, <2>2, <2>4, <1>5 DEF Goto, TypeInv, PollTypes
  <2> QED BY <2>3, <2>4
<1>9. CASE SavePart(p)
  <2>1. pc[p] = "save" /\ (Drop(p) \/ UNCHANGED <<pc, sel, got, todo>>)
    BY <1>9 DEF SavePart
  <2> QED BY <1>4, <1>5, <2>1 DEF Processing
<1>10. CASE EndOfParts(p)
  BY <1>5, <1>10 DEF EndOfParts, Goto, TypeInv, PollTypes
<1>11. CASE Enqueue(p)
  <2>1. pc[p] = "enqueue"
    BY <1>11 DEF Enqueue
  <2>2. CASE Drop(p)
    BY <1>4, <2>1, <2>2 DEF Processing
  <2>3. CASE ~ Drop(p)
    BY <1>5, <1>11, <2>1, <2>3 DEF Enqueue, NextPart, Goto, TypeInv, PollTypes
  <2> QED BY <2>2, <2>3
<1>12. CASE EnqueueJob(p)
  BY <1>5, <1>12 DEF EnqueueJob, NextPart, Goto, TypeInv, PollTypes
<1>13. CASE MarkSeen(p)
  BY <1>5, <1>13 DEF MarkSeen, Goto, TypeInv, PollTypes
<1>14. CASE Move(p)
  <2>1. pc[p] = "act"
    BY <1>14 DEF Move
  <2>2. CASE Drop(p)
    BY <1>4, <2>1, <2>2 DEF Processing
  <2>3. CASE ~ Drop(p)
    BY <1>5, <1>14, <2>1, <2>3 DEF Move, Goto, TypeInv, PollTypes
  <2> QED BY <2>2, <2>3
<1>15. CASE Track(p)
  <2>1. pc[p] = "track" /\ NextMessage(p, cur[p])
    BY <1>15 DEF Track
  <2>2. \A m : m = got[p][cur[p]] => Settled(m)'
    BY <1>1, <1>2, <2>1, ActingSettled, SettledStays DEF Msg
  <2> QED BY <1>1, <1>2, <2>1, <2>2, NextMessageWindow
<1>16. CASE SaveCursor(p)
  BY <1>3, <1>16 DEF SaveCursor
<1>17. CASE Abandon(p)
  BY <1>3, <1>17 DEF Abandon
<1>18. CASE PollFails(p)
  BY <1>3, <1>18 DEF PollFails
<1>19. CASE MessageFails(p)
  BY <1>4, <1>19 DEF MessageFails, Processing
<1>20. CASE ActionFails(p)
  BY <1>4, <1>20 DEF ActionFails, Processing
<1>21. CASE Crash(p)
  BY <1>3, <1>21 DEF Crash
<1>22. CASE Shutdown(p)
  <2>1. UNCHANGED <<pc, sel, got, todo>>
    BY <1>22 DEF Shutdown
  <2> QED BY <1>1, <1>2, <2>1, WindowStays
<1>23. CASE SkipPart(p)
  BY <1>5, <1>23 DEF SkipPart
<1>24. CASE SavingFails(p)
  BY <1>4, <1>24 DEF SavingFails, Processing
<1> QED BY <1>6, <1>7, <1>8, <1>9, <1>10, <1>11, <1>12, <1>13, <1>14, <1>15, <1>16, <1>17, <1>18, <1>19, <1>20, <1>21, <1>22, <1>23, <1>24 DEF Step, Disturb

(* The others look at the same folder and the same store.                  *)
LEMMA OthersWindow ==
  ASSUME TypeInv, FullTypes, NEW p \in Pollers, Step(p) \/ Disturb(p),
         NEW q \in Pollers, q # p, Stopped(p), Window(q)
  PROVE  Window(q)'
<1>1. /\ docs \subseteq docs' /\ failed \subseteq failed'
      /\ uid' = uid /\ uidNext' = uidNext /\ validity' = validity
      /\ \A m : InBox(m)' => InBox(m)
  BY DocsGrow, StoppedKept, StepChanges, PollersOnlyRemove
<1>2. pc'[q] = pc[q] /\ got'[q] = got[q]
  BY OthersApart DEF Apart
<1>3. sel'[q] = sel[q] /\ todo'[q] = todo[q]
  <2>1. sel' = sel \/ \E r : sel' = [sel EXCEPT ![p] = r]
    BY SessionChanges DEF Select, Fetch, Disconnect
  <2>2. todo' = todo \/ \E r : todo' = [todo EXCEPT ![p] = r]
    <3> USE DEF NextMessage, Drop, Disconnect
    <3>1. CASE Enqueue(p)
      BY <3>1, EnqueueCases DEF NextPart, Creates
    <3>2. CASE Move(p) \/ MarkSeen(p) \/ Track(p)
      BY <3>2 DEF Move, MarkSeen, Track
    <3>3. CASE SavePart(p) \/ SkipPart(p) \/ EndOfParts(p) \/ EnqueueJob(p)
      BY <3>3 DEF SavePart, SkipPart, EndOfParts, EnqueueJob, NextPart
    <3>4. CASE Select(p) \/ Fetch(p) \/ Check(p) \/ SaveCursor(p) \/ Abandon(p)
      BY <3>4 DEF Select, Fetch, Check, SaveCursor, Abandon
    <3>5. CASE Disturb(p)
      BY <3>5 DEF Disturb, PollFails, MessageFails, SavingFails, ActionFails, Crash, Shutdown
    <3> QED BY <3>1, <3>2, <3>3, <3>4, <3>5 DEF Step
  <2>3. DOMAIN sel = Pollers /\ DOMAIN todo = Pollers
    BY DEF TypeInv, PollTypes, FullTypes, SessionTypes
  <2>4. sel'[q] = sel[q]
    BY <2>1, <2>3
  <2>5. todo'[q] = todo[q]
    BY <2>2, <2>3
  <2> QED BY <2>4, <2>5
<1> QED BY <1>1, <1>2, <1>3, WindowStays

(* The cursor and the flags.                                               *)
LEMMA CursorKept ==
  ASSUME TypeInv, FullTypes, RecordInv, PassInv, NEW p \in Pollers, Stopped(p),
         Step(p) \/ Disturb(p)
  PROVE  CursorInv'
<1>1. /\ docs \subseteq docs' /\ failed \subseteq failed'
      /\ uid' = uid /\ uidNext' = uidNext /\ validity' = validity
      /\ \A m : InBox(m)' => InBox(m)
  BY DocsGrow, StoppedKept, StepChanges, PollersOnlyRemove
<1>2. \A m : Settled(m) => Settled(m)'
  BY <1>1, SettledStays
<1>3. \A m \in seen' : Settled(m)'
  <2>1. CASE MarkSeen(p)
    <3>1. pc[p] = "act" /\ seen' = seen \cup {Msg(p)}
      BY <2>1 DEF MarkSeen, FullTypes, SessionTypes, Msg
    <3>2. Settled(Msg(p))
      BY <3>1, ActingSettled DEF RecordInv, TypeInv, PollTypes
    <3> QED BY <1>2, <3>1, <3>2 DEF PassInv, CursorInv
  <2>2. CASE seen' = seen
    BY <1>2, <2>2 DEF PassInv, CursorInv
  <2> QED BY <2>1, <2>2, StepChanges
<1>4. CASE cursor' = cursor
  BY <1>1, <1>2, <1>3, <1>4 DEF PassInv, CursorInv, CursorPassesOnlySettled, Settled
<1>5. CASE SaveCursor(p)
  <2>1. /\ pc[p] = "cursor" /\ cursor' = [validity |-> sel[p].validity, uid |-> sel[p].next - 1]
    BY <1>5 DEF SaveCursor
  <2>2. /\ sel[p].validity = validity /\ sel[p].next \in 1..uidNext /\ todo[p] = {}
        /\ \A m \in Known : InBox(m) /\ uid[m] < sel[p].next => Settled(m)
    BY <2>1 DEF PassInv, Window
  <2>3. uid \in [Messages -> Nat] /\ uidNext \in Nat /\ validity \in Nat
    BY MailAssumption DEF FullTypes, FieldTypes
  <2>4. cursor'.validity = validity /\ cursor'.uid < uidNext
    BY <2>1, <2>2, <2>3
  <2>5. ASSUME NEW m \in Known, InBox(m), uid[m] <= sel[p].next - 1
        PROVE  Settled(m)
    <3>1. uid[m] \in Nat
      BY <2>3 DEF Known
    <3>2. uid[m] < sel[p].next
      BY <2>2, <2>3, <2>5, <3>1
    <3> QED BY <2>2, <2>5, <3>2
  <2>6. CursorPassesOnlySettled'
    BY <1>1, <1>2, <2>1, <2>5 DEF CursorPassesOnlySettled, Settled, Known
  <2> QED BY <1>1, <1>3, <2>3, <2>4, <2>6 DEF CursorInv
<1> QED BY <1>4, <1>5, StepChanges

(* What the server and the users do.                                       *)
LEMMA ServerPass ==
  ASSUME TypeInv, FullTypes, PassInv,
         (\E m \in Messages : Arrive(m)) \/ (\E i \in 1..Size : Delete(i)) \/ Renumber \/ UNCHANGED vars
  PROVE  PassInv'
<1>1. UNCHANGED <<tracked, cursor, docs, jobs, pc, sel, got, todo, failed>>
  BY ServerStore DEF storeVars, pollVars
<1>2. \A m : Settled(m)' <=> Settled(m)
  BY <1>1 DEF Settled, Recorded, ContentsOf
<1>3. /\ uid \in [Messages -> Nat] /\ uidNext \in Nat \ {0} /\ validity \in Nat
      /\ cursor \in [validity : Nat, uid : Nat]
      /\ sel \in [Pollers -> [validity : Nat, next : Nat, start : Nat]]
  BY MailAssumption DEF FullTypes, FieldTypes, SessionTypes
<1>4. ASSUME NEW m \in Messages, Arrive(m)
      PROVE  PassInv'
  <2>1. /\ uid[m] = 0 /\ box' = Append(box, m) /\ uid' = [uid EXCEPT ![m] = uidNext]
        /\ uidNext' = uidNext + 1 /\ UNCHANGED <<validity, seen>>
    BY <1>4 DEF Arrive
  <2>2. \A n : InBox(n)' => InBox(n) \/ n = m
    <3>1. /\ Len(box') = Len(box) + 1 /\ Len(box) \in Nat /\ DOMAIN box' = 1..(Len(box) + 1)
          /\ DOMAIN box = 1..Len(box)
          /\ \A i \in 1..Len(box) : box'[i] = box[i]
          /\ box'[Len(box) + 1] = m
      BY <2>1, AppendProperties DEF TypeInv, StoreTypes
    <3>2. \A i \in DOMAIN box' : i \in DOMAIN box \/ i = Len(box) + 1
      BY <3>1
    <3> QED BY <3>1, <3>2 DEF InBox
  <2>3. \A n \in Messages : n # m => uid'[n] = uid[n]
    BY <1>3, <2>1
  <2>4. uid'[m] = uidNext
    BY <1>3, <2>1
  <2>5. ~ InBox(m)
    BY <2>1 DEF PassInv, UidInv
  <2>6. UidInv'
    <3>1. ASSUME NEW n \in Messages, InBox(n)'
          PROVE  uid'[n] \in 1..(uidNext' - 1)
      <4>1. CASE n = m
        BY <1>3, <2>1, <2>4, <4>1
      <4>2. CASE n # m
        <5>1. uid[n] \in 1..(uidNext - 1) /\ uid'[n] = uid[n]
          BY <2>2, <2>3, <3>1, <4>2 DEF PassInv, UidInv
        <5> QED BY <1>3, <2>1, <5>1
      <4> QED BY <4>1, <4>2
    <3> QED BY <3>1 DEF UidInv
  <2>7. CursorInv'
    <3>1. cursor.validity = validity => cursor.uid < uidNext
      BY DEF PassInv, CursorInv
    <3>2. CursorPassesOnlySettled'
      <4>1. ASSUME NEW n \in Known, InBox(n)', cursor.validity = validity, uid'[n] <= cursor.uid
            PROVE  Settled(n)
        <5>1. n # m
          BY <1>3, <2>4, <3>1, <4>1
        <5> QED BY <2>2, <2>3, <4>1, <5>1 DEF PassInv, CursorInv, CursorPassesOnlySettled, Settled, Known
      <4> QED BY <1>1, <1>2, <2>1, <4>1 DEF CursorPassesOnlySettled, Settled, Known
    <3>3. cursor.validity = validity => cursor.uid < uidNext + 1
      BY <1>3, <3>1
    <3> QED BY <1>1, <1>2, <2>1, <3>2, <3>3 DEF PassInv, CursorInv
  <2>8. ASSUME NEW q \in Pollers
        PROVE  Window(q)'
    <3>1. /\ sel[q].next \in Nat /\ sel[q].start \in Nat
          /\ pc[q] # "idle" => sel[q].next \in 1..uidNext
      BY <1>3 DEF PassInv, Window
    <3>2. pc[q] # "idle" =>
            /\ sel[q].validity = validity /\ sel[q].next \in 1..(uidNext + 1)
            /\ sel[q].start <= uidNext + 1
      BY <1>3, <3>1 DEF PassInv, Window
    <3>4. ASSUME NEW n \in Known, InBox(n)', pc[q] # "idle", uid'[n] < sel[q].start
          PROVE  Settled(n)
      <4>1. CASE n # m
        BY <2>2, <2>3, <3>4, <4>1 DEF PassInv, Window, Known
      <4>2. CASE n = m
        BY <1>3, <2>4, <3>4, <4>2, <3>1 DEF PassInv, Window
      <4> QED BY <4>1, <4>2
    <3>5. ASSUME NEW n \in Known, InBox(n)', pc[q] \notin {"idle", "fetch"}, uid'[n] < sel[q].next
          PROVE  Settled(n) \/ \E i \in todo[q] : got[q][i] = n
      <4>1. n # m
        BY <1>3, <2>4, <3>1, <3>5
      <4> QED BY <2>2, <2>3, <3>5, <4>1 DEF PassInv, Window, Known
    <3> QED BY <1>1, <1>2, <2>1, <3>2, <3>4, <3>5 DEF PassInv, Window
  <2> QED BY <2>6, <2>7, <2>8 DEF PassInv
<1>5. ASSUME NEW i \in 1..Size, Delete(i)
      PROVE  PassInv'
  <2>1. /\ \A m : InBox(m)' => InBox(m)
        /\ UNCHANGED <<uid, uidNext, validity, seen>>
    BY <1>5, FolderShrinks DEF Delete
  <2>2. UidInv' /\ CursorInv'
    BY <1>1, <1>2, <2>1 DEF PassInv, UidInv, CursorInv, CursorPassesOnlySettled, Settled
  <2>3. \A q \in Pollers : Window(q)'
    BY <1>1, <2>1, WindowStays DEF PassInv
  <2> QED BY <2>2, <2>3 DEF PassInv
<1>6. CASE Renumber
  <2>1. /\ \A p \in Pollers : pc[p] = "idle"
        /\ validity' = validity + 1 /\ uidNext' = Len(box) + 1 /\ box' = box /\ seen' = seen
        /\ uid' = [m \in Messages |-> IF InBox(m) THEN Position(m) ELSE uid[m]]
    BY <1>6 DEF Renumber
  <2>2. ASSUME NEW m \in Messages, InBox(m)
        PROVE  uid'[m] \in 1..(uidNext' - 1)
    <3>1. Position(m) \in 1..Len(box) /\ Len(box) \in Nat
      BY <2>2 DEF InBox, Position, TypeInv, StoreTypes
    <3> QED BY <2>1, <2>2, <3>1
  <2>3. \A m : InBox(m)' => InBox(m)
    BY <2>1 DEF InBox
  <2>4. cursor'.validity <= validity' /\ cursor'.validity # validity'
    BY <1>1, <1>3, <2>1 DEF PassInv, CursorInv
  <2>5. UidInv' /\ CursorInv'
    BY <1>2, <2>1, <2>2, <2>3, <2>4 DEF PassInv, UidInv, CursorInv, CursorPassesOnlySettled
  <2>6. \A q \in Pollers : Window(q)'
    BY <1>1, <2>1 DEF PassInv, Window
  <2> QED BY <2>5, <2>6 DEF PassInv
<1>7. CASE UNCHANGED vars
  <2>1. UNCHANGED <<box, uid, uidNext, validity, seen>> /\ \A m : InBox(m)' => InBox(m)
    BY <1>7 DEF vars, serverVars, InBox
  <2>2. UidInv' /\ CursorInv'
    BY <1>1, <1>2, <2>1 DEF PassInv, UidInv, CursorInv, CursorPassesOnlySettled, Settled
  <2>3. \A q \in Pollers : Window(q)'
    BY <1>1, <2>1, WindowStays DEF PassInv
  <2> QED BY <2>2, <2>3 DEF PassInv
<1> QED BY <1>4, <1>5, <1>6, <1>7

LEMMA PassInvariant == Spec => []PassInv
<1>1. Init => PassInv
  <2>1. Init => UidInv /\ \A p \in Pollers : Window(p)
    BY DEF Init, UidInv, Window, InBox
  <2>2. Init => CursorInv
    BY DEF Init, CursorInv, CursorPassesOnlySettled, InBox
  <2> QED BY <2>1, <2>2 DEF PassInv
<1>2. TypeInv /\ FullTypes /\ RecordInv /\ JobInv /\ PassInv /\ [Next]_vars => PassInv'
  <2> SUFFICES ASSUME TypeInv, FullTypes, RecordInv, JobInv, PassInv, [Next]_vars
               PROVE  PassInv'
    OBVIOUS
  <2>1. ASSUME NEW p \in Pollers, Step(p) \/ Disturb(p)
        PROVE  PassInv'
    <3>1. Stopped(p)
      BY DEF JobInv
    <3>2. CursorInv'
      BY <2>1, <3>1, CursorKept
    <3>3. \A q \in Pollers : Window(q)'
      BY <2>1, <3>1, WindowKept, OthersWindow DEF PassInv
    <3>4. UidInv'
      BY <2>1, StepChanges, PollersOnlyRemove DEF PassInv, UidInv
    <3> QED BY <3>2, <3>3, <3>4 DEF PassInv
  <2>2. CASE (\E m \in Messages : Arrive(m)) \/ (\E i \in 1..Size : Delete(i)) \/ Renumber \/ UNCHANGED vars
    BY <2>2, ServerPass
  <2> QED BY <2>1, <2>2 DEF Next
<1> QED BY <1>1, <1>2, TypeInvariant, FullTypesInvariant, RecordInvariant, JobInvariant, PTL DEF Spec

(* Whatever fails, whatever arrives, is deleted or renumbered meanwhile,   *)
(* and however many processes poll the account: a message below the cursor *)
(* has its documents, unless an error, a crash or a shutdown hit that very *)
(* message (mail.go:349-424).                                              *)
THEOREM CursorLeavesNothingUnread == Spec => []CursorPassesOnlySettled
<1>1. PassInv => CursorPassesOnlySettled
  BY DEF PassInv, CursorInv
<1> QED BY <1>1, PassInvariant, PTL
=============================================================================
