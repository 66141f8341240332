--------------------------- MODULE Expansion_proofs ---------------------------
(***************************************************************************)
(* Whatever replies are late, lost to a full channel or taken for those of *)
(* another request, the pool stays within its target and no connect ID is  *)
(* joined twice: for any target, batch, number of slots and faults.        *)
(***************************************************************************)
EXTENDS Expansion, FiniteSetTheorems, SequenceTheorems, TLAPS

\* Taking the first of a sequence, and keeping at most one.
LEMMA Popped ==
  ASSUME NEW S, NEW q \in Seq(S), q # <<>>
  PROVE  Head(q) \in S /\ Tail(q) \in Seq(S)
OBVIOUS

LEMMA Single ==
  ASSUME NEW S, NEW e \in S
  PROVE  <<e>> \in Seq(S) /\ Len(<<e>>) = 1 /\ <<e>>[1] = e /\ DOMAIN <<e>> = {1}
OBVIOUS

LEMMA Appended ==
  ASSUME NEW S, NEW q \in Seq(S), NEW e \in S
  PROVE  /\ Append(q, e) \in Seq(S)
         /\ \A n \in DOMAIN Append(q, e) : Append(q, e)[n] = e \/ (n \in DOMAIN q /\ Append(q, e)[n] = q[n])
OBVIOUS

\* The offers a minter can make are sound: one room per slot.
LEMMA OfferOfSlots ==
  ASSUME TypeOK, NEW S \in SUBSET Slot, \A i \in S : room[i].gen # 0
  PROVE  SoundOffer({Offer(i) : i \in S})
<1> DEFINE T == {Offer(i) : i \in S}
           f == [i \in S |-> Offer(i)]
<1>1. IsFiniteSet(Slot)
  BY FS_Interval, SlotsAssumption DEF Slot
<1>2. IsFiniteSet(S)
  BY <1>1, FS_Subset
<1>3. f \in Surjection(S, T)
  BY DEF Surjection
<1>4. IsFiniteSet(T)
  BY <1>2, <1>3, FS_Surjection
<1>5. T \subseteq Share
  BY DEF TypeOK, Offer, Share, AnyRoom
<1>6. \A s, t \in T : s.slot = t.slot => s = t
  BY DEF Offer
<1> QED BY <1>4, <1>5, <1>6 DEF SoundOffer

\* A subset of a sound offer is sound.
LEMMA SubOffer ==
  ASSUME NEW S, SoundOffer(S), NEW T \in SUBSET S
  PROVE  SoundOffer(T)
BY FS_Subset DEF SoundOffer

\* Nothing that is being joined is in the pool.
LEMMA Disjoint ==
  ASSUME NeverRejoins
  PROVE  joining \ pool = joining
BY DEF NeverRejoins

\* Initially nothing was asked for.
LEMMA Initially == Init => IInv
<1> SUFFICES ASSUME Init PROVE IInv
  OBVIOUS
<1>1. TypeOK
  <2>1. /\ result \in Seq(AnyReply) /\ Len(result) <= 1
        /\ replies \in Seq(AnyReply)
        /\ requests \in Seq(AnyRequest)
    BY DEF Init
  <2>2. /\ serving \in [id : Nat, slots : SUBSET Slot]
        /\ previous \in AnyReply
    BY DEF Init, NotServing, NoReply, Reply, AnyReply
  <2>3. /\ room \in [Slot -> AnyRoom]
        /\ minting \subseteq serving.slots
    BY DEF Init, AnyRoom
  <2>4. expanding \in BOOLEAN
    BY DEF Init
  <2>5. /\ step \in {"off", "wait", "request", "join"}
        /\ batch \in Nat /\ next \in Nat /\ faults \in 0..MaxFaults
        /\ known \subseteq Share /\ joining \subseteq Share /\ pool \subseteq Share
    BY BatchAssumption, FaultsAssumption DEF Init
  <2> QED BY <2>1, <2>2, <2>3, <2>4, <2>5 DEF TypeOK
<1>2. IsFiniteSet({}) /\ Cardinality({}) = 0
  BY FS_EmptySet
<1>3. SoundOffer({})
  BY <1>2 DEF SoundOffer
<1>4. PoolWithinTarget
  BY <1>2, TargetAssumption, {} \ {} = {} DEF Init, PoolWithinTarget, Size
<1>5. NeverRejoins /\ RequestFits /\ StartedOnce /\ RoomsAreNumbered
  BY DEF Init, NeverRejoins, RequestFits, StartedOnce, RoomsAreNumbered, Live
<1>6. OffersAreSound /\ JoinsFollowOffers
  BY <1>2, <1>3 DEF Init, OffersAreSound, JoinsFollowOffers, NoReply, Reply
<1> QED BY <1>1, <1>4, <1>5, <1>6 DEF IInv

-----------------------------------------------------------------------------
(* The shape of the state *)

\* The controller's steps keep the shape of the state.
LEMMA TypeOfController ==
  ASSUME TypeOK, IsFiniteSet(pool),
         \/ RelayDetected \/ Maintain \/ HandleReply \/ TakeResult \/ Timeout \/ Joined
         \/ \E s \in joining : JoinSucceeds(s) \/ JoinFails(s)
         \/ \E s \in pool : SessionLost(s)
  PROVE  TypeOK'
<1>1. CASE RelayDetected
  BY <1>1 DEF RelayDetected, TypeOK, served
<1>2. CASE Maintain
  <2>1. Target - Size \in Nat
    BY <1>2, FS_CardinalityType, TargetAssumption DEF Maintain, Size
  <2>2. batch' \in Nat /\ next' \in Nat /\ known' \subseteq Share
    BY <1>2, <2>1 DEF Maintain, TypeOK
  <2>3. requests' \in Seq(AnyRequest)
    BY <1>2, <2>2 DEF Maintain, Request, TypeOK, AnyRequest
  <2> QED BY <1>2, <2>2, <2>3 DEF Maintain, TypeOK, served
<1>3. CASE HandleReply
  <2>1. Head(replies) \in AnyReply
        /\ replies' \in Seq(AnyReply)
    BY <1>3, Popped DEF HandleReply, TypeOK
  <2>2. result' \in Seq(AnyReply) /\ Len(result') <= 1
    <3>1. CASE Head(replies).id = next /\ result = <<>>
      <4>1. result' = <<Head(replies)>>
        BY <1>3, <3>1 DEF HandleReply, QueueResult
      <4> QED BY <4>1, <2>1, Single
    <3>2. CASE ~(Head(replies).id = next /\ result = <<>>)
      <4>1. result' = result
        BY <1>3, <3>2 DEF HandleReply, QueueResult
      <4> QED BY <4>1 DEF TypeOK
    <3> QED BY <3>1, <3>2
  <2> QED BY <1>3, <2>1, <2>2 DEF HandleReply, TypeOK, served
<1>4. CASE TakeResult
  <2>0. Head(result) \in AnyReply
    BY <1>4, Popped DEF TakeResult, TypeOK
  <2>1. Head(result).shares \subseteq Share
    BY <2>0 DEF AnyReply
  <2>2. joining' \subseteq Share /\ step' \in {"wait", "join"}
    BY <1>4, <2>1 DEF TakeResult, NotKnown, TypeOK
  <2> QED BY <1>4, <2>2 DEF TakeResult, TypeOK, served
<1>5. CASE Timeout
  BY <1>5, FaultsAssumption DEF Timeout, Fault, TypeOK, served
<1>6. CASE Joined
  BY <1>6 DEF Joined, TypeOK, served
<1>7. ASSUME NEW s \in joining, JoinSucceeds(s) PROVE TypeOK'
  <2>1. room' \in [Slot -> AnyRoom]
    BY <1>7 DEF JoinSucceeds, TypeOK, AnyRoom
  <2> QED BY <1>7, <2>1 DEF JoinSucceeds, TypeOK
<1>8. ASSUME NEW s \in joining, JoinFails(s) PROVE TypeOK'
  <2>1. room' \in [Slot -> AnyRoom]
    <3>1. CASE Reachable(s)
      <4>1. PICK state \in {"open", "taken"} : room' = [room EXCEPT ![s.slot].state = state]
        BY <1>8, <3>1 DEF JoinFails
      <4> QED BY <4>1 DEF TypeOK, AnyRoom
    <3>2. CASE ~Reachable(s)
      BY <1>8, <3>2 DEF JoinFails, TypeOK
    <3> QED BY <3>1, <3>2
  <2>2. faults' \in 0..MaxFaults
    BY <1>8, FaultsAssumption DEF JoinFails, Fault, TypeOK
  <2> QED BY <1>8, <2>1, <2>2 DEF JoinFails, TypeOK
<1>9. ASSUME NEW s \in pool, SessionLost(s) PROVE TypeOK'
  <2>1. faults' \in 0..MaxFaults
    BY <1>9, FaultsAssumption DEF SessionLost, Fault, TypeOK
  <2> QED BY <1>9, <2>1 DEF SessionLost, TypeOK, served
<1> QED BY <1>1, <1>2, <1>3, <1>4, <1>5, <1>6, <1>7, <1>8, <1>9

\* And so do those of the served side.
LEMMA TypeOfServed ==
  ASSUME TypeOK, OffersAreSound, RoomsAreNumbered,
         \/ Serve \/ Minted
         \/ \E i \in Slot : MintSucceeds(i) \/ MintFails(i) \/ RoomEnds(i)
  PROVE  TypeOK'
<1>1. CASE Serve
  <2> DEFINE req == Head(requests)
             extra == Granted(req.extra)
  <2>1. req \in AnyRequest /\ requests' \in Seq(AnyRequest)
    BY <1>1, Popped DEF Serve, TypeOK
  <2>2. /\ serving' \in [id : Nat, slots : SUBSET Slot]
        /\ minting' \subseteq serving'.slots
        /\ room' \in [Slot -> AnyRoom]
        /\ previous' \in AnyReply /\ replies' \in Seq(AnyReply)
    <3>1. CASE Repeated(req)
      <4>1. Answer(previous) /\ UNCHANGED <<serving, room, minting>>
        BY <1>1, <3>1 DEF Serve
      <4>2. Append(replies, previous) \in Seq(AnyReply)
        BY Appended DEF TypeOK
      <4> QED BY <4>1, <4>2 DEF Answer, TypeOK
    <3>2. CASE ~Repeated(req) /\ (extra = 0 \/ Cardinality(Free) < extra)
      <4>1. Reply(req.id, {}) \in AnyReply
        BY <2>1 DEF Reply, AnyReply, AnyRequest
      <4>2. Answer(Reply(req.id, {})) /\ UNCHANGED <<serving, room, minting>>
        BY <1>1, <3>2 DEF Serve
      <4>3. Append(replies, Reply(req.id, {})) \in Seq(AnyReply)
        BY <4>1, Appended DEF TypeOK
      <4> QED BY <4>1, <4>2, <4>3 DEF Answer, TypeOK
    <3>3. CASE ~Repeated(req) /\ ~(extra = 0 \/ Cardinality(Free) < extra)
      <4>1. FirstFree(extra) \subseteq Slot
        BY DEF FirstFree, Free
      <4>2. room' = [i \in Slot |-> IF i \in minting' THEN [room[i] EXCEPT !.state = "none"]
                                    ELSE room[i]]
        BY <1>1, <3>3 DEF Serve
      <4>3. room' \in [Slot -> AnyRoom]
        BY <4>2 DEF TypeOK, AnyRoom
      <4>4. serving' \in [id : Nat, slots : SUBSET Slot] /\ minting' \subseteq serving'.slots
        BY <1>1, <2>1, <3>3, <4>1 DEF Serve, AnyRequest
      <4> QED BY <1>1, <3>3, <4>3, <4>4 DEF Serve, TypeOK
    <3> QED BY <3>1, <3>2, <3>3
  <2> QED BY <1>1, <2>1, <2>2 DEF Serve, TypeOK, controller
<1>2. CASE Minted
  <2> DEFINE S == {j \in serving.slots : Live(j)}
  <2>1. SoundOffer({Offer(i) : i \in S})
    <3>1. S \in SUBSET Slot /\ \A i \in S : room[i].gen # 0
      BY DEF TypeOK, RoomsAreNumbered
    <3> QED BY <3>1, OfferOfSlots
  <2>2. Reply(serving.id, {Offer(i) : i \in S}) \in AnyReply
    BY <2>1 DEF SoundOffer, Reply, AnyReply, TypeOK
  <2>3. previous' \in AnyReply /\ replies' \in Seq(AnyReply)
    BY <1>2, <2>2, Appended DEF Minted, Answer, TypeOK
  <2>4. serving' \in [id : Nat, slots : SUBSET Slot] /\ minting' \subseteq serving'.slots
    BY <1>2 DEF Minted, NotServing
  <2> QED BY <1>2, <2>3, <2>4 DEF Minted, TypeOK, controller
<1>3. ASSUME NEW i \in Slot, MintSucceeds(i) PROVE TypeOK'
  <2>1. room' \in [Slot -> AnyRoom]
    BY <1>3 DEF MintSucceeds, TypeOK, AnyRoom
  <2> QED BY <1>3, <2>1 DEF MintSucceeds, TypeOK, controller
<1>4. ASSUME NEW i \in Slot, MintFails(i) PROVE TypeOK'
  BY <1>4, FaultsAssumption DEF MintFails, Fault, TypeOK, controller
<1>5. ASSUME NEW i \in Slot, RoomEnds(i) PROVE TypeOK'
  <2>1. room' \in [Slot -> AnyRoom] /\ faults' \in 0..MaxFaults
    BY <1>5, FaultsAssumption DEF RoomEnds, Fault, TypeOK, AnyRoom
  <2> QED BY <1>5, <2>1 DEF RoomEnds, TypeOK, controller
<1> QED BY <1>1, <1>2, <1>3, <1>4, <1>5

-----------------------------------------------------------------------------
(* What is offered and what is being joined *)

\* The controller only takes offers.
LEMMA OffersTaken ==
  ASSUME IInv,
         \/ RelayDetected \/ Maintain \/ HandleReply \/ TakeResult \/ Timeout \/ Joined
         \/ \E s \in joining : JoinSucceeds(s) \/ JoinFails(s)
         \/ \E s \in pool : SessionLost(s)
  PROVE  OffersAreSound'
<1>1. CASE HandleReply
  <2>1. \A n \in DOMAIN replies' : SoundOffer(replies'[n].shares)
    BY <1>1, HeadTailProperties DEF HandleReply, IInv, TypeOK, OffersAreSound
  <2>2. SoundOffer(Head(replies).shares)
    BY <1>1 DEF HandleReply, IInv, TypeOK, OffersAreSound
  <2>3. \A n \in DOMAIN result' : SoundOffer(result'[n].shares)
    <3>1. CASE result' = result
      BY <3>1 DEF IInv, OffersAreSound
    <3>2. CASE result' = <<Head(replies)>>
      BY <2>2, <3>2
    <3> QED BY <1>1, <3>1, <3>2 DEF HandleReply, QueueResult
  <2> QED BY <1>1, <2>1, <2>3 DEF HandleReply, served, IInv, OffersAreSound
<1>2. CASE TakeResult
  BY <1>2 DEF TakeResult, served, IInv, OffersAreSound
<1>3. CASE UNCHANGED <<previous, replies, result>>
  BY <1>3 DEF IInv, OffersAreSound
<1> QED
  BY <1>1, <1>2, <1>3 DEF RelayDetected, Maintain, Timeout, Joined, JoinSucceeds, JoinFails,
     SessionLost, served

\* The minter's offers are sound.
LEMMA OffersMade ==
  ASSUME IInv,
         \/ Serve \/ Minted
         \/ \E i \in Slot : MintSucceeds(i) \/ MintFails(i) \/ RoomEnds(i)
  PROVE  OffersAreSound'
<1> DEFINE S == {j \in serving.slots : Live(j)}
<1>1. SoundOffer({})
  BY FS_EmptySet DEF SoundOffer
<1>2. SoundOffer({Offer(i) : i \in S})
  <2>1. S \in SUBSET Slot /\ \A i \in S : room[i].gen # 0
    BY DEF IInv, TypeOK, RoomsAreNumbered
  <2> QED BY <2>1, OfferOfSlots DEF IInv
<1>3. ASSUME NEW reply \in AnyReply, Answer(reply), SoundOffer(reply.shares), result' = result
      PROVE  OffersAreSound'
  <2>1. \A n \in DOMAIN replies' : replies'[n] = reply \/ (n \in DOMAIN replies /\ replies'[n] = replies[n])
    BY <1>3, Appended DEF Answer, IInv, TypeOK
  <2>2. \A n \in DOMAIN replies' : SoundOffer(replies'[n].shares)
    BY <1>3, <2>1 DEF IInv, OffersAreSound
  <2> QED BY <1>3, <2>2 DEF Answer, IInv, OffersAreSound
<1>4. CASE Serve
  <2> DEFINE req == Head(requests)
  <2>1. req \in AnyRequest
    BY <1>4, Popped DEF Serve, IInv, TypeOK
  <2>2. CASE Answer(previous)
    BY <1>3, <1>4, <2>2 DEF Serve, controller, IInv, TypeOK, OffersAreSound
  <2>3. CASE Answer(Reply(req.id, {}))
    <3>1. Reply(req.id, {}) \in AnyReply /\ Reply(req.id, {}).shares = {}
      BY <2>1 DEF Reply, AnyReply, AnyRequest
    <3> QED BY <1>1, <1>3, <1>4, <2>3, <3>1 DEF Serve, controller
  <2>4. CASE UNCHANGED <<previous, replies>>
    BY <1>4, <2>4 DEF Serve, controller, IInv, OffersAreSound
  <2> QED BY <1>4, <2>2, <2>3, <2>4 DEF Serve
<1>5. CASE Minted
  <2>1. Reply(serving.id, {Offer(i) : i \in S}) \in AnyReply
    BY <1>2 DEF SoundOffer, Reply, AnyReply, IInv, TypeOK
  <2>2. Reply(serving.id, {Offer(i) : i \in S}).shares = {Offer(i) : i \in S}
    BY DEF Reply
  <2>3. Answer(Reply(serving.id, {Offer(i) : i \in S})) /\ result' = result
    BY <1>5 DEF Minted, controller
  <2> QED BY <1>2, <1>3, <2>1, <2>2, <2>3
<1>6. CASE UNCHANGED <<previous, replies, result>>
  BY <1>6 DEF IInv, OffersAreSound
<1> QED BY <1>4, <1>5, <1>6 DEF MintSucceeds, MintFails, RoomEnds, controller

\* A room that opens gets a new incarnation, and no other step resets it.
LEMMA NumbersKept ==
  ASSUME TypeOK, TypeOK', RoomsAreNumbered, Next
  PROVE  RoomsAreNumbered'
<1> SUFFICES ASSUME NEW i \in Slot, Live(i)' PROVE room'[i].gen # 0
  BY DEF RoomsAreNumbered
<1>1. CASE room'[i] = room[i]
  BY <1>1 DEF RoomsAreNumbered, Live
<1>2. CASE Serve
  <2>1. room'[i] = room[i] \/ room'[i] = [room[i] EXCEPT !.state = "none"]
    BY <1>2 DEF Serve
  <2> QED BY <1>1, <2>1 DEF Live, TypeOK, AnyRoom
<1>3. ASSUME NEW s \in joining, JoinSucceeds(s) PROVE room'[i].gen # 0
  <2>1. s.slot \in Slot /\ Live(s.slot)
    BY <1>3 DEF JoinSucceeds, Reachable, Live, TypeOK, Share
  <2> QED BY <1>1, <1>3, <2>1 DEF JoinSucceeds, RoomsAreNumbered, TypeOK, AnyRoom
<1>4. ASSUME NEW s \in joining, JoinFails(s) PROVE room'[i].gen # 0
  <2>1. CASE Reachable(s)
    <3>1. s.slot \in Slot /\ Live(s.slot)
      BY <2>1 DEF Reachable, Live, TypeOK, Share
    <3>2. PICK state \in {"open", "taken"} : room' = [room EXCEPT ![s.slot].state = state]
      BY <1>4, <2>1 DEF JoinFails
    <3> QED BY <1>1, <3>1, <3>2 DEF RoomsAreNumbered, TypeOK, AnyRoom
  <2>2. CASE ~Reachable(s)
    BY <1>1, <1>4, <2>2 DEF JoinFails
  <2> QED BY <2>1, <2>2
<1>5. ASSUME NEW j \in Slot, MintSucceeds(j) PROVE room'[i].gen # 0
  BY <1>1, <1>5 DEF MintSucceeds, TypeOK, AnyRoom
<1>6. ASSUME NEW j \in Slot, RoomEnds(j) PROVE room'[i].gen # 0
  BY <1>1, <1>6 DEF RoomEnds, RoomsAreNumbered, TypeOK, AnyRoom
<1>7. CASE room' = room
  BY <1>1, <1>7
<1> QED
  BY <1>2, <1>3, <1>4, <1>5, <1>6, <1>7 DEF Next, RelayDetected, Maintain, HandleReply,
     TakeResult, Timeout, Joined, SessionLost, Minted, MintFails, served

-----------------------------------------------------------------------------
(* The pool *)

Fits == PoolWithinTarget /\ NeverRejoins /\ JoinsFollowOffers /\ RequestFits

\* Asking for a batch: the pool has room for it.
LEMMA MaintainFits == ASSUME IInv, Maintain PROVE Fits'
<1>1. Cardinality(pool) \in Nat
  BY FS_CardinalityType DEF IInv, JoinsFollowOffers
<1>2. Size' = Size /\ Size \in Nat /\ Target \in Nat /\ batch \in Nat
  BY <1>1, TargetAssumption DEF Maintain, Size, IInv, TypeOK
<1>3. Size' + batch' <= Target
  BY <1>2 DEF Maintain
<1>4. PoolWithinTarget'
  BY <1>2 DEF Maintain, IInv, PoolWithinTarget
<1>5. NeverRejoins' /\ JoinsFollowOffers'
  BY DEF Maintain, IInv, NeverRejoins, JoinsFollowOffers
<1> QED BY <1>3, <1>4, <1>5 DEF Fits, RequestFits

\* Joining what is not known of an acceptable offer: as many as were asked for,
\* at most, and none that is in the pool, for the pool is known.
LEMMA TakeResultFits == ASSUME IInv, TakeResult PROVE Fits'
<1> DEFINE shares == Head(result).shares
<1>1. SoundOffer(shares)
  BY DEF TakeResult, IInv, TypeOK, OffersAreSound
<1>2. joining = {} /\ Size + batch <= Target
  BY DEF TakeResult, IInv, JoinsFollowOffers, RequestFits
<1>3. pool' = pool /\ Size' = Size
  BY DEF TakeResult, Size
<1>4. CASE Acceptable(shares)
  <2>1. joining' = NotKnown(shares) /\ step' = "join" /\ known' = known
    BY <1>4 DEF TakeResult
  <2>2. SoundOffer(joining')
    BY <1>1, <2>1, SubOffer DEF NotKnown
  <2>3. NeverRejoins'
    BY <1>3, <2>1 DEF NotKnown, NeverRejoins, IInv, JoinsFollowOffers
  <2>4. Cardinality(joining') <= batch
    <3>1. /\ Cardinality(NotKnown(shares)) <= Cardinality(shares)
          /\ Cardinality(NotKnown(shares)) \in Nat /\ Cardinality(shares) \in Nat
      BY <1>1, <2>1, <2>2, FS_Subset, FS_CardinalityType DEF NotKnown, SoundOffer
    <3> QED BY <1>4, <2>1, <3>1 DEF Acceptable, IInv, TypeOK
  <2>5. joining' \ pool' = joining'
    BY <2>3 DEF NeverRejoins
  <2>6. PoolWithinTarget'
    <3>1. Size \in Nat /\ batch \in Nat /\ Cardinality(joining') \in Nat
      BY <2>2, FS_CardinalityType DEF Size, SoundOffer, IInv, TypeOK, JoinsFollowOffers
    <3> QED BY <1>2, <1>3, <2>4, <2>5, <3>1, TargetAssumption DEF PoolWithinTarget
  <2> QED BY <1>3, <2>1, <2>2, <2>3, <2>6 DEF Fits, JoinsFollowOffers, RequestFits, IInv
<1>5. CASE ~Acceptable(shares)
  <2>1. step' = "wait" /\ joining' = joining /\ known' = known
    BY <1>5 DEF TakeResult
  <2> QED
    BY <1>2, <1>3, <2>1 DEF Fits, IInv, PoolWithinTarget, NeverRejoins, JoinsFollowOffers, RequestFits
<1> QED BY <1>4, <1>5

\* A join that succeeds moves its share from joining to the pool.
LEMMA JoinSucceedsFits == ASSUME IInv, NEW s \in joining, JoinSucceeds(s) PROVE Fits'
<1>1. s \notin pool /\ step = "join" /\ step' = "join"
  BY DEF IInv, NeverRejoins, JoinsFollowOffers, JoinSucceeds
<1>2. SoundOffer(joining')
  BY SubOffer DEF JoinSucceeds, IInv, JoinsFollowOffers
<1>3. NeverRejoins'
  BY DEF JoinSucceeds, IInv, NeverRejoins, JoinsFollowOffers, SoundOffer
<1>4. /\ IsFiniteSet(pool') /\ Cardinality(pool') = Cardinality(pool) + 1
      /\ Cardinality(pool) \in Nat
  BY <1>1, FS_AddElement, FS_CardinalityType DEF JoinSucceeds, IInv, JoinsFollowOffers
<1>5. joining' \ pool' = joining \ {s} /\ joining \ pool = joining
  BY <1>3 DEF JoinSucceeds, IInv, NeverRejoins
<1>6. /\ Cardinality(joining \ {s}) = Cardinality(joining) - 1
      /\ Cardinality(joining) \in Nat
  BY FS_RemoveElement, FS_CardinalityType DEF IInv, JoinsFollowOffers, SoundOffer
<1>7. PoolWithinTarget'
  <2>1. Size' = Size + 1 /\ Size \in Nat
    BY <1>4 DEF Size
  <2>2. Cardinality((joining \ pool)') = Cardinality(joining) - 1
    BY <1>5, <1>6
  <2>3. Size + Cardinality(joining) <= Target
    BY <1>5 DEF IInv, PoolWithinTarget
  <2> QED BY <1>6, <2>1, <2>2, <2>3, TargetAssumption DEF PoolWithinTarget
<1> QED
  BY <1>1, <1>2, <1>3, <1>4, <1>7 DEF Fits, JoinSucceeds, IInv, JoinsFollowOffers, RequestFits

\* A join that fails makes room.
LEMMA JoinFailsFits == ASSUME IInv, NEW s \in joining, JoinFails(s) PROVE Fits'
<1>1. SoundOffer(joining')
  BY SubOffer DEF JoinFails, IInv, JoinsFollowOffers
<1>2. NeverRejoins' /\ step = "join"
  BY DEF JoinFails, IInv, NeverRejoins, JoinsFollowOffers
<1>3. joining' \ pool' = joining \ {s} /\ joining \ pool = joining
  BY DEF JoinFails, IInv, NeverRejoins
<1>4. /\ Cardinality(joining \ {s}) = Cardinality(joining) - 1
      /\ Cardinality(joining) \in Nat /\ Cardinality(pool) \in Nat
  BY FS_RemoveElement, FS_CardinalityType DEF IInv, JoinsFollowOffers, SoundOffer
<1>5. PoolWithinTarget'
  <2>1. Size' = Size /\ Size \in Nat
    BY <1>4 DEF JoinFails, Size
  <2>2. Cardinality((joining \ pool)') = Cardinality(joining) - 1
    BY <1>3, <1>4
  <2>3. Size + Cardinality(joining) <= Target
    BY <1>3 DEF IInv, PoolWithinTarget
  <2> QED BY <1>4, <2>1, <2>2, <2>3, TargetAssumption DEF PoolWithinTarget
<1> QED BY <1>1, <1>2, <1>5 DEF Fits, JoinFails, IInv, JoinsFollowOffers, RequestFits

\* A session that is lost makes room, also for the request that is out.
LEMMA SessionLostFits == ASSUME IInv, NEW s \in pool, SessionLost(s) PROVE Fits'
<1>1. /\ IsFiniteSet(pool') /\ Cardinality(pool') = Cardinality(pool) - 1
      /\ Cardinality(pool) \in Nat
  BY FS_RemoveElement, FS_CardinalityType DEF SessionLost, IInv, JoinsFollowOffers
<1>2. NeverRejoins' /\ joining' = joining /\ step' = step /\ batch' = batch /\ pool' \subseteq known'
  BY DEF SessionLost, IInv, NeverRejoins, JoinsFollowOffers
<1>3. joining' \ pool' = joining /\ joining \ pool = joining
  BY <1>2 DEF IInv, NeverRejoins
<1>4. Cardinality(joining) \in Nat /\ batch \in Nat
  BY FS_CardinalityType DEF IInv, TypeOK, JoinsFollowOffers, SoundOffer
<1>5. PoolWithinTarget'
  <2>1. Size' = Size - 1 /\ Size \in Nat
    BY <1>1 DEF Size
  <2>2. Cardinality((joining \ pool)') = Cardinality(joining)
    BY <1>3
  <2>3. Size + Cardinality(joining) <= Target
    BY <1>3 DEF IInv, PoolWithinTarget
  <2> QED BY <1>4, <2>1, <2>2, <2>3, TargetAssumption DEF PoolWithinTarget
<1>6. RequestFits'
  BY <1>1, <1>2, <1>4, TargetAssumption DEF IInv, RequestFits, Size
<1> QED BY <1>1, <1>2, <1>5, <1>6 DEF Fits, IInv, JoinsFollowOffers

\* No other step touches the pool or what is asked for it.
LEMMA NextFits == ASSUME IInv, Next PROVE Fits'
<1>1. CASE UNCHANGED <<step, batch, known, joining, pool>>
  BY <1>1 DEF Fits, IInv, PoolWithinTarget, NeverRejoins, JoinsFollowOffers, RequestFits, Size
<1>2. CASE /\ UNCHANGED <<batch, known, joining, pool>>
           /\ step' \in {"wait", "off"}
           /\ RelayDetected \/ Timeout \/ Joined
  <2>1. RelayDetected => step = "off"
    BY DEF RelayDetected, IInv, StartedOnce
  <2>2. joining' = {}
    BY <1>2, <2>1 DEF Timeout, Joined, IInv, JoinsFollowOffers
  <2> QED
    BY <1>2, <2>2 DEF Fits, IInv, PoolWithinTarget, NeverRejoins, JoinsFollowOffers, RequestFits, Size
<1> QED
  BY <1>1, <1>2, MaintainFits, TakeResultFits, JoinSucceedsFits, JoinFailsFits, SessionLostFits
  DEF Next, RelayDetected, Timeout, Joined, HandleReply, Serve, Minted, MintSucceeds, MintFails,
      RoomEnds, controller

\* The flag of OnModeDetected is never reset.
LEMMA StaysStarted == ASSUME StartedOnce, Next PROVE StartedOnce'
<1>1. CASE RelayDetected
  BY <1>1 DEF RelayDetected, StartedOnce
<1>2. (expanding' = expanding /\ (step = "off" => step' = "off")) \/ RelayDetected
  BY DEF Next, Maintain, HandleReply, TakeResult, Timeout, Joined, JoinSucceeds, JoinFails,
     SessionLost, Serve, Minted, MintSucceeds, MintFails, RoomEnds, controller
<1> QED BY <1>1, <1>2 DEF StartedOnce

-----------------------------------------------------------------------------
(* The theorems *)

\* The inductive invariant holds of every step.
LEMMA Inductive == ASSUME IInv, [Next]_vars PROVE IInv'
<1>1. CASE Next
  <2>1. TypeOK'
    BY <1>1, TypeOfController, TypeOfServed DEF Next, IInv, JoinsFollowOffers
  <2>2. OffersAreSound'
    BY <1>1, OffersTaken, OffersMade DEF Next
  <2>3. RoomsAreNumbered'
    BY <1>1, <2>1, NumbersKept DEF IInv
  <2>4. Fits' /\ StartedOnce'
    BY <1>1, NextFits, StaysStarted DEF IInv
  <2> QED BY <2>1, <2>2, <2>3, <2>4 DEF IInv, Fits
<1>2. CASE UNCHANGED vars
  <2>1. TypeOK'
    BY <1>2 DEF vars, controller, served, IInv, TypeOK
  <2>2. OffersAreSound' /\ RoomsAreNumbered' /\ StartedOnce'
    BY <1>2 DEF vars, controller, served, IInv, OffersAreSound, RoomsAreNumbered, StartedOnce, Live
  <2>3. PoolWithinTarget' /\ NeverRejoins' /\ JoinsFollowOffers' /\ RequestFits'
    BY <1>2 DEF vars, controller, served, IInv, PoolWithinTarget, NeverRejoins,
                JoinsFollowOffers, RequestFits, Size
  <2> QED BY <2>1, <2>2, <2>3 DEF IInv
<1> QED BY <1>1, <1>2

\* Replies are the ones asked for, or late, or those of an earlier request; all
\* the same the invariant holds.
THEOREM Invariance == Spec => []IInv
BY Initially, Inductive, PTL DEF Spec

\* Of maintainControllerPool: whatever reply it gets, the pool stays within
\* its target.
THEOREM PoolStaysWithinTarget == Spec => []PoolWithinTarget
<1>1. IInv => PoolWithinTarget
  BY DEF IInv
<1> QED BY <1>1, Invariance, PTL

\* Of maintainControllerPool: no connect ID gets a second session.
THEOREM NoRoomIsRejoined == Spec => []NeverRejoins
<1>1. IInv => NeverRejoins
  BY DEF IInv
<1> QED BY <1>1, Invariance, PTL

\* The type invariant, with the capacity of the negotiator's result channel.
THEOREM TypeCorrect == Spec => []TypeOK
<1>1. IInv => TypeOK
  BY DEF IInv
<1> QED BY <1>1, Invariance, PTL

-----------------------------------------------------------------------------
(* Healthy rooms *)

\* What the minter works on has no room until it is minted.
MintsAreFree == \A i \in minting : room[i].state = "none"

\* A slot without a live room is none that a controller can reach, and Serve
\* hands the minter only slots that it has cleared.
LEMMA MintsStayFree == ASSUME IInv, MintsAreFree, [Next]_vars PROVE MintsAreFree'
<1>1. CASE UNCHANGED <<room, minting>>
  BY <1>1 DEF MintsAreFree
<1>2. CASE Serve
  <2>1. UNCHANGED <<room, minting>> \/ \A i \in minting' : room'[i] = [room[i] EXCEPT !.state = "none"]
    <3>1. FirstFree(Granted(Head(requests).extra)) \subseteq Slot
      BY DEF FirstFree, Free
    <3> QED BY <1>2, <3>1 DEF Serve
  <2>2. minting' \subseteq Slot
    BY <1>2 DEF Serve, FirstFree, Free, IInv, TypeOK
  <2>3. \A i \in Slot : [room[i] EXCEPT !.state = "none"].state = "none"
    BY DEF IInv, TypeOK, AnyRoom
  <2> QED BY <1>1, <2>1, <2>2, <2>3 DEF MintsAreFree
<1>3. ASSUME minting' = minting,
             NEW i \in Slot, Live(i), \A j \in Slot : j # i => room'[j] = room[j]
      PROVE  MintsAreFree'
  BY <1>3 DEF MintsAreFree, Live, IInv, TypeOK
<1>4. ASSUME NEW s \in joining, JoinSucceeds(s) PROVE MintsAreFree'
  <2>1. s.slot \in Slot /\ Live(s.slot)
    BY <1>4 DEF JoinSucceeds, Reachable, Live, IInv, TypeOK, Share
  <2> QED BY <1>3, <1>4, <2>1 DEF JoinSucceeds, IInv, TypeOK
<1>5. ASSUME NEW s \in joining, JoinFails(s) PROVE MintsAreFree'
  <2>1. CASE Reachable(s)
    <3>1. s.slot \in Slot /\ Live(s.slot)
      BY <2>1 DEF Reachable, Live, IInv, TypeOK, Share
    <3> QED BY <1>3, <1>5, <2>1, <3>1 DEF JoinFails, IInv, TypeOK
  <2> QED BY <1>1, <1>5, <2>1 DEF JoinFails
<1>6. ASSUME NEW i \in Slot, RoomEnds(i) PROVE MintsAreFree'
  BY <1>3, <1>6 DEF RoomEnds, IInv, TypeOK
<1>7. ASSUME NEW i \in Slot, MintSucceeds(i) PROVE MintsAreFree'
  BY <1>7 DEF MintSucceeds, MintsAreFree, IInv, TypeOK
<1>8. ASSUME NEW i \in Slot, MintFails(i) PROVE MintsAreFree'
  BY <1>8 DEF MintFails, MintsAreFree
<1> QED
  BY <1>1, <1>2, <1>4, <1>5, <1>6, <1>7, <1>8 DEF Next, RelayDetected, Maintain, HandleReply,
     TakeResult, Timeout, Joined, SessionLost, Minted, vars, served

\* A step keeps the incarnation of every live room, and removes none of them.
LEMMA StepLeavesHealthy ==
  ASSUME IInv, MintsAreFree, [Next]_vars
  PROVE  \A i \in Slot : Live(i) => room'[i].gen = room[i].gen /\ room'[i].state # "none"
<1> SUFFICES ASSUME NEW i \in Slot, Live(i)
             PROVE  room'[i].gen = room[i].gen /\ room'[i].state # "none"
  OBVIOUS
<1>1. CASE room'[i] = room[i]
  BY <1>1 DEF Live
<1>2. ASSUME NEW j \in Slot, NEW state \in {"open", "taken", "done"},
             room' = [room EXCEPT ![j].state = state]
      PROVE  room'[i].gen = room[i].gen /\ room'[i].state # "none"
  BY <1>2 DEF Live, IInv, TypeOK, AnyRoom
<1>3. CASE Serve
  <2>1. i \notin FirstFree(Granted(Head(requests).extra))
    BY DEF FirstFree, Free
  <2> QED BY <1>1, <1>3, <2>1 DEF Serve
<1>4. ASSUME NEW s \in joining, JoinSucceeds(s)
      PROVE  room'[i].gen = room[i].gen /\ room'[i].state # "none"
  <2>1. s.slot \in Slot
    BY DEF IInv, TypeOK, Share
  <2> QED BY <1>2, <1>4, <2>1 DEF JoinSucceeds
<1>5. ASSUME NEW s \in joining, JoinFails(s)
      PROVE  room'[i].gen = room[i].gen /\ room'[i].state # "none"
  <2>1. s.slot \in Slot
    BY DEF IInv, TypeOK, Share
  <2> QED BY <1>1, <1>2, <1>5, <2>1 DEF JoinFails
<1>6. ASSUME NEW j \in Slot, RoomEnds(j)
      PROVE  room'[i].gen = room[i].gen /\ room'[i].state # "none"
  BY <1>2, <1>6 DEF RoomEnds
<1>7. ASSUME NEW j \in Slot, MintSucceeds(j)
      PROVE  room'[i].gen = room[i].gen /\ room'[i].state # "none"
  <2>1. i # j
    BY <1>7 DEF MintSucceeds, MintsAreFree, Live
  <2> QED BY <1>1, <1>7, <2>1 DEF MintSucceeds, IInv, TypeOK
<1>8. CASE UNCHANGED room
  BY <1>1, <1>8
<1> QED
  BY <1>3, <1>4, <1>5, <1>6, <1>7, <1>8 DEF Next, RelayDetected, Maintain, HandleReply,
     TakeResult, Timeout, Joined, SessionLost, Minted, MintFails, vars, served

\* Of newExpansionMinter: rooms end and controllers join while it works, and
\* still no slot that has a live room is minted again.
THEOREM HealthyStaysUntouched == Spec => HealthyUntouched
<1>1. Init => MintsAreFree
  BY DEF Init, MintsAreFree
<1>2. Spec => []MintsAreFree
  BY <1>1, Invariance, MintsStayFree, PTL DEF Spec
<1> QED
  BY <1>2, Invariance, StepLeavesHealthy, PTL DEF Spec, HealthyUntouched
=============================================================================
