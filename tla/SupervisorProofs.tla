---------------------------- MODULE SupervisorProofs ----------------------------
(***************************************************************************)
(* Theorems about Supervisor, for any number of generations and whatever   *)
(* goes wrong with the workers: nothing of a canceled generation is held,  *)
(* every request is held once, and the supervisor keeps the promises that  *)
(* the daemon is built on (module Transcriber).                            *)
(***************************************************************************)
EXTENDS Supervisor, FiniteSetTheorems, TLAPS

\* What is watched says whether a worker is there.
StatusFollows ==
  /\ phase \in {"restart", "starting"} => status = "Loading"
  /\ phase \in {"idle", "running"} => status = "Ready"
  /\ phase = "fatal" => status = "Unavailable"

\* A request in the channel is there once, is not held, and is not answered.
ChannelOK ==
  \A i \in DOMAIN commands : commands[i].kind # "cancel" =>
    /\ commands[i] \notin Accepted
    /\ oneshot[commands[i]] \in {"open", "closed"}
    /\ \A j \in DOMAIN commands : commands[j] = commands[i] => i = j

\* The preview with the worker is not in the slot as well.
Apart == active # Preview(slot)

Holding == CanceledIsGone /\ HeldOnce /\ Apart

Supervising == TypeOK /\ StatusFollows /\ Holding /\ ChannelOK
-------------------------------------------------------------------------------
(* Requests *)
Requests == Contract!Request

LEMMA RequestForms ==
  /\ \A g \in Contract!Generations : Preview(g) \in Requests /\ Final(g) \in Requests
  /\ \A g : Preview(g).gen = g /\ Preview(g).kind = "preview"
  /\ \A g : Final(g).gen = g /\ Final(g).kind = "final"
  /\ \A g, h : Final(g) # Preview(h) /\ Preview(g) # NoRequest /\ Final(g) # NoRequest
  /\ NoRequest \notin Requests /\ Preview(None) \notin Requests
  /\ \A r \in Requests : r.gen \in Contract!Generations
  /\ \A r \in Requests : r = Preview(r.gen) \/ r = Final(r.gen)
  /\ None \notin Contract!Generations /\ Contract!Generations \subseteq Nat
<1>1. None \notin Contract!Generations /\ Contract!Generations \subseteq Nat
  BY DEF None, Contract!Generations
<1> HIDE DEF Contract!Generations
<1> USE DEF Requests, Contract!Request, Preview, Final, NoRequest
<1>2. \A g \in Contract!Generations : Preview(g) \in Requests /\ Final(g) \in Requests
  OBVIOUS
<1>3. /\ \A g : Preview(g).gen = g /\ Preview(g).kind = "preview"
      /\ \A g : Final(g).gen = g /\ Final(g).kind = "final"
  OBVIOUS
<1>4. NoRequest.kind = "none"
  OBVIOUS
<1>5. \A g, h : Final(g) # Preview(h) /\ Preview(g) # NoRequest /\ Final(g) # NoRequest
  OBVIOUS
<1>6. \A r \in Requests : r.gen \in Contract!Generations
  OBVIOUS
<1>7. \A r \in Requests : r = Preview(r.gen) \/ r = Final(r.gen)
  OBVIOUS
<1>8. NoRequest \notin Requests /\ Preview(None) \notin Requests
  <2>1. \A r \in Requests : r.kind # "none" /\ r.gen # None
    BY <1>1
  <2> HIDE DEF Requests
  <2> QED BY <1>3, <1>4, <2>1
<1> QED BY <1>1, <1>2, <1>3, <1>5, <1>6, <1>7, <1>8

\* The commands of the channel: requests and cancellations.
LEMMA CommandForms ==
  \A c \in Contract!Command :
    /\ c.gen \in Contract!Generations
    /\ c.kind # "cancel" => c \in Requests
  BY DEF Contract!Command, Requests, Contract!Request

\* What is held, case by case.
LEMMA Held ==
  \A r : r \in Accepted <=>
    \/ \E i \in DOMAIN finals : r = Final(finals[i])
    \/ slot # None /\ r = Preview(slot)
    \/ active # NoRequest /\ r = active
  BY DEF Accepted

\* A reply is given to the requests that are waited for, and to no other.
LEMMA Answers ==
  \A R, result :
    /\ result \in Contract!Reply /\ oneshot \in [Requests -> Contract!Reply] =>
         Answered(R, result) \in [Requests -> Contract!Reply]
    /\ \A r \in Requests \ R : Answered(R, result)[r] = oneshot[r]
    /\ oneshot \in [Requests -> Contract!Reply] => Answered({}, result) = oneshot
    /\ \A S : R \cap Requests = S \cap Requests => Answered(R, result) = Answered(S, result)
  BY DEF Answered, Contract!Answered, Requests

\* What the types say of what is held.
LEMMA HeldTypes ==
  ASSUME Supervising
  PROVE  /\ finals \in Seq(Contract!Generations) /\ slot \in Contract!Generations \cup {None}
         /\ active \in Requests \cup {NoRequest}
         /\ oneshot \in [Requests -> Contract!Reply]
         /\ canceledGen \in Contract!Generations \cup {None} /\ canceledGen \in Nat
         /\ Accepted \subseteq Requests /\ IsInjective(finals)
         /\ commands \in Seq(Contract!Command)
<1>1. /\ finals \in Seq(Contract!Generations) /\ slot \in Contract!Generations \cup {None}
      /\ active \in Requests \cup {NoRequest}
  BY DEF Supervising, TypeOK, Requests
<1>2. /\ oneshot \in [Requests -> Contract!Reply] /\ Accepted \subseteq Requests
      /\ canceledGen \in Contract!Generations \cup {None}
      /\ commands \in Seq(Contract!Command)
  BY DEF Supervising, TypeOK, Contract!ServiceTypeOK, Requests, None, Contract!None
<1>3. canceledGen \in Nat
  BY <1>2 DEF None, Contract!Generations
<1>4. IsInjective(finals)
  BY DEF Supervising, Holding, HeldOnce
<1> QED BY <1>1, <1>2, <1>3, <1>4

LEMMA LargerIs ==
  \A a, b \in Nat :
    /\ Contract!Larger(a, b) \in {a, b}
    /\ a <= Contract!Larger(a, b) /\ b <= Contract!Larger(a, b)
  BY DEF Contract!Larger
-------------------------------------------------------------------------------
(* RequestQueue *)

\* cancel keeps the finals of later generations, and no others.
LEMMA RetainedFinals ==
  ASSUME finals \in Seq(Contract!Generations), NEW bound, NEW rest, Retained(rest, bound)
  PROVE  /\ rest \in Seq(Contract!Generations)
         /\ \A i \in DOMAIN rest :
              rest[i] > bound /\ \E j \in DOMAIN finals : rest[i] = finals[j]
         /\ \A j \in DOMAIN finals :
              finals[j] > bound => \E i \in DOMAIN rest : rest[i] = finals[j]
         /\ IsInjective(finals) => IsInjective(rest)
<1> DEFINE kept == {i \in DOMAIN finals : finals[i] > bound}
           n == Cardinality(kept)
<1>1. n \in Nat
  <2>1. IsFiniteSet(DOMAIN finals)
    BY FS_Interval
  <2> QED BY <2>1, FS_Subset, FS_CardinalityType
<1>2. PICK place \in Bijection(1 .. n, kept) :
        rest = [i \in DOMAIN place |-> finals[place[i]]]
  BY DEF Retained
<1>3. /\ place \in [1 .. n -> kept] /\ IsInjective(place)
      /\ \A j \in kept : \E i \in 1 .. n : place[i] = j
  BY DEF Bijection, Injection, Surjection
<1> HIDE DEF n
<1>4. rest = [i \in 1 .. n |-> finals[place[i]]]
  BY <1>2, <1>3
<1>5. /\ \A i \in 1 .. n : place[i] \in DOMAIN finals /\ finals[place[i]] > bound
      /\ \A j \in DOMAIN finals : finals[j] > bound => \E i \in 1 .. n : place[i] = j
  BY <1>3
<1> HIDE DEF kept
<1>6. rest \in Seq(Contract!Generations)
  <2>1. rest \in [1 .. n -> Contract!Generations]
    BY <1>4, <1>5
  <2> QED BY <1>1, <2>1
<1>7. IsInjective(finals) => IsInjective(rest)
  BY <1>3, <1>4, <1>5 DEF IsInjective
<1> QED BY <1>4, <1>5, <1>6, <1>7

\* What a request that is pushed does.
LEMMA Pushing ==
  ASSUME Supervising, NEW r \in Requests, r \notin Accepted,
         oneshot[r] \in {"open", "closed"}, Push(r), UNCHANGED <<active, phase>>
  PROVE  /\ finals' \in Seq(Contract!Generations)
         /\ slot' \in Contract!Generations \cup {None} /\ canceledGen' = canceledGen
         /\ Holding'
         /\ \/ /\ r.gen <= canceledGen /\ Accepted' = Accepted
               /\ oneshot' = Answered({r}, "nothing")
            \/ /\ r.gen > canceledGen
               /\ \E superseded \in SUBSET {q \in Accepted : q.kind = "preview"} :
                    /\ Accepted' = (Accepted \ superseded) \cup {r}
                    /\ oneshot' = Answered(superseded, "nothing")
<1>1. /\ finals \in Seq(Contract!Generations) /\ slot \in Contract!Generations \cup {None}
      /\ active \in Requests \cup {NoRequest} /\ oneshot \in [Requests -> Contract!Reply]
      /\ canceledGen \in Nat /\ canceledGen' = canceledGen
      /\ Accepted \subseteq Requests /\ IsInjective(finals)
      /\ r.gen \in Contract!Generations /\ r.gen \in Nat
  BY HeldTypes, RequestForms DEF Push
<1>2. CASE Canceled(r)
  <2>1. /\ oneshot' = Answered({r}, "nothing") /\ UNCHANGED <<finals, slot, active, canceledGen>>
    BY <1>2 DEF Push
  <2>2. Accepted' = Accepted
    BY <2>1 DEF Accepted
  <2>3. \A q \in Accepted : oneshot'[q] = oneshot[q]
    BY <1>1, <2>1, Answers
  <2>4. Holding'
    BY <2>1, <2>2, <2>3 DEF Supervising, Holding, CanceledIsGone, HeldOnce, Apart
  <2> QED BY <1>1, <1>2, <2>1, <2>2, <2>4 DEF Canceled
<1>3. CASE ~Canceled(r) /\ r.kind = "preview"
  <2>1. /\ slot' = r.gen /\ oneshot' = Answered({Preview(slot)} \ {r}, "nothing")
        /\ UNCHANGED <<finals, active, canceledGen>> /\ r = Preview(r.gen)
    BY <1>3, RequestForms DEF Push
  <2> DEFINE superseded == {Preview(slot)} \cap Accepted
  <2>2. superseded \subseteq {q \in Accepted : q.kind = "preview"} /\ superseded \subseteq Requests
    BY <1>1, RequestForms
  <2>3. oneshot' = Answered(superseded, "nothing")
    <3>1. slot = None \/ Preview(slot) \in Accepted
      BY Held
    <3>2. slot = None => Preview(slot) \notin Requests
      BY RequestForms
    <3>3. (({Preview(slot)} \ {r}) \cap Requests) = superseded \cap Requests
      BY <3>1, <3>2
    <3> QED BY <2>1, <3>3, Answers
  <2>4. Preview(slot) # active
    BY DEF Supervising, Holding, Apart
  <2>5. Accepted' = (Accepted \ superseded) \cup {r}
    <3>1. \A q : q \in Accepted' <=>
            \/ \E i \in DOMAIN finals : q = Final(finals[i])
            \/ q = r
            \/ active # NoRequest /\ q = active
      BY <1>1, <2>1, RequestForms DEF Accepted
    <3> QED BY <2>4, <3>1, Held, RequestForms
  <2>6. Holding'
    <3>1. CanceledIsGone'
      BY <1>1, <1>3, <2>1, <2>5 DEF CanceledIsGone, Supervising, Holding, Canceled
    <3>2. \A q \in Accepted' : oneshot'[q] \in {"open", "closed"}
      BY <1>1, <2>3, <2>5, Answers DEF Supervising, Holding, HeldOnce
    <3>3. Apart'
      BY <2>1, Held, RequestForms DEF Apart
    <3> QED BY <2>1, <3>1, <3>2, <3>3 DEF Supervising, Holding, HeldOnce
  <2> QED BY <1>1, <1>3, <2>1, <2>2, <2>3, <2>5, <2>6 DEF Canceled
<1>4. CASE ~Canceled(r) /\ r.kind = "final"
  <2>1. /\ finals' = Append(finals, r.gen) /\ UNCHANGED <<active, canceledGen>>
        /\ r = Final(r.gen)
        /\ \/ /\ slot = r.gen /\ slot' = None
              /\ oneshot' = Answered({Preview(slot)}, "nothing")
           \/ UNCHANGED <<slot, oneshot>>
    BY <1>4, RequestForms DEF Push
  <2>2. /\ finals' \in Seq(Contract!Generations)
        /\ \A q : (\E i \in DOMAIN finals' : q = Final(finals'[i])) <=>
                    (\E i \in DOMAIN finals : q = Final(finals[i])) \/ q = r
    BY <1>1, <2>1
  <2>3. IsInjective(finals') /\ ~(active.kind = "final" /\ Contains(finals', active.gen))
    <3>1. \A i \in DOMAIN finals : finals[i] # r.gen
      BY <2>1, Held
    <3>2. IsInjective(finals')
      BY <1>1, <2>1, <3>1 DEF IsInjective
    <3>3. ASSUME active.kind = "final", NEW i \in 1 .. Len(finals'), finals'[i] = active.gen
          PROVE  FALSE
      <4>1. active # NoRequest /\ active = Final(active.gen) /\ active # r
        BY <1>1, <3>3, RequestForms, Held DEF NoRequest
      <4>2. active.gen # r.gen
        BY <2>1, <4>1
      <4>3. i \in 1 .. Len(finals) /\ finals[i] = active.gen
        BY <1>1, <2>1, <3>3, <4>2
      <4> QED BY <3>3, <4>1, <4>3 DEF Supervising, Holding, HeldOnce, Contains
    <3> QED BY <3>2, <3>3 DEF Contains
  <2>4. \E superseded \in SUBSET {q \in Accepted : q.kind = "preview"} :
          /\ Accepted' = (Accepted \ superseded) \cup {r}
          /\ oneshot' = Answered(superseded, "nothing")
    <3>1. CASE slot = r.gen /\ slot' = None /\ oneshot' = Answered({Preview(slot)}, "nothing")
      <4>1. Preview(slot) \in Accepted /\ Preview(slot) # active
        BY <1>1, <3>1, Held, RequestForms DEF Supervising, Holding, Apart
      <4>2. \A q : q \in Accepted' <=>
              \/ (\E i \in DOMAIN finals : q = Final(finals[i])) \/ q = r
              \/ active # NoRequest /\ q = active
        BY <2>1, <2>2, <3>1 DEF Accepted
      <4>3. Accepted' = (Accepted \ {Preview(slot)}) \cup {r}
        BY <4>1, <4>2, Held, RequestForms
      <4> QED BY <3>1, <4>1, <4>3, RequestForms
    <3>2. CASE UNCHANGED <<slot, oneshot>>
      <4>1. \A q : q \in Accepted' <=>
              \/ (\E i \in DOMAIN finals : q = Final(finals[i])) \/ q = r
              \/ slot # None /\ q = Preview(slot)
              \/ active # NoRequest /\ q = active
        BY <2>1, <2>2, <3>2 DEF Accepted
      <4>2. Accepted' = (Accepted \ {}) \cup {r}
        BY <4>1, Held
      <4> QED BY <1>1, <3>2, <4>2, Answers
    <3> QED BY <2>1, <3>1, <3>2
  <2>5. Holding'
    <3>1. CanceledIsGone'
      BY <1>1, <1>4, <2>1, <2>4 DEF CanceledIsGone, Supervising, Holding, Canceled
    <3>2. \A q \in Accepted' : oneshot'[q] \in {"open", "closed"}
      BY <1>1, <2>4, Answers DEF Supervising, Holding, HeldOnce
    <3>3. Apart'
      BY <1>1, <2>1, RequestForms DEF Supervising, Holding, Apart
    <3> QED BY <2>3, <3>1, <3>2, <3>3 DEF Holding, HeldOnce
  <2> QED BY <1>1, <1>4, <2>1, <2>2, <2>4, <2>5 DEF Canceled
<1> QED BY <1>2, <1>3, <1>4 DEF Push

\* What a cancellation does, of the active request or of earlier ones.
LEMMA Purging ==
  ASSUME Supervising, NEW g \in Contract!Generations, NEW also, Purge(g, also),
         \/ /\ also = {} /\ active' = active
            /\ active = NoRequest \/ active.gen > g
         \/ /\ also = {active} /\ active' = NoRequest
            /\ active # NoRequest /\ active.gen <= g
  PROVE  /\ finals' \in Seq(Contract!Generations)
         /\ slot' \in Contract!Generations \cup {None}
         /\ canceledGen' = Contract!Larger(canceledGen, g)
         /\ canceledGen' \in Contract!Generations
         /\ Holding'
         /\ Accepted' = {r \in Accepted : r.gen > canceledGen'}
         /\ oneshot' = Answered({r \in Accepted : r.gen <= canceledGen'}, "nothing")
<1>1. PICK bound : bound = Contract!Larger(canceledGen, g)
  OBVIOUS
<1>2. /\ canceledGen' = bound
      /\ Retained(finals', bound)
      /\ slot' = IF slot <= bound THEN None ELSE slot
      /\ oneshot' = Answered({r \in {Final(finals[i]) : i \in DOMAIN finals} \cup {Preview(slot)} :
                                r.gen <= bound} \cup also, "nothing")
  BY <1>1 DEF Purge
<1>3. /\ finals \in Seq(Contract!Generations) /\ slot \in Contract!Generations \cup {None}
      /\ active \in Requests \cup {NoRequest} /\ oneshot \in [Requests -> Contract!Reply]
      /\ canceledGen \in Contract!Generations \cup {None} /\ canceledGen \in Nat /\ g \in Nat
      /\ Accepted \subseteq Requests /\ IsInjective(finals)
  BY HeldTypes, RequestForms
<1>4. /\ bound \in Contract!Generations /\ bound \in Nat
      /\ canceledGen <= bound /\ g <= bound /\ bound \in {canceledGen, g}
  <2>1. g >= 1
    BY DEF Contract!Generations
  <2> QED BY <1>1, <1>3, <2>1, LargerIs DEF None
<1>5. /\ finals' \in Seq(Contract!Generations) /\ IsInjective(finals')
      /\ \A i \in DOMAIN finals' :
           finals'[i] > bound /\ \E j \in DOMAIN finals : finals'[i] = finals[j]
      /\ \A j \in DOMAIN finals : finals[j] > bound => \E i \in DOMAIN finals' : finals'[i] = finals[j]
  BY <1>2, <1>3, RetainedFinals
<1>6. slot' \in Contract!Generations \cup {None}
      /\ \A q : slot' # None /\ q = Preview(slot') <=> slot # None /\ q = Preview(slot) /\ q.gen > bound
  BY <1>2, <1>3, <1>4, RequestForms DEF None
<1>7. \A q : active' # NoRequest /\ q = active' <=>
               active # NoRequest /\ q = active /\ q.gen > bound
  <2>1. active # NoRequest => active.gen > canceledGen /\ active.gen \in Nat
    BY <1>3, Held, RequestForms DEF Supervising, Holding, CanceledIsGone
  <2> QED BY <1>3, <1>4, <2>1
<1>8. \A q : (\E i \in DOMAIN finals' : q = Final(finals'[i])) <=>
               (\E i \in DOMAIN finals : q = Final(finals[i])) /\ q.gen > bound
  BY <1>5, RequestForms
<1>9. Accepted' = {r \in Accepted : r.gen > bound}
  <2>1. \A q : q \in Accepted' <=> \/ \E i \in DOMAIN finals' : q = Final(finals'[i])
                                   \/ slot' # None /\ q = Preview(slot')
                                   \/ active' # NoRequest /\ q = active'
    BY DEF Accepted
  <2> QED BY <1>6, <1>7, <1>8, <2>1, Held
<1>10. oneshot' = Answered({r \in Accepted : r.gen <= bound}, "nothing")
  <2> DEFINE gone == {r \in {Final(finals[i]) : i \in DOMAIN finals} \cup {Preview(slot)} :
                        r.gen <= bound} \cup also
  <2>1. ASSUME NEW q \in Requests
        PROVE  q \in gone <=> q \in Accepted /\ q.gen <= bound
    <3>1. q \in gone <=> \/ (\E i \in DOMAIN finals : q = Final(finals[i])) /\ q.gen <= bound
                         \/ q = Preview(slot) /\ q.gen <= bound
                         \/ q \in also
      OBVIOUS
    <3>2. q = Preview(slot) => slot # None
      BY RequestForms
    <3>3. q \in also <=> active # NoRequest /\ q = active /\ q.gen <= bound
      <4>1. q.gen \in Nat /\ (active # NoRequest => active.gen > canceledGen)
        BY <1>3, Held, RequestForms DEF Supervising, Holding, CanceledIsGone
      <4> QED BY <1>3, <1>4, <4>1
    <3> QED BY <3>1, <3>2, <3>3, Held
  <2>2. gone \cap Requests = {r \in Accepted : r.gen <= bound} \cap Requests
    BY <2>1, <1>3
  <2> HIDE DEF gone
  <2>3. Answered(gone, "nothing") = Answered({r \in Accepted : r.gen <= bound}, "nothing")
    BY <2>2, Answers
  <2> QED BY <1>2, <2>3 DEF gone
<1>11. Holding'
  <2>1. CanceledIsGone'
    BY <1>2, <1>9 DEF CanceledIsGone
  <2>2. \A r \in Accepted' : oneshot'[r] \in {"open", "closed"}
    <3>1. \A r \in Accepted' : r \in Requests \ {q \in Accepted : q.gen <= bound}
      <4>1. \A r \in Accepted : r \in Requests /\ r.gen \in Nat
        BY <1>3, RequestForms
      <4> QED BY <1>4, <1>9, <4>1
    <3> QED BY <1>9, <1>10, <3>1, Answers DEF Supervising, Holding, HeldOnce
  <2>3. active' # NoRequest => ~(active'.kind = "final" /\ Contains(finals', active'.gen))
    <3>1. \A i \in 1 .. Len(finals') : \E j \in 1 .. Len(finals) : finals'[i] = finals[j]
      <4>1. DOMAIN finals' = 1 .. Len(finals') /\ DOMAIN finals = 1 .. Len(finals)
        BY <1>3, <1>5
      <4> QED BY <1>5, <4>1
    <3> QED BY <3>1 DEF Supervising, Holding, HeldOnce, Contains
  <2>4. Apart'
    <3>1. active' \in {active, NoRequest} /\ slot' \in {slot, None}
      BY <1>2
    <3>2. active # Preview(slot) /\ active # Preview(None) /\ \A h : NoRequest # Preview(h)
      BY <1>3, RequestForms DEF Supervising, Holding, Apart
    <3> QED BY <3>1, <3>2 DEF Apart
  <2> QED BY <1>5, <2>1, <2>2, <2>3, <2>4 DEF Holding, HeldOnce
<1> QED BY <1>1, <1>2, <1>4, <1>5, <1>6, <1>9, <1>10, <1>11

\* A request that is handed to the worker is held as before.
LEMMA Popping ==
  ASSUME Supervising, Pop
  PROVE  /\ Accepted' = Accepted /\ Holding'
         /\ finals' \in Seq(Contract!Generations) /\ slot' \in Contract!Generations \cup {None}
         /\ active' \in Requests
<1>1. /\ finals \in Seq(Contract!Generations) /\ slot \in Contract!Generations \cup {None}
      /\ IsInjective(finals) /\ active = NoRequest
  BY HeldTypes DEF Supervising, TypeOK, Pop
<1>2. UNCHANGED <<canceledGen, oneshot>>
  BY DEF Pop
<1>3. \A q : q \in Accepted' <=> \/ \E i \in DOMAIN finals' : q = Final(finals'[i])
                                 \/ slot' # None /\ q = Preview(slot')
                                 \/ active' # NoRequest /\ q = active'
  BY DEF Accepted
<1>4. CASE PopFinal
  <2>1. /\ finals # <<>> /\ active' = Final(Head(finals)) /\ finals' = Tail(finals)
        /\ slot' = slot
    BY <1>4 DEF PopFinal
  <2>2. /\ finals' \in Seq(Contract!Generations) /\ Head(finals) \in Contract!Generations
        /\ \A q : (\E i \in DOMAIN finals : q = Final(finals[i])) <=>
                    (\E i \in DOMAIN finals' : q = Final(finals'[i])) \/ q = active'
    <3>1. Len(finals) \in Nat /\ Len(finals) >= 1 /\ DOMAIN finals = 1 .. Len(finals)
          /\ finals' \in Seq(Contract!Generations) /\ DOMAIN finals' = 1 .. Len(finals) - 1
          /\ \A i \in DOMAIN finals' : finals'[i] = finals[i + 1]
          /\ Head(finals) = finals[1]
      BY <1>1, <2>1
    <3>2. \A i \in DOMAIN finals : i = 1 \/ (i - 1 \in DOMAIN finals' /\ finals'[i - 1] = finals[i])
      BY <3>1
    <3>3. \A i \in DOMAIN finals' : i + 1 \in DOMAIN finals
      BY <3>1
    <3> QED BY <1>1, <2>1, <3>1, <3>2, <3>3, SMTT(20)
  <2>3. active' # NoRequest /\ active' \in Requests
    BY <2>1, <2>2, RequestForms
  <2>4. Accepted' = Accepted
    <3>1. slot' = slot
      BY <2>1
    <3>2. ASSUME NEW q PROVE q \in Accepted' <=> q \in Accepted
      <4>1. q \in Accepted' <=> \/ \E i \in DOMAIN finals' : q = Final(finals'[i])
                                \/ slot # None /\ q = Preview(slot)
                                \/ q = active'
        BY <1>3, <2>3, <3>1
      <4>2. q \in Accepted <=> \/ \E i \in DOMAIN finals : q = Final(finals[i])
                               \/ slot # None /\ q = Preview(slot)
        BY <1>1, Held
      <4> QED BY <2>2, <4>1, <4>2
    <3> QED BY <3>2
  <2>5. /\ IsInjective(finals')
        /\ \A i \in 1 .. Len(finals') : finals'[i] # Head(finals)
    BY <1>1, <2>1 DEF IsInjective
  <2>6. Holding'
    BY <1>2, <2>1, <2>4, <2>5, RequestForms
    DEF Supervising, Holding, CanceledIsGone, HeldOnce, Apart, Contains
  <2>7. slot' \in Contract!Generations \cup {None}
    BY <1>1, <2>1
  <2> QED BY <2>2, <2>3, <2>4, <2>6, <2>7
<1>5. CASE PopPreview
  <2>1. /\ slot # None /\ active' = Preview(slot) /\ slot' = None /\ finals' = finals
    BY <1>5 DEF PopPreview
  <2>2. Accepted' = Accepted
    <3>1. active' # NoRequest
      BY <2>1, RequestForms
    <3>2. ASSUME NEW q PROVE q \in Accepted' <=> q \in Accepted
      <4>1. q \in Accepted' <=> \/ \E i \in DOMAIN finals : q = Final(finals[i])
                                \/ q = Preview(slot)
        BY <1>3, <2>1, <3>1
      <4>2. q \in Accepted <=> \/ \E i \in DOMAIN finals : q = Final(finals[i])
                               \/ q = Preview(slot)
        BY <1>1, <2>1, Held
      <4> QED BY <4>1, <4>2
    <3> QED BY <3>2
  <2>3. Holding'
    BY <1>1, <1>2, <2>1, <2>2, RequestForms
    DEF Supervising, Holding, CanceledIsGone, HeldOnce, Apart
  <2> QED BY <1>1, <2>1, <2>2, <2>3, RequestForms
<1> QED BY <1>4, <1>5 DEF Pop
-------------------------------------------------------------------------------
(* The channel *)

LEMMA ChannelUntouched ==
  ASSUME Supervising, commands' = commands, Accepted' \subseteq Accepted,
         \A r \in Requests \ Accepted : oneshot'[r] \in {oneshot[r], "closed"}
  PROVE  ChannelOK'
BY HeldTypes, CommandForms DEF Supervising, ChannelOK

LEMMA ChannelTaken ==
  ASSUME Supervising, Take, Accepted' \subseteq Accepted \cup {Head(commands)},
         \A r \in Requests \ (Accepted \cup {Head(commands)}) : oneshot'[r] = oneshot[r]
  PROVE  ChannelOK' /\ commands' \in Seq(Contract!Command)
<1>1. /\ commands \in Seq(Contract!Command) /\ commands # <<>> /\ commands' = Tail(commands)
  BY HeldTypes DEF Take
<1>2. /\ \A i \in DOMAIN commands' : i + 1 \in DOMAIN commands /\ commands'[i] = commands[i + 1]
      /\ 1 \in DOMAIN commands /\ Head(commands) = commands[1]
      /\ commands' \in Seq(Contract!Command)
      /\ \A i \in DOMAIN commands' : i \in Nat /\ i >= 1
  BY <1>1
<1>3. ASSUME NEW i \in DOMAIN commands', commands'[i].kind # "cancel"
      PROVE  /\ commands'[i] \notin Accepted' /\ oneshot'[commands'[i]] \in {"open", "closed"}
             /\ \A j \in DOMAIN commands' : commands'[j] = commands'[i] => i = j
  <2>1. /\ commands'[i] \notin Accepted /\ oneshot[commands'[i]] \in {"open", "closed"}
        /\ \A j \in DOMAIN commands : commands[j] = commands'[i] => j = i + 1
    BY <1>2, <1>3 DEF Supervising, ChannelOK
  <2>2. commands'[i] \in Requests
    BY <1>2, <1>3, CommandForms
  <2>3. commands'[i] # Head(commands)
    BY <1>2, <2>1
  <2>4. \A j \in DOMAIN commands' : commands'[j] = commands'[i] => i = j
    BY <1>2, <2>1
  <2> QED BY <2>1, <2>2, <2>3, <2>4
<1> QED BY <1>2, <1>3 DEF ChannelOK

\* The request that is taken is one the supervisor has not seen.
LEMMA Taken ==
  ASSUME Supervising, Take
  PROVE  /\ Head(commands) \in Contract!Command /\ Head(commands).gen \in Contract!Generations
         /\ Head(commands).kind # "cancel" =>
              /\ Head(commands) \in Requests /\ Head(commands) \notin Accepted
              /\ oneshot[Head(commands)] \in {"open", "closed"}
<1>1. /\ 1 \in DOMAIN commands /\ Head(commands) = commands[1]
      /\ Head(commands) \in Contract!Command
  BY HeldTypes DEF Take
<1> QED BY <1>1, CommandForms DEF Supervising, ChannelOK
-------------------------------------------------------------------------------
(* The steps.  Each keeps what is known of the state and is a step of the  *)
(* contract, or none that a caller can see.                                *)
Simulates == Contract!ServiceNext \/ UNCHANGED Contract!service

LEMMA TypesFrom ==
  ASSUME phase' \in {"restart", "starting", "idle", "running", "fatal"},
         finals' \in Seq(Contract!Generations), slot' \in Contract!Generations \cup {None},
         active' \in Requests \cup {NoRequest}, phase' = "running" <=> active' # NoRequest,
         commands' \in Seq(Contract!Command), Accepted' \subseteq Requests,
         canceledGen' \in Contract!Generations \cup {None},
         oneshot' \in [Requests -> Contract!Reply],
         cancelReply' \in {"closed", "open", "active", "inactive"},
         status' \in {"Loading", "Ready", "Unavailable"}, unseen' \in BOOLEAN
  PROVE  TypeOK'
BY DEF TypeOK, Contract!ServiceTypeOK, Requests, None, Contract!None

LEMMA Replies ==
  ASSUME Supervising
  PROVE  /\ cancelReply \in {"closed", "open", "active", "inactive"}
         /\ status \in {"Loading", "Ready", "Unavailable"} /\ unseen \in BOOLEAN
         /\ phase \in {"restart", "starting", "idle", "running", "fatal"}
         /\ phase = "running" <=> active # NoRequest
         /\ {"text", "nothing", "error"} \subseteq Contract!Reply
BY DEF Supervising, TypeOK, Contract!ServiceTypeOK, Contract!Reply

LEMMA NothingHeldChanges ==
  ASSUME Supervising, UNCHANGED <<finals, slot, active, canceledGen, oneshot, commands>>
  PROVE  Accepted' = Accepted /\ Holding' /\ ChannelOK'
<1>1. Accepted' = Accepted
  BY DEF Accepted
<1>2. Holding'
  BY <1>1 DEF Supervising, Holding, CanceledIsGone, HeldOnce, Apart
<1>3. ChannelOK'
  BY <1>1, ChannelUntouched
<1> QED BY <1>1, <1>2, <1>3

\* start_worker.
LEMMA WorkerStarts ==
  ASSUME Supervising, StartWorker \/ WorkerReady \/ WorkerFailsToLoad
  PROVE  Supervising' /\ Simulates
<1>1. /\ UNCHANGED <<finals, slot, canceledGen, active, commands, oneshot, cancelReply>>
      /\ phase \in {"restart", "starting"} /\ unseen' = TRUE
      /\ \/ phase' = "starting" /\ status' = "Loading"
         \/ phase' = "idle" /\ status' = "Ready"
         \/ phase' = "fatal" /\ status' = "Unavailable" /\ "load" \in Faults
  BY DEF StartWorker, WorkerReady, WorkerFailsToLoad, Announce
<1>2. Accepted' = Accepted /\ Holding' /\ ChannelOK'
  BY <1>1, NothingHeldChanges
<1>3. TypeOK'
  BY <1>1, <1>2, HeldTypes, Replies, TypesFrom
<1>4. StatusFollows'
  BY <1>1 DEF StatusFollows
<1>5. Contract!Load(status')
  BY <1>1, <1>2 DEF Contract!Load, Contract!SetStatus, Supervising, StatusFollows
<1> QED BY <1>1, <1>2, <1>3, <1>4, <1>5 DEF Supervising, Simulates, Contract!ServiceNext

LEMMA WorkerExits ==
  ASSUME Supervising, IdleExit
  PROVE  Supervising' /\ Simulates
<1>1. /\ UNCHANGED <<finals, slot, canceledGen, active, commands, oneshot, cancelReply>>
      /\ phase = "idle" /\ ~Queued /\ unseen' = TRUE
      /\ phase' = "restart" /\ status' = "Loading" /\ "exit" \in Faults
  BY DEF IdleExit, Announce
<1>2. Accepted' = Accepted /\ Holding' /\ ChannelOK'
  BY <1>1, NothingHeldChanges
<1>3. TypeOK'
  BY <1>1, <1>2, HeldTypes, Replies, TypesFrom
<1>4. Accepted = {}
  BY <1>1, Held, Replies DEF Queued
<1>5. Contract!WorkerLost
  BY <1>1, <1>2, <1>4 DEF Contract!WorkerLost, Contract!SetStatus, Supervising, StatusFollows
<1> QED
  BY <1>1, <1>2, <1>3, <1>5 DEF Supervising, StatusFollows, Simulates, Contract!ServiceNext

LEMMA WorkerTakes ==
  ASSUME Supervising, Pop
  PROVE  Supervising' /\ Simulates
<1>1. /\ phase = "idle" /\ phase' = "running"
      /\ UNCHANGED <<canceledGen, commands, oneshot, cancelReply, status, unseen>>
  BY DEF Pop
<1>2. /\ Accepted' = Accepted /\ Holding'
      /\ finals' \in Seq(Contract!Generations) /\ slot' \in Contract!Generations \cup {None}
      /\ active' \in Requests /\ active' # NoRequest
  BY Popping, RequestForms
<1>3. ChannelOK'
  BY <1>1, <1>2, ChannelUntouched
<1>4. TypeOK'
  BY <1>1, <1>2, HeldTypes, Replies, TypesFrom
<1>5. UNCHANGED Contract!service
  BY <1>1, <1>2 DEF Contract!service
<1> QED BY <1>1, <1>2, <1>3, <1>4, <1>5 DEF Supervising, StatusFollows, Simulates

\* run_supervised_request ends.
LEMMA Finishing ==
  ASSUME Supervising, phase = "running", active' = NoRequest,
         UNCHANGED <<finals, slot, canceledGen, commands>>,
         NEW result \in {"text", "nothing", "error"}, oneshot' = Answered({active}, result)
  PROVE  /\ active \in Accepted /\ active \in Requests /\ Accepted' = Accepted \ {active}
         /\ Holding' /\ ChannelOK' /\ oneshot' \in [Requests -> Contract!Reply]
<1>1. active # NoRequest /\ active \in Accepted /\ active \in Requests
  BY Replies, Held, HeldTypes
<1>2. Accepted' = Accepted \ {active}
  <2>1. \A q : q \in Accepted' <=> \/ \E i \in DOMAIN finals : q = Final(finals[i])
                                   \/ slot # None /\ q = Preview(slot)
    BY DEF Accepted
  <2>2. \A i \in DOMAIN finals : active # Final(finals[i])
    <3>1. active = Preview(active.gen) \/ active = Final(active.gen)
      BY <1>1, RequestForms
    <3>2. finals \in Seq(Contract!Generations)
      BY HeldTypes
    <3>3. \A i \in 1 .. Len(finals) : active.kind = "final" => finals[i] # active.gen
      BY <1>1 DEF Supervising, Holding, HeldOnce, Contains
    <3> QED BY <3>1, <3>2, <3>3, RequestForms
  <2>3. active # Preview(slot)
    BY DEF Supervising, Holding, Apart
  <2> QED BY <2>1, <2>2, <2>3, Held
<1>3. oneshot' \in [Requests -> Contract!Reply] /\ \A q \in Requests \ {active} : oneshot'[q] = oneshot[q]
  BY HeldTypes, Replies, Answers
<1>4. Holding'
  BY <1>2, <1>3, HeldTypes, RequestForms
  DEF Supervising, Holding, CanceledIsGone, HeldOnce, Apart
<1>5. ChannelOK'
  BY <1>1, <1>2, <1>3, ChannelUntouched
<1> QED BY <1>1, <1>2, <1>3, <1>4, <1>5

LEMMA WorkerEnds ==
  ASSUME Supervising, WorkerAnswers \/ WorkerBreaks
  PROVE  Supervising' /\ Simulates
<1>1. PICK result \in {"text", "nothing", "error"} :
        /\ oneshot' = Answered({active}, result)
        /\ phase = "running" /\ active' = NoRequest
        /\ UNCHANGED <<finals, slot, canceledGen, commands, cancelReply>>
        /\ \/ phase' = "idle" /\ UNCHANGED <<status, unseen>>
           \/ /\ phase' = "restart" /\ status' = "Loading" /\ unseen' = TRUE
              /\ result = "error" /\ "protocol" \in Faults
  BY DEF WorkerAnswers, WorkerBreaks, Announce
<1>2. /\ active \in Accepted /\ active \in Requests /\ Accepted' = Accepted \ {active}
      /\ Holding' /\ ChannelOK' /\ oneshot' \in [Requests -> Contract!Reply]
  BY <1>1, Finishing
<1>3. TypeOK'
  BY <1>1, <1>2, HeldTypes, Replies, TypesFrom
<1>4. StatusFollows'
  BY <1>1 DEF Supervising, StatusFollows
<1>5. Contract!AnswerText(active) \/ Contract!AnswerWithoutText(active)
  <2>1. status = "Ready"
    BY <1>1 DEF Supervising, StatusFollows
  <2>2. CASE result = "text"
    BY <1>1, <1>2, <2>1, <2>2 DEF Contract!AnswerText, Answered
  <2>3. CASE result # "text"
    BY <1>1, <1>2, <2>1, <2>3 DEF Contract!AnswerWithoutText, Contract!SetStatus, Answered
  <2> QED BY <2>2, <2>3
<1> QED BY <1>2, <1>3, <1>4, <1>5 DEF Supervising, Simulates, Contract!ServiceNext, Requests

\* A request is taken from the channel.
LEMMA RequestTaken ==
  ASSUME Supervising, IdleRequest \/ RunningRequest
  PROVE  Supervising' /\ Simulates
<1>1. PICK r : r = Head(commands)
  OBVIOUS
<1>2. /\ Take /\ r.kind # "cancel" /\ Push(r) /\ phase \in {"idle", "running"}
      /\ UNCHANGED <<phase, active, cancelReply, status, unseen>>
  BY <1>1 DEF IdleRequest, RunningRequest
<1>3. /\ r \in Requests /\ r \notin Accepted /\ oneshot[r] \in {"open", "closed"}
  BY <1>1, <1>2, Taken
<1>4. /\ finals' \in Seq(Contract!Generations) /\ slot' \in Contract!Generations \cup {None}
      /\ canceledGen' = canceledGen /\ Holding'
      /\ \/ /\ r.gen <= canceledGen /\ Accepted' = Accepted
            /\ oneshot' = Answered({r}, "nothing")
         \/ /\ r.gen > canceledGen
            /\ \E superseded \in SUBSET {q \in Accepted : q.kind = "preview"} :
                 /\ Accepted' = (Accepted \ superseded) \cup {r}
                 /\ oneshot' = Answered(superseded, "nothing")
  BY <1>2, <1>3, Pushing
<1>5. /\ Accepted' \subseteq Accepted \cup {r} /\ Accepted' \subseteq Requests
      /\ oneshot' \in [Requests -> Contract!Reply]
      /\ \A q \in Requests \ (Accepted \cup {r}) : oneshot'[q] = oneshot[q]
  BY <1>3, <1>4, HeldTypes, Replies, Answers
<1>6. ChannelOK' /\ commands' \in Seq(Contract!Command)
  BY <1>1, <1>2, <1>5, ChannelTaken
<1>7. TypeOK'
  BY <1>2, <1>4, <1>5, <1>6, HeldTypes, Replies, TypesFrom
<1>8. status = "Ready" /\ commands # <<>> /\ commands' = Tail(commands)
  BY <1>2 DEF Supervising, StatusFollows, Take
<1>9. Contract!Accept \/ Contract!Refuse
  <2>1. CASE r.gen <= canceledGen /\ Accepted' = Accepted /\ oneshot' = Answered({r}, "nothing")
    BY <1>1, <1>2, <1>4, <1>8, <2>1 DEF Contract!Refuse, Answered
  <2>2. CASE /\ r.gen > canceledGen
             /\ \E superseded \in SUBSET {q \in Accepted : q.kind = "preview"} :
                  /\ Accepted' = (Accepted \ superseded) \cup {r}
                  /\ oneshot' = Answered(superseded, "nothing")
    BY <1>1, <1>2, <1>4, <1>8, <2>2 DEF Contract!Accept, Answered
  <2> QED BY <1>4, <2>1, <2>2
<1> QED
  BY <1>2, <1>4, <1>6, <1>7, <1>9
  DEF Supervising, StatusFollows, Simulates, Contract!ServiceNext

\* A cancellation is taken from the channel.
LEMMA CancelTaken ==
  ASSUME Supervising, IdleCancel \/ RunningCancel
  PROVE  Supervising' /\ Simulates
<1>1. PICK g : g = Head(commands).gen
  OBVIOUS
<1>2. Take /\ Head(commands).kind = "cancel" /\ phase \in {"idle", "running"}
  BY DEF IdleCancel, RunningCancel
<1>3. PICK also :
        /\ Purge(g, also)
        /\ \/ /\ also = {} /\ active' = active
              /\ active = NoRequest \/ active.gen > g
              /\ cancelReply' = "inactive" /\ UNCHANGED <<phase, status, unseen>>
           \/ /\ also = {active} /\ active' = NoRequest /\ active # NoRequest /\ active.gen <= g
              /\ phase' = "restart" /\ status' = "Loading" /\ unseen' = TRUE
              /\ cancelReply' = "active"
  BY <1>1, Replies DEF IdleCancel, RunningCancel, Announce
<1>4. g \in Contract!Generations
  BY <1>1, <1>2, Taken
<1>5. /\ finals' \in Seq(Contract!Generations) /\ slot' \in Contract!Generations \cup {None}
      /\ canceledGen' = Contract!Larger(canceledGen, g) /\ canceledGen' \in Contract!Generations
      /\ Holding'
      /\ Accepted' = {r \in Accepted : r.gen > canceledGen'}
      /\ oneshot' = Answered({r \in Accepted : r.gen <= canceledGen'}, "nothing")
  BY <1>3, <1>4, Purging
<1>6. /\ Accepted \subseteq Requests /\ Accepted' \subseteq Accepted
      /\ oneshot' \in [Requests -> Contract!Reply]
      /\ \A q \in Requests \ Accepted : oneshot'[q] = oneshot[q]
  BY <1>5, HeldTypes, Replies, Answers
<1>7. ChannelOK' /\ commands' \in Seq(Contract!Command)
  BY <1>2, <1>6, ChannelTaken
<1>8. TypeOK'
  BY <1>3, <1>5, <1>6, <1>7, HeldTypes, Replies, TypesFrom
<1>9. StatusFollows'
  BY <1>3 DEF Supervising, StatusFollows
<1>10. Contract!CancelRequests
  <2> DEFINE ended == {r \in Accepted : r.gen <= canceledGen'}
  <2>1. Accepted' = Accepted \ ended
    <3>1. \A r \in Accepted : r.gen \in Nat /\ canceledGen' \in Nat
      BY <1>5, <1>6, RequestForms
    <3> QED BY <1>5, <3>1
  <2>2. active # NoRequest /\ active.gen <= g => ended # {}
    <3>1. active # NoRequest => active \in Accepted /\ active.gen \in Nat
      BY <1>6, Held, RequestForms
    <3>2. g \in Nat /\ canceledGen \in Nat /\ canceledGen' \in Nat /\ g <= canceledGen'
      BY <1>4, <1>5, HeldTypes, RequestForms, LargerIs
    <3> QED BY <3>1, <3>2
  <2>3. ended = {r \in Accepted : r.gen <= Contract!Larger(canceledGen, g)}
    BY <1>5
  <2>4. /\ oneshot' = Contract!Answered(ended, "nothing")
        /\ canceledGen' = Contract!Larger(canceledGen, g)
    BY <1>5 DEF Answered
  <2>5. status = "Ready" /\ commands # <<>> /\ commands' = Tail(commands)
    BY <1>2 DEF Supervising, StatusFollows, Take
  <2> HIDE DEF ended
  <2> QED
    BY <1>1, <1>2, <1>3, <2>1, <2>2, <2>3, <2>4, <2>5
    DEF Contract!CancelRequests, Contract!SetStatus
<1> QED
  BY <1>5, <1>7, <1>8, <1>9, <1>10 DEF Supervising, Simulates, Contract!ServiceNext

\* serve_fatal_worker.
LEMMA CommandRefused ==
  ASSUME Supervising, FatalCommand
  PROVE  Supervising' /\ Simulates
<1>1. PICK c : c = Head(commands)
  OBVIOUS
<1>2. /\ phase = "fatal" /\ Take /\ UNCHANGED <<finals, slot, canceledGen, active, phase, status, unseen>>
      /\ \/ /\ c.kind # "cancel" /\ oneshot' = Answered({c}, "error")
            /\ UNCHANGED cancelReply
         \/ /\ c.kind = "cancel" /\ cancelReply' = "inactive" /\ UNCHANGED oneshot
  BY <1>1 DEF FatalCommand, private
<1>3. c.kind # "cancel" => c \in Requests /\ c \notin Accepted
  BY <1>1, <1>2, Taken
<1>4. Accepted' = Accepted
  BY <1>2 DEF Accepted
<1>5. /\ oneshot' \in [Requests -> Contract!Reply]
      /\ \A q \in Requests \ {c} : oneshot'[q] = oneshot[q]
  BY <1>2, HeldTypes, Replies, Answers
<1>6. ChannelOK' /\ commands' \in Seq(Contract!Command)
  BY <1>1, <1>2, <1>4, <1>5, ChannelTaken
<1>7. TypeOK'
  BY <1>2, <1>4, <1>5, <1>6, HeldTypes, Replies, TypesFrom
<1>8. Holding'
  <2>1. \A q \in Accepted : oneshot'[q] = oneshot[q]
    BY <1>2, <1>3, <1>5, HeldTypes
  <2> QED BY <1>2, <1>4, <2>1 DEF Supervising, Holding, CanceledIsGone, HeldOnce, Apart
<1>9. Contract!Refuse \/ Contract!CancelUnavailable
  <2>1. status = "Unavailable" /\ commands # <<>> /\ commands' = Tail(commands)
    BY <1>2 DEF Supervising, StatusFollows, Take
  <2> QED
    BY <1>1, <1>2, <1>4, <2>1 DEF Contract!Refuse, Contract!CancelUnavailable, Answered
<1> QED
  BY <1>2, <1>6, <1>7, <1>8, <1>9
  DEF Supervising, StatusFollows, Simulates, Contract!ServiceNext

\* Callers send, cancel and stop listening.
LEMMA CallerSteps ==
  ASSUME Supervising, Caller
  PROVE  Supervising' /\ Contract!CallerNext
<1>1. /\ UNCHANGED <<finals, slot, canceledGen, active, phase, status, unseen>>
      /\ \/ \E r \in Requests : Contract!CallerSends(r)
         \/ \E g \in Contract!Generations : Contract!CallerCancels(g)
         \/ Contract!CallerReceives
  BY DEF Caller, private, Requests
<1>2. Accepted' = Accepted
  BY <1>1 DEF Accepted
<1>3. Contract!CallerNext
  BY <1>1, <1>2 DEF Contract!CallerNext, Requests
<1>4. \A dropped : /\ Contract!Closed(dropped) \in [Requests -> {"closed"} \cup Contract!Reply]
                   /\ \A q \in Requests : Contract!Closed(dropped)[q] \in {oneshot[q], "closed"}
  BY HeldTypes DEF Contract!Closed, Requests
<1>5. "closed" \in Contract!Reply /\ "open" \in Contract!Reply
  BY DEF Contract!Reply
<1>6. CASE \E r \in Requests : Contract!CallerSends(r)
  <2>1. PICK r \in Requests : Contract!CallerSends(r)
    BY <1>6
  <2>2. /\ commands' = Append(commands, r) /\ cancelReply' = cancelReply
        /\ r \notin Accepted /\ \A i \in DOMAIN commands : commands[i] # r
        /\ oneshot' \in [Requests -> Contract!Reply]
        /\ oneshot'[r] \in {"open", "closed"}
        /\ \A q \in Requests \ {r} : oneshot'[q] = oneshot[q]
    BY <2>1, <1>4, <1>5, HeldTypes
    DEF Contract!CallerSends, Contract!SendRequest, Contract!SendOrphan, Contract!InChannel,
        Contract!Closed, Requests
  <2>3. Holding'
    <3>1. \A q \in Accepted : oneshot'[q] = oneshot[q]
      BY <2>2, HeldTypes
    <3> QED BY <1>1, <1>2, <3>1 DEF Supervising, Holding, CanceledIsGone, HeldOnce, Apart
  <2>4. r \in Contract!Command /\ r.kind # "cancel"
    BY DEF Requests, Contract!Request, Contract!Command
  <2>5. commands' \in Seq(Contract!Command)
    BY <2>2, <2>4, HeldTypes
  <2>6. ChannelOK'
    BY <1>2, <2>2, HeldTypes, CommandForms DEF Supervising, ChannelOK
  <2>7. TypeOK'
    BY <1>1, <1>2, <2>2, <2>5, HeldTypes, Replies, TypesFrom
  <2> QED BY <1>1, <1>3, <2>3, <2>6, <2>7 DEF Supervising, StatusFollows
<1>7. CASE \/ \E g \in Contract!Generations : Contract!CallerCancels(g)
           \/ Contract!CallerReceives
  <2>1. /\ oneshot' \in [Requests -> Contract!Reply]
        /\ \A q \in Requests : oneshot'[q] \in {oneshot[q], "closed"}
    BY <1>4, <1>5, <1>7
    DEF Contract!CallerCancels, Contract!CallerReceives, Contract!DropsReceivers
  <2>2. /\ cancelReply' \in {"closed", "open", "active", "inactive"}
        /\ \/ commands' = commands
           \/ \E c \in Contract!Command : c.kind = "cancel" /\ commands' = Append(commands, c)
    <3>1. CASE Contract!CallerReceives
      BY <3>1, Replies DEF Contract!CallerReceives
    <3>2. CASE \E g \in Contract!Generations : Contract!CallerCancels(g)
      <4>1. PICK g \in Contract!Generations : Contract!CallerCancels(g)
        BY <3>2
      <4>2. [kind |-> "cancel", gen |-> g] \in Contract!Command
        BY DEF Contract!Command
      <4> QED BY <4>1, <4>2 DEF Contract!CallerCancels, Contract!SendCancel
    <3> QED BY <1>7, <3>1, <3>2
  <2>3. Holding'
    <3>1. \A q \in Accepted : oneshot'[q] \in {oneshot[q], "closed"}
      BY <2>1, HeldTypes
    <3> QED BY <1>1, <1>2, <3>1 DEF Supervising, Holding, CanceledIsGone, HeldOnce, Apart
  <2>4. commands' \in Seq(Contract!Command) /\ ChannelOK'
    <3>1. CASE commands' = commands
      BY <1>2, <2>1, <3>1, HeldTypes, ChannelUntouched
    <3>2. CASE \E c \in Contract!Command : c.kind = "cancel" /\ commands' = Append(commands, c)
      <4>1. PICK c \in Contract!Command : c.kind = "cancel" /\ commands' = Append(commands, c)
        BY <3>2
      <4>2. commands' \in Seq(Contract!Command)
        BY <4>1, HeldTypes
      <4>3. \A i \in DOMAIN commands' : commands'[i].kind # "cancel" =>
              i \in DOMAIN commands /\ commands'[i] = commands[i] /\ commands[i] \in Requests
        BY <4>1, HeldTypes, CommandForms
      <4> QED BY <1>2, <2>1, <4>2, <4>3 DEF Supervising, ChannelOK
    <3> QED BY <2>2, <3>1, <3>2
  <2>5. TypeOK'
    BY <1>1, <1>2, <2>1, <2>2, <2>4, HeldTypes, Replies, TypesFrom
  <2> QED BY <1>1, <1>3, <2>3, <2>4, <2>5 DEF Supervising, StatusFollows
<1> QED BY <1>1, <1>6, <1>7

\* The watcher's look at the status is the one step of a caller that Caller leaves out.
LEMMA StatusSeen ==
  ASSUME Supervising, Contract!WatcherLooks, UNCHANGED private
  PROVE  Supervising'
<1>1. /\ UNCHANGED <<finals, slot, active, canceledGen, oneshot, commands>>
      /\ UNCHANGED <<phase, cancelReply, status>> /\ unseen' = FALSE
  BY DEF Contract!WatcherLooks, private
<1>2. Accepted' = Accepted /\ Holding' /\ ChannelOK'
  BY <1>1, NothingHeldChanges
<1>3. TypeOK'
  BY <1>1, <1>2, HeldTypes, Replies, TypesFrom
<1> QED BY <1>1, <1>2, <1>3 DEF Supervising, StatusFollows
-------------------------------------------------------------------------------
(* The specification *)
LEMMA SupervisingInit == Init => Supervising
<1> SUFFICES ASSUME Init PROVE Supervising
  OBVIOUS
<1>1. /\ phase = "restart" /\ finals = <<>> /\ slot = None /\ canceledGen = None
      /\ active = NoRequest /\ commands = <<>> /\ cancelReply = "closed"
      /\ status = "Loading" /\ unseen = FALSE
      /\ oneshot = [r \in Requests |-> "closed"]
  BY DEF Init, Contract!ServiceInit, Requests
<1>2. Accepted = {}
  BY <1>1 DEF Accepted
<1>3. TypeOK
  <2>1. oneshot \in [Requests -> Contract!Reply]
    BY <1>1 DEF Contract!Reply
  <2>2. finals \in Seq(Contract!Generations) /\ commands \in Seq(Contract!Command)
    BY <1>1
  <2>3. Contract!ServiceTypeOK
    BY <1>1, <1>2, <2>1, <2>2
    DEF Contract!ServiceTypeOK, Requests, None, Contract!None
  <2> QED BY <1>1, <2>2, <2>3 DEF TypeOK
<1>4. Holding
  BY <1>1, <1>2, RequestForms
  DEF Holding, CanceledIsGone, HeldOnce, Apart, IsInjective, NoRequest
<1>5. StatusFollows /\ ChannelOK
  BY <1>1 DEF StatusFollows, ChannelOK
<1> QED BY <1>3, <1>4, <1>5 DEF Supervising

LEMMA SupervisingStep ==
  ASSUME Supervising, SupervisorNext
  PROVE  Supervising' /\ Simulates
BY WorkerStarts, WorkerExits, WorkerTakes, WorkerEnds, RequestTaken, CancelTaken, CommandRefused
DEF SupervisorNext

LEMMA SupervisingNext ==
  ASSUME Supervising, [Next]_supervisorVars
  PROVE  Supervising' /\ [Contract!ServiceNext \/ Contract!CallerNext]_(Contract!service)
<1>1. CASE SupervisorNext
  BY <1>1, SupervisingStep DEF Simulates
<1>2. CASE Caller
  BY <1>2, CallerSteps
<1>3. CASE UNCHANGED supervisorVars
  <2>1. UNCHANGED <<phase, finals, slot, active, canceledGen, oneshot, commands, cancelReply,
                    status, unseen>>
    BY <1>3 DEF supervisorVars, private
  <2>2. Accepted' = Accepted /\ Holding' /\ ChannelOK'
    BY <2>1, NothingHeldChanges
  <2>3. TypeOK'
    BY <2>1, <2>2, HeldTypes, Replies, TypesFrom
  <2>4. UNCHANGED Contract!service
    BY <2>1, <2>2 DEF Contract!service
  <2> QED BY <2>1, <2>2, <2>3, <2>4 DEF Supervising, StatusFollows
<1> QED BY <1>1, <1>2, <1>3 DEF Next

LEMMA SupervisingInvariant == Spec => []Supervising
<1>1. Init => Supervising
  BY SupervisingInit
<1>2. Supervising /\ [Next]_supervisorVars => Supervising'
  BY SupervisingNext
<1> QED BY <1>1, <1>2, PTL DEF Spec

\* The supervisor's state has its types; a request is with the worker exactly while
\* one runs (supervise_worker, run_supervised_request).
THEOREM SupervisorIsTyped == Spec => []TypeOK
<1>1. Supervising => TypeOK
  BY DEF Supervising
<1> QED BY <1>1, SupervisingInvariant, PTL

\* Nothing of a canceled generation is queued or with the worker, whatever the order
\* in which its requests and its cancellation arrived: the check that supervise_worker
\* makes after each pop never finds anything (RequestQueue::push, ::pop, ::cancel).
THEOREM CancellationReachesAll == Spec => []CanceledIsGone
<1>1. Supervising => CanceledIsGone
  BY DEF Supervising, Holding
<1> QED BY <1>1, SupervisingInvariant, PTL

\* Every request is held in one place, the queue, the preview's slot or the worker,
\* and its caller has no reply while it is held, so that none is answered twice.
THEOREM RequestsAreHeldOnce == Spec => []HeldOnce
<1>1. Supervising => HeldOnce
  BY DEF Supervising, Holding
<1> QED BY <1>1, SupervisingInvariant, PTL

\* The supervisor implements the contract that the daemon is built on (Transcriber):
\* every step of its queue and of its worker is one the contract allows, or is none
\* that a caller can see.
THEOREM SupervisorKeepsPromises == Spec => KeepsPromises
<1>1. Init => Contract!ServiceInit
  BY DEF Init
<1>2. Supervising /\ [Next]_supervisorVars =>
        [Contract!ServiceNext \/ Contract!CallerNext]_(Contract!service)
  BY SupervisingNext
<1> QED
  BY <1>1, <1>2, SupervisingInvariant, PTL DEF Spec, KeepsPromises, Contract!ServiceSpec
===============================================================================
