--------------------------- MODULE MCOfferLiveness ---------------------------
(***************************************************************************)
(* OfferExchange for TLC's liveness checks, crashes and lost statements     *)
(* included.  A behaviour is one of two: the whole life of one Offer, its   *)
(* copies included; or the sends of one Hirer, two at a time, the second    *)
(* waiting for the row the first has locked, while he is frozen, thawed or  *)
(* blocked and her profile paused.                                          *)
(*                                                                          *)
(* Only a Hirer is frozen or blocked: no request waits for a freeze or a    *)
(* Block, and a Worker's own sending state decides nothing about the        *)
(* requests of others.                                                      *)
(***************************************************************************)
EXTENDS OfferExchange

CONSTANT spare  \* the id that only the sends write

VARIABLE instance

Hirers == Accounts \ Workers
Sending == {r \in Requests : pc[r] \in SendTx \cup {"posted"}}

\* One Offer: another send begins only before there is a row, and alone.
OneOffer ==
  /\ offerState[spare] = "unsent"
  /\ Cardinality(Sending) <= 1
  /\ Sending # {} => \A o \in Offers : offerState[o] = "unsent"

Around ==
  \/ \E r \in Requests : Crash(r)
  \/ \E h \in Hirers, to \in SendingStates : WriteSendingState(h, to)
  \/ \E w \in Workers, h \in Hirers : BlockHirer(w, h)

CopiesNext ==
  \/ \E r \in Requests :
       (Send(r) /\ OneOffer') \/ Answer(r) \/ Copy(r) \/ Decide(r)
  \/ \E w \in Workers : Profile(w)
  \/ Around

SendsNext ==
  \/ \E r \in Requests : Send(r) /\ job'[r].caller \in Hirers \cup {None}
  \/ \E w \in Workers : PauseProfile(w) \/ ResumeProfile(w)
  \/ Around

LiveInit == Init /\ instance \in {"copies", "sends"}

LiveNext ==
  /\ \/ instance = "copies" /\ CopiesNext
     \/ instance = "sends" /\ SendsNext
  /\ UNCHANGED instance

LiveSpec == LiveInit /\ [][LiveNext]_<<vars, instance>> /\ Fairness
=============================================================================
