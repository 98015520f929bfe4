--------------------------- MODULE MCOfferExchange ---------------------------
(***************************************************************************)
(* OfferExchange for TLC.  The instance is one of three, chosen at the       *)
(* start: every action against every other with one Offer, and, with two,   *)
(* sends against each other and decisions and answers against each other.   *)
(***************************************************************************)
EXTENDS OfferExchangeInvariant, TLC

\* Accounts that only the sends need.
CONSTANT Bystanders

Symmetry == Permutations(Requests) \cup Permutations(Offers) \cup Permutations(Names)

VARIABLE instance
mcVars == <<vars, instance>>

MCInit == Init /\ instance \in {"all", "sending", "review"}

\* A small instance has one Hirer, who gives one name.
OneHirer ==
  LET given == {job'[r].identity : r \in Requests} \cup {hirerName'[a] : a \in Accounts} IN
  /\ \A r \in Requests : job'[r].caller \notin Bystanders
  /\ Cardinality(given \ {None}) <= 1
  /\ \A a \in Bystanders : offerSendingState'[a] = "active" /\ \A w \in Workers : <<w, a>> \notin block'

OneOffer == Cardinality({o \in Offers : offerState'[o] # "unsent"}) <= 1

\* Sends against each other and against a freeze, a Block and a pause.
SendingNext ==
  \/ \E r \in Requests : Send(r) \/ Crash(r)
  \/ \E w \in Workers : PauseProfile(w) \/ ResumeProfile(w)
  \/ Elsewhere

\* Every Offer the bound allows has come to its end and nobody is at work: the
\* instance is over.  Any other state without a successor is a deadlock.
Exhausted ==
  /\ \A r \in Requests : pc[r] = "idle"
  /\ \A o \in Offers : offerState[o] # "unsent" /\ IsTerminalOfferState(offerState[o])
  /\ UNCHANGED vars

\* Deliveries, rejections, answers and copies against each other.
ReviewNext ==
  \/ \E r \in Requests : Send(r) \/ Answer(r) \/ Copy(r) \/ Decide(r) \/ Crash(r)
  \/ \E w \in Workers : UpdateProfile(w)
  \/ Exhausted

MCNext ==
  /\ \/ instance = "all" /\ Next /\ OneHirer /\ OneOffer
     \/ instance = "sending" /\ SendingNext
     \/ instance = "review" /\ ReviewNext /\ OneHirer
  /\ UNCHANGED instance

MCSpec == MCInit /\ [][MCNext]_mcVars
=============================================================================
