------------------------- MODULE MCCompanyLifecycle -------------------------
(* Instances of CompanyLifecycle and of AccountOpening for TLC.  A behaviour *)
(* is about one of two subjects, and what belongs to the other rests: a      *)
(* company with its team, or an e-mail address and its accounts.             *)
(*                                                                           *)
(* The company is explored under two loads: requests that overlap, and       *)
(* requests that come one at a time; both may stop between two steps.  While *)
(* requests overlap there are MaxRacing links at most and no documents.      *)
(*                                                                           *)
(* The address is explored under three: requests that overlap and complete,  *)
(* requests that come one at a time and may stop, and requests that come one *)
(* at a time and complete.  Administrators decide on its account, and        *)
(* deadlines pass, while no request is in flight.                            *)
EXTENDS CompanyLifecycle, FiniteSets, TLC

CONSTANTS MaxRacing, Accounts, Tokens

\* A missing row is no account and no invitation.
ASSUME AddressAssumption == None \notin Accounts \cup Tokens

VARIABLES subject, load,
          account, letter, invitation, companies, opening, opened, tokens, redeemed

addressVars ==
  <<account, letter, invitation, companies, opening, opened, tokens, redeemed>>

Opening == INSTANCE AccountOpening
             WITH user <- account, req <- opening, minted <- tokens

MCInit ==
  /\ Init /\ Opening!Init
  /\ subject \in {"company", "address"}
  /\ load \in {"overlapping", "serial", "reliable"}
  /\ subject = "company" => load # "reliable"

\* While a request is in flight, requests that come one at a time wait for it.
Turns(Rests(_)) ==
  IF load = "overlapping" \/ \A s \in Requests : Rests(s) THEN Requests
  ELSE {s \in Requests : ~Rests(s)}

CompanyIdle(s) == At(s, "idle")
AddressIdle(s) == Opening!At(s, "idle")

CompanyStep ==
  \/ \E s \in Turns(CompanyIdle) :
       AccountStep(s) \/ ReviewStep(s) \/ SuspensionStep(s) \/ Abandon(s)
  \/ LinkExpires
  \/ AccessExpires

Bounded ==
  load = "overlapping" => Cardinality(minted) <= MaxRacing /\ uploaded = {}

AddressQuiet == \A s \in Requests : AddressIdle(s)

AddressStep ==
  \/ \E s \in Turns(AddressIdle) :
       \/ Opening!HandlerStep(s)
       \/ (load = "serial" \/ Opening!Refused(s)) /\ Opening!Abandon(s)
  \/ AddressQuiet /\ (Opening!Decision \/ Opening!Expiry)

MCNext ==
  /\ UNCHANGED <<subject, load>>
  /\ \/ subject = "company" /\ CompanyStep /\ Bounded' /\ UNCHANGED addressVars
     \/ subject = "address" /\ AddressStep /\ UNCHANGED vars

MCSpec == MCInit /\ [][MCNext]_<<vars, addressVars, subject, load>>

\* Rows and requests of both subjects have their types.
AllTyped == TypeOK /\ Opening!TypeOK

\* One request at a time: no recruiter suspended together with the company is
\* left suspended when the company is approved again.
SerialNobodyLeftBehind == load = "serial" => NobodyLeftBehind

\* One request at a time: a link is good for one resubmission.
SerialLinkSingleUse == load = "serial" => LinkSingleUse

\* As long as every request completes: an invitation makes one account.
ReliableInvitationOpensOnce == load # "serial" => Opening!InvitationOpensOnce

\* The verification link of an account that waits for it is not spent.
VerifiedBeforeSpent == [][Opening!VerifiedBeforeSpent]_addressVars

\* One request at a time and none failing: no company without a founder.
ReliableCompaniesHaveFounders == load = "reliable" => Opening!CompaniesHaveFounders

Symmetry == Permutations(Links) \cup Permutations(Docs) \cup Permutations(Requests)
=============================================================================
