-------------------------------- MODULE Vouch --------------------------------
(***************************************************************************)
(* Vouching for an enrolment (vouch.rs): a verifier off this wire issues a *)
(* nonce and an account's binding, a client carries them to a controller   *)
(* over its session, the controller tags what it is asked with its own     *)
(* epoch and the slot the session is bound to, and the verifier links the  *)
(* account on a tag over its own records (P-244 to P-249). Whoever carries *)
(* a request or a claim may cross it with another.                         *)
(*                                                                         *)
(* The session, the slots and the verifier's store are external.           *)
(***************************************************************************)
EXTENDS Noise, FiniteSets, FiniteSetsExt

CONSTANTS
  Accounts,
  Devices,      \* controllers; the last has no manufacturing record
  Recorded,     \* the controllers the verifier holds a record of
  MaxIssues,    \* bound: requests issued
  MaxAnswers,   \* bound: requests answered
  MaxChanges    \* bound: factory resets and slots re-keyed

VARIABLES
  unit,         \* external: each controller's epoch and its slots' generations
  issues,       \* the verifier's issues; whether the nonce is spent
  answers,      \* the answers controllers gave, with who asked what
  links,        \* what the verifier linked
  slighted      \* history: a sound claim was refused

vars == <<unit, issues, answers, links, slighted>>

CS(device) == Key("controller", device, 0)
VS         == Key("verifier", "", 0)
Slots      == {1, 2}
(* The fingerprint the manufacturing record holds (P-249).                 *)
Records(device) == IF device \in Recorded THEN {Fingerprint(CS(device))} ELSE {}

Init ==
  /\ unit = [device \in Devices |-> [epoch |-> 1, gen |-> [slot \in Slots |-> 1]]]
  /\ issues = <<>>
  /\ answers = {}
  /\ links = {}
  /\ slighted = FALSE
-----------------------------------------------------------------------------
(* Seeded faults.                                                          *)

StatementNoEpoch(issue, claim) ==
  [device |-> issue.device, epoch |-> claim.epoch, slot |-> claim.slot, gen |-> claim.gen,
   nonce |-> issue.nonce, binding |-> issue.binding]
-----------------------------------------------------------------------------
(* VouchRequest::answer: the epoch and the slot are the controller's own.  *)
Statement(device, slot, request) ==
  [device |-> device, epoch |-> unit[device].epoch, slot |-> slot,
   gen |-> unit[device].gen[slot], nonce |-> request.nonce, binding |-> request.binding]
AnswerOutcome(request) == IF Agrees(request.verifier) THEN "Vouched" ELSE "BadVerifier"

Answer(device, slot, request) ==
  /\ Cardinality(answers) < MaxAnswers
  /\ AnswerOutcome(request) = "Vouched"
  /\ answers' = answers \cup
       {[said |-> Statement(device, slot, request), to |-> request.verifier,
         tag |-> VouchTag(VouchKey(device, CS(device), request.verifier),
                          Statement(device, slot, request))]}
  /\ UNCHANGED <<unit, issues, links, slighted>>

(* VouchIssue::verify, against the verifier's own records.                 *)
StatementOf(issue, claim) ==
  [device |-> issue.device, epoch |-> issue.epoch, slot |-> claim.slot, gen |-> claim.gen,
   nonce |-> issue.nonce, binding |-> issue.binding]
VerifyWhy(issue, claim) ==
  IF Records(issue.device) = {} THEN "NoRecord"
  ELSE IF \A printed \in Records(issue.device) : ~VouchesFor(printed, claim.controller)
  THEN "WrongController"
  ELSE IF ~Agrees(claim.controller) THEN "LowOrderController"
  ELSE IF VouchTag(VouchKey(issue.device, VS, claim.controller), StatementOf(issue, claim))
            # claim.tag
  THEN "TagMismatch"
  ELSE ""

\* The answer this issue's own controller gave to it, with that one's key.
Sound(i, claim) ==
  /\ issues[i].device \in Recorded /\ claim.controller = CS(issues[i].device)
  /\ \E a \in answers : a.to = VS /\ a.said = StatementOf(issues[i], claim) /\ a.tag = claim.tag

(* External: the nonce is spent first, whatever the claim (P-247 step 1).  *)
Claim(i, claim) ==
  /\ ~issues[i].spent
  /\ issues' = [issues EXCEPT ![i].spent = TRUE]
  /\ links' = IF VerifyWhy(issues[i], claim) # "" THEN links
              ELSE links \cup {[issue |-> i, slot |-> claim.slot, gen |-> claim.gen]}
  /\ slighted' = (slighted \/ (VerifyWhy(issues[i], claim) # "" /\ Sound(i, claim)))
  /\ UNCHANGED <<unit, answers>>
-----------------------------------------------------------------------------
(* External: the verifier issues; a controller changes hands or its slot   *)
(* is written again.                                                       *)

Issue(account, device) ==
  /\ Len(issues) < MaxIssues
  /\ issues' = Append(issues,
       [account |-> account, device |-> device, epoch |-> unit[device].epoch,
        nonce |-> Len(issues) + 1, binding |-> <<"binding", account>>, spent |-> FALSE])
  /\ UNCHANGED <<unit, answers, links, slighted>>

Bumped(u, field) ==
  IF field = "epoch" THEN [u EXCEPT !.epoch = @ + 1] ELSE [u EXCEPT !.gen[1] = @ + 1]
Change(device, field) ==
  /\ FoldSet(LAMBDA d, sum : unit[d].epoch + unit[d].gen[1] - 2 + sum, 0, Devices) < MaxChanges
  /\ unit' = [unit EXCEPT ![device] = Bumped(@, field)]
  /\ UNCHANGED <<issues, answers, links, slighted>>

\* What reaches a controller and the verifier, crossed as it may be.
Requests ==
  {[verifier |-> v, nonce |-> issues[i].nonce, binding |-> issues[j].binding] :
     v \in {VS, LowOrder, Key("verifier", "other", 0)}, i, j \in DOMAIN issues}
Claims ==
  {[controller |-> c, slot |-> slot, gen |-> a.said.gen, epoch |-> a.said.epoch, tag |-> a.tag] :
     c \in {CS(device) : device \in Devices} \cup {LowOrder}, slot \in Slots, a \in answers}

Next ==
  \/ \E account \in Accounts, device \in Devices : Issue(account, device)
  \/ \E device \in Devices, field \in {"epoch", "gen"} : Change(device, field)
  \/ \E device \in Devices, slot \in Slots, request \in Requests : Answer(device, slot, request)
  \/ \E i \in DOMAIN issues, claim \in Claims : Claim(i, claim)

Spec == Init /\ [][Next]_vars
-----------------------------------------------------------------------------
(* An account is linked only to the controller, the ownership epoch and    *)
(* the slot that answered this account's own request, at most once a       *)
(* nonce: not on another account's answer, one from before a factory       *)
(* reset, one for another slot or generation, or one from a controller the *)
(* record does not name; and such an answer, as given, is never refused    *)
(* (VouchRequest::answer, VouchIssue::verify).                             *)
LinkedAsVouched ==
  /\ \A l \in links :
       LET issue == issues[l.issue]
       IN  /\ issue.device \in Recorded
           /\ \E a \in answers :
                a.said = [device |-> issue.device, epoch |-> issue.epoch, slot |-> l.slot,
                          gen |-> l.gen, nonce |-> issue.nonce,
                          binding |-> <<"binding", issue.account>>]
  /\ \A l, k \in links : l.issue = k.issue => l = k
  /\ ~slighted
=============================================================================
