------------------------------- MODULE MCImports -------------------------------
(* The two imports, of letters and of cards of the procurement site, which *)
(* share nothing: a behaviour is one of either.                            *)
(*                                                                         *)
(* Letters: a recent one, a huge one and an old one; the service with one  *)
(* connection to the database and a web process with two.  When a run of   *)
(* the web takes the lock anew, its connections differ in nothing, so that *)
(* it may as well be w1 that it takes.                                     *)
(*                                                                         *)
(* Cards: the notice n1 names object 1 first and then 2; nothing matches   *)
(* the notice n2, whose contract, in force, has object 2 for its place.    *)
EXTENDS InquirySync, ProcurementChain, TLC

CONSTANTS a, b, aged, sched, web, s0, w1, w2, n1, n2

MCConnsOf == (sched :> {s0}) @@ (web :> {w1, w2})

MCMainObject == (n1 :> 1) @@ (n2 :> None)
MCOtherObjects == (n1 :> {2}) @@ (n2 :> {})
MCPlaceObject == (n1 :> 1) @@ (n2 :> 2)
MCStages == (n1 :> {"cancelled", "won", "done", "broken"}) @@ (n2 :> {"won"})

VARIABLE area

InMail == area = "mail"

ImportsInit == area \in {"mail", "site"} /\ MailInit /\ ChainInit

AlwaysW1 == run'[web].conn # w2

ImportsNext ==
    \/ InMail /\ MailNext /\ AlwaysW1 /\ UNCHANGED <<area, chainVars>>
    \/ ~InMail /\ ChainNext /\ UNCHANGED <<area, mailVars>>

(* MailFairness, of the behaviours of the mail.                            *)
ImportsFairness ==
    /\ SF_mailVars(InMail /\ Recycle)
    /\ \A r \in Runners : WF_mailVars(InMail /\ RunStep(r))
    /\ SF_mailVars(InMail /\ StartSync(Service)) /\ SF_mailVars(InMail /\ SkipOld(Service))
    /\ \A m \in Mails \ OldMails :
         SF_mailVars(InMail /\ ImportMail(Service) /\ box[NextUid(Service)].mail = m)

ImportsSpec ==
    ImportsInit /\ [][ImportsNext]_<<area, mailVars, chainVars>> /\ ImportsFairness
=============================================================================
