----------------------------- MODULE InquirySync -----------------------------
(***************************************************************************)
(* inquiries/services.py: the mail of a mailbox becomes inquiries.  The    *)
(* inquiry-sync service and a thread started by the web page both run      *)
(* InquiryService.sync.                                                    *)
(*                                                                         *)
(* The mutual exclusion is a PostgreSQL advisory lock of the session, that *)
(* is of the connection the statement happened to run on.  The first       *)
(* commit gives that connection back to the pool, so the unlock may run on *)
(* another one, and recycling the idle connection drops the lock: neither  *)
(* a free lock after a run nor one run at a time is guaranteed.            *)
(***************************************************************************)
EXTENDS Integers, Sequences, SequencesExt, FiniteSets

CONSTANTS Mails,        \* letters that may arrive
          OldMails,      \* letters whose header is dated before year_from
          HugeMails,     \* letters over MAX_MESSAGE_BYTES
          Runners,       \* processes that run sync
          Service,       \* the process that syncs in a loop
          ConnsOf,       \* the pooled connections of each process
          Limit,         \* INQUIRY_FETCH_LIMIT
          MaxValidity,   \* how often the server renumbers the folder (bound)
          MaxDepth,      \* how often one connection takes the lock it has (bound)
          Perishable     \* letters whose copy on the server or on the disk may be lost (bound)

Conns == UNION {ConnsOf[r] : r \in Runners}
NoConn == "none"
Pooled == "pooled"     \* the run holds no connection right now

ASSUME MailboxAssumption ==
    /\ OldMails \cup HugeMails \cup Perishable \subseteq Mails
    /\ Service \in Runners
    /\ Limit \in Nat \ {0} /\ MaxValidity \in Nat \ {0}
    /\ MaxDepth \in Nat \ {0}
    /\ {NoConn, Pooled} \cap Conns = {}

(* Nothing in the code bounds the letters dated before the year; as many   *)
(* of them as a batch holds would fill every batch for ever.               *)
ASSUME RoomBesideOldMails == IsFiniteSet(OldMails) /\ Cardinality(OldMails) < Limit

VARIABLES box,          \* the folder on the server: the letter of each UID, kept or not
          validity,     \* its UIDVALIDITY
          inquiries,    \* committed rows; file is what the attachment's path holds
          lock,         \* the connection that holds the advisory lock, and how often
          run           \* the run of each process

mailVars == <<box, validity, inquiries, lock, run>>

Lost == "lost"          \* an attachment row without a file on the disk
NoFile == "no file"
Free == [by |-> NoConn, depth |-> 0]
Idle == [running |-> FALSE, conn |-> Pooled, batch |-> {}]

Letter(m) == [mail |-> m, kept |-> TRUE]
InBox(m) == Letter(m) \in ToSet(box)
Kept(u) == u \in DOMAIN box /\ box[u].kept

Inquiry(u, r) ==
    [validity |-> validity, uid |-> u, mail |-> box[u].mail, by |-> r,
     file |-> IF box[u].mail \in HugeMails THEN NoFile ELSE box[u].mail]

MailTypeOK ==
    /\ box \in Seq([mail : Mails, kept : BOOLEAN])
    /\ validity \in 1..MaxValidity
    /\ inquiries \subseteq [validity : 1..MaxValidity, uid : Nat, mail : Mails,
                            by : Runners, file : Mails \cup {Lost, NoFile}]
    /\ lock \in [by : Conns \cup {NoConn}, depth : 0..MaxDepth]
    /\ run \in [Runners -> [running : BOOLEAN, conn : Conns \cup {Pooled},
                            batch : SUBSET (1..Len(box))]]
    /\ \A r \in Runners : run[r].conn \in ConnsOf[r] \cup {Pooled}

MailInit ==
    /\ box = << >> /\ validity = 1
    /\ inquiries = {}
    /\ lock = Free
    /\ run = [r \in Runners |-> Idle]

-----------------------------------------------------------------------------
(* The mail server and the disk *)

Deliver(m) ==
    /\ \A u \in DOMAIN box : box[u].mail # m
    /\ box' = Append(box, Letter(m))
    /\ UNCHANGED <<validity, inquiries, lock, run>>

DeleteMail(u) ==
    /\ Kept(u) /\ box[u].mail \in Perishable
    /\ box' = [box EXCEPT ![u].kept = FALSE]
    /\ UNCHANGED <<validity, inquiries, lock, run>>

(* The letters that are left get new UIDs in the old order.  A folder is   *)
(* not renumbered while a session has it selected.                         *)
KeptUids == {u \in DOMAIN box : box[u].kept}

Renumber ==
    /\ validity < MaxValidity
    /\ \A r \in Runners : run[r] = Idle
    /\ validity' = validity + 1
    /\ \E new \in Bijection(1..Cardinality(KeptUids), KeptUids) :
         /\ \A u, v \in DOMAIN new : u < v => new[u] < new[v]
         /\ box' = [u \in DOMAIN new |-> box[new[u]]]
    /\ UNCHANGED <<inquiries, lock, run>>

LoseFile(i) ==
    /\ i.file \in Perishable
    /\ inquiries' = (inquiries \ {i}) \cup {[i EXCEPT !.file = Lost]}
    /\ UNCHANGED <<box, validity, lock, run>>

-----------------------------------------------------------------------------
(* One run of sync *)

(* The newest UIDs that have no inquiry yet, at most Limit of them.  The   *)
(* mutant counts the imported ones in.                                     *)
Imported == {i.uid : i \in {j \in inquiries : j.validity = validity}}

Newest(uids) == {u \in uids : Cardinality({v \in uids : v > u}) < Limit}

BatchOfNewest == Newest(KeptUids) \ Imported
Batch == Newest(KeptUids \ Imported)

(* restore_missing_attachments fetches by the stored UID alone: whatever   *)
(* letter has that UID now is written over the lost file.  A fetch that    *)
(* fails leaves the file lost.  The mutant takes the UID for a position.   *)
RestoredByPosition(i) ==
    LET left == SelectSeq(box, LAMBDA l : l.kept) IN
    IF i.file = Lost /\ i.uid <= Len(left) THEN [i EXCEPT !.file = left[i.uid].mail] ELSE i

RestoredFile(i) ==
    IF i.file = Lost /\ Kept(i.uid) THEN [i EXCEPT !.file = box[i.uid].mail] ELSE i

(* From the lock to the first commit the run keeps one connection, so no   *)
(* other run interferes: lock, snapshot, restored files and batch.         *)
StartSync(r) ==
    /\ run[r] = Idle
    /\ \E c \in ConnsOf[r] :
        /\ lock.by \in {NoConn, c} /\ lock.depth < MaxDepth
        /\ lock' = [by |-> c, depth |-> lock.depth + 1]
        /\ run' = [run EXCEPT ![r] = [running |-> TRUE, conn |-> c, batch |-> Batch]]
    /\ inquiries' = {RestoredFile(i) : i \in inquiries}
    /\ UNCHANGED <<box, validity>>

NextUid(r) == Max(run[r].batch)

Importing(r) == run[r].batch # {}

(* A letter dated before the year is passed over and leaves no trace; the  *)
(* purge of inquiries that have become too old is left out.                *)
SkipOld(r) ==
    /\ Importing(r)
    /\ Kept(NextUid(r)) /\ box[NextUid(r)].mail \in OldMails
    /\ run' = [run EXCEPT ![r].batch = @ \ {NextUid(r)}]
    /\ UNCHANGED <<box, validity, inquiries, lock>>

(* uq_inquiries_imap_uid: the insert of a known UID is rolled back.  The   *)
(* mutant does without the constraint.                                     *)
NeverTaken(u) == FALSE
Taken(u) == \E i \in inquiries : i.validity = validity /\ i.uid = u

ImportMail(r) ==
    /\ Importing(r)
    /\ Kept(NextUid(r)) /\ box[NextUid(r)].mail \notin OldMails
    /\ inquiries' = IF Taken(NextUid(r)) THEN inquiries
                    ELSE inquiries \cup {Inquiry(NextUid(r), r)}
    /\ run' = [run EXCEPT ![r].batch = @ \ {NextUid(r)}, ![r].conn = Pooled]
    /\ UNCHANGED <<box, validity, lock>>

(* The end of a run: everything is committed or rolled back, the           *)
(* connection is back in the pool, and pg_advisory_unlock runs on any      *)
(* connection of the pool; on one that does not hold the lock it only      *)
(* warns, and a lock taken twice stays.  The mutant unlocks any.           *)
UnlockedAnyway(c) == IF lock.depth = 1 THEN Free ELSE [lock EXCEPT !.depth = @ - 1]
Unlocked(c) ==
    IF lock.by # c THEN lock
    ELSE IF lock.depth = 1 THEN Free ELSE [lock EXCEPT !.depth = @ - 1]

EndRun(r) ==
    /\ \E c \in ConnsOf[r] : lock' = Unlocked(c)
    /\ run' = [run EXCEPT ![r] = Idle]
    /\ UNCHANGED <<box, validity, inquiries>>

(* Any error of the server, and a letter that has gone, ends the run.      *)
Fail(r) == run[r].running /\ EndRun(r)

Finish(r) == run[r].running /\ ~Importing(r) /\ EndRun(r)

Crash(r) ==
    /\ run[r] # Idle
    /\ lock' = IF lock.by \in ConnsOf[r] THEN Free ELSE lock
    /\ run' = [run EXCEPT ![r] = Idle]
    /\ UNCHANGED <<box, validity, inquiries>>

(* pool_recycle: an idle connection is replaced when it is next checked    *)
(* out, and its session's locks end.                                       *)
Recycle ==
    /\ lock # Free
    /\ \A r \in Runners : run[r].conn # lock.by
    /\ lock' = Free
    /\ UNCHANGED <<box, validity, inquiries, run>>

RunStep(r) == SkipOld(r) \/ ImportMail(r) \/ Fail(r) \/ Finish(r)

MailNext ==
    \/ \E m \in Mails : Deliver(m)
    \/ \E u \in DOMAIN box : DeleteMail(u)
    \/ Renumber
    \/ \E i \in inquiries : LoseFile(i)
    \/ Recycle
    \/ \E r \in Runners : StartSync(r) \/ RunStep(r) \/ Crash(r)

(* A run always ends (every IMAP call has a timeout); the service's loop   *)
(* tries again for ever; an idle connection is checked out by other        *)
(* requests sooner or later; the server does not refuse the same letter    *)
(* for ever.  Nobody has to press the button of the web page.              *)
MailFairness ==
    /\ SF_mailVars(Recycle)
    /\ \A r \in Runners : WF_mailVars(RunStep(r))
    /\ SF_mailVars(StartSync(Service)) /\ SF_mailVars(SkipOld(Service))
    /\ \A m \in Mails \ OldMails :
         SF_mailVars(ImportMail(Service) /\ box[NextUid(Service)].mail = m)

MailSpec == MailInit /\ [][MailNext]_mailVars /\ MailFairness

-----------------------------------------------------------------------------
(* Only a renumbered folder gives a letter a second inquiry: two runs that *)
(* overlap because the lock was lost with its connection, each with the    *)
(* letter in a batch it has read before, make one.  After a renumbering    *)
(* the letter is imported afresh, since the code looks only for inquiries  *)
(* of the present UIDVALIDITY.                                             *)
OneInquiryPerNumbering ==
    \A i, j \in inquiries : i.mail = j.mail /\ i # j => i.validity # j.validity

(* The file of an inquiry is its own letter's, unless the folder has been  *)
(* renumbered since the letter was imported.                               *)
FileOfItsMail ==
    \A i \in inquiries :
        i.validity = validity => i.file \in {i.mail, Lost, NoFile}

(* Every recent letter that stays in the folder becomes an inquiry, though *)
(* runs fail and die and more letters wait than a batch holds: what a run  *)
(* did not reach is taken by a later one (RoomBesideOldMails).             *)
EveryMailImported ==
    \A m \in Mails \ OldMails :
        <>[]InBox(m) => <>(\E i \in inquiries : i.mail = m)
=============================================================================
