------------------------- MODULE InquirySyncProofs -------------------------
(***************************************************************************)
(* Proofs about the import of mail, for any letters, processes, pooled     *)
(* connections, batch size and bounds: a letter becomes one inquiry in a   *)
(* numbering, files are those of their letters, and the state is well      *)
(* formed.                                                                 *)
(***************************************************************************)
EXTENDS InquirySync, TLAPS, FiniteSetTheorems

Letters == [mail : Mails, kept : BOOLEAN]

(* An inquiry keeps its key whatever happens to its file.                  *)
Shaped(i) == i = [validity |-> i.validity, uid |-> i.uid, mail |-> i.mail,
                  by |-> i.by, file |-> i.file]

(* The letter that an inquiry of the present numbering was made from is    *)
(* still the one that has its UID, and what is on the disk is that letter. *)
Faithful(i) ==
    i.validity = validity =>
        /\ i.uid \in DOMAIN box /\ box[i.uid].mail = i.mail
        /\ i.file \in {i.mail, Lost, NoFile}

(* The folder holds a letter once, and the unique key of the table is one. *)
HeldOnce == \A u, v \in DOMAIN box : box[u].mail = box[v].mail => u = v

KeyOnce == \A i, j \in inquiries : i.validity = j.validity /\ i.uid = j.uid => i = j

MailInv ==
    /\ box \in Seq(Letters) /\ HeldOnce
    /\ validity \in Nat
    /\ \A i \in inquiries : Shaped(i) /\ i.validity \in Nat /\ i.validity =< validity
    /\ \A i \in inquiries : Faithful(i)
    /\ KeyOnce /\ OneInquiryPerNumbering

LEMMA BoxHoldsLetters ==
    ASSUME NEW b \in Seq(Letters)
    PROVE  /\ Len(b) \in Nat /\ DOMAIN b = 1..Len(b)
           /\ \A u \in DOMAIN b : b[u] \in Letters
  OBVIOUS

LEMMA MailInitInv == MailInit => MailInv
<1>1. << >> \in Seq(Letters)
  OBVIOUS
<1> QED BY <1>1 DEF MailInit, MailInv, HeldOnce, KeyOnce, OneInquiryPerNumbering

(* Rows that keep their keys keep the invariant.                           *)
LEMMA RowsRewritten ==
    ASSUME MailInv, UNCHANGED <<box, validity>>,
           \A i \in inquiries' : \E j \in inquiries :
              /\ Shaped(i) /\ i.validity = j.validity /\ i.uid = j.uid /\ i.mail = j.mail
              /\ (i.file \in {j.file, Lost} \/ (Kept(i.uid) /\ i.file = box[i.uid].mail)),
           \A i, k \in inquiries' : i.validity = k.validity /\ i.uid = k.uid => i = k
    PROVE  MailInv'
<1>1. ASSUME NEW i \in inquiries'
      PROVE  Shaped(i) /\ i.validity \in Nat /\ i.validity =< validity /\ Faithful(i)
  <2>1. PICK j \in inquiries :
              /\ Shaped(i) /\ i.validity = j.validity /\ i.uid = j.uid /\ i.mail = j.mail
              /\ (i.file \in {j.file, Lost} \/ (Kept(i.uid) /\ i.file = box[i.uid].mail))
    BY <1>1
  <2>2. j.validity \in Nat /\ j.validity =< validity /\ Faithful(j)
    BY DEF MailInv
  <2> QED BY <2>1, <2>2 DEF Faithful
<1>2. OneInquiryPerNumbering'
  <2> SUFFICES ASSUME NEW i \in inquiries', NEW k \in inquiries', i.mail = k.mail,
                      i.validity = k.validity
               PROVE  i = k
    BY DEF OneInquiryPerNumbering
  <2>1. PICK j \in inquiries, l \in inquiries :
          /\ i.validity = j.validity /\ i.uid = j.uid /\ i.mail = j.mail
          /\ k.validity = l.validity /\ k.uid = l.uid /\ k.mail = l.mail
    OBVIOUS
  <2>2. j.mail = l.mail /\ j.validity = l.validity
    BY <2>1
  <2>3. OneInquiryPerNumbering
    BY DEF MailInv
  <2>4. j = l
    BY <2>2, <2>3 DEF OneInquiryPerNumbering
  <2> QED BY <2>1, <2>4
<1> QED BY <1>1, <1>2 DEF MailInv, HeldOnce, KeyOnce, Faithful

LEMMA DeliverStep ==
    ASSUME MailInv, NEW m \in Mails, Deliver(m) PROVE MailInv'
<1>1. /\ box' = Append(box, Letter(m))
      /\ UNCHANGED <<validity, inquiries>>
  BY DEF Deliver
<1>2. /\ box \in Seq(Letters)
      /\ Letter(m) \in Letters
  BY DEF MailInv, Letter, Letters
<1>3. /\ box' \in Seq(Letters)
      /\ \A u \in DOMAIN box : u \in DOMAIN box' /\ box'[u] = box[u]
  <2>1. /\ Len(box) \in Nat /\ DOMAIN box = 1..Len(box)
        /\ box' \in Seq(Letters)
        /\ DOMAIN box' = 1..(Len(box) + 1)
        /\ \A u \in 1..Len(box) : box'[u] = box[u]
    BY <1>1, <1>2
  <2> QED BY <2>1
<1>4. \A i \in inquiries' : Faithful(i)'
  BY <1>1, <1>3 DEF MailInv, Faithful
<1>5. HeldOnce'
  <2>1. /\ \A u \in DOMAIN box' : u \in DOMAIN box \/ u = Len(box) + 1
        /\ box'[Len(box) + 1] = Letter(m) /\ Letter(m).mail = m
    BY <1>1, <1>2 DEF Letter
  <2>2. \A u \in DOMAIN box : box[u].mail # m
    BY DEF Deliver
  <2> QED BY <1>3, <2>1, <2>2 DEF MailInv, HeldOnce
<1> QED BY <1>1, <1>3, <1>4, <1>5 DEF MailInv, KeyOnce, OneInquiryPerNumbering, Shaped

LEMMA DeleteStep ==
    ASSUME MailInv, NEW u \in DOMAIN box, DeleteMail(u) PROVE MailInv'
<1>1. /\ box' = [box EXCEPT ![u] = [box[u] EXCEPT !.kept = FALSE]]
      /\ UNCHANGED <<validity, inquiries>>
  BY DEF DeleteMail
<1>2. box \in Seq(Letters)
  BY DEF MailInv
<1>3. box[u] \in Letters
  BY <1>2, BoxHoldsLetters
<1>4. [box[u] EXCEPT !.kept = FALSE] \in Letters
      /\ [box[u] EXCEPT !.kept = FALSE].mail = box[u].mail
  BY <1>3 DEF Letters
<1>5. /\ box' \in Seq(Letters)
      /\ DOMAIN box' = DOMAIN box /\ \A v \in DOMAIN box : box'[v].mail = box[v].mail
  <2> DEFINE gone == [box[u] EXCEPT !.kept = FALSE]
  <2> HIDE DEF gone
  <2>1. box' = [box EXCEPT ![u] = gone]
    BY <1>1 DEF gone
  <2>2. gone \in Letters /\ gone.mail = box[u].mail
    BY <1>4 DEF gone
  <2> QED BY <1>2, <2>1, <2>2
<1>6. \A i \in inquiries' : Faithful(i)'
  BY <1>1, <1>5 DEF MailInv, Faithful
<1>7. HeldOnce'
  BY <1>5 DEF MailInv, HeldOnce
<1> QED BY <1>1, <1>5, <1>6, <1>7 DEF MailInv, KeyOnce, OneInquiryPerNumbering, Shaped

(* No inquiry belongs to the new numbering yet.                            *)
LEMMA RenumberStep ==
    ASSUME MailInv, Renumber PROVE MailInv'
<1>1. PICK new \in Bijection(1..Cardinality(KeptUids), KeptUids) :
         box' = [u \in DOMAIN new |-> box[new[u]]]
  BY DEF Renumber
<1>2. validity' = validity + 1 /\ inquiries' = inquiries
  BY DEF Renumber
<1>3. box \in Seq(Letters) /\ validity \in Nat
  BY DEF MailInv
<1>4. Cardinality(KeptUids) \in Nat
  <2>1. DOMAIN box = 1..Len(box) /\ Len(box) \in Nat
    BY <1>3
  <2>2. IsFiniteSet(DOMAIN box)
    BY <2>1, FS_Interval
  <2>3. KeptUids \subseteq DOMAIN box
    BY DEF KeptUids
  <2> QED BY <2>2, <2>3, FS_Subset, FS_CardinalityType
<1>5. new \in [1..Cardinality(KeptUids) -> KeptUids]
  BY DEF Bijection, Injection
<1>6. \A u \in 1..Cardinality(KeptUids) : box[new[u]] \in Letters
  <2>1. \A u \in 1..Cardinality(KeptUids) : new[u] \in DOMAIN box
    BY <1>5 DEF KeptUids
  <2> QED BY <1>3, <2>1, BoxHoldsLetters
<1>7. box' \in Seq(Letters)
  <2> DEFINE n == Cardinality(KeptUids)
             moved == [u \in 1..n |-> box[new[u]]]
  <2>1. box' = moved
    BY <1>1, <1>5
  <2>2. n \in Nat /\ \A u \in 1..n : moved[u] \in Letters
    BY <1>4, <1>6
  <2>3. moved = [u \in 1..n |-> moved[u]]
    OBVIOUS
  <2> HIDE DEF n, moved
  <2>4. [u \in 1..n |-> moved[u]] \in Seq(Letters)
    BY <2>2
  <2> QED BY <2>1, <2>3, <2>4
<1>8. \A i \in inquiries' : Faithful(i)' /\ i.validity =< validity'
  BY <1>2, <1>3 DEF MailInv, Faithful
<1>9. HeldOnce'
  <2>1. \A u \in DOMAIN box' : box'[u] = box[new[u]] /\ new[u] \in DOMAIN box
    BY <1>1, <1>5 DEF KeptUids
  <2>2. \A u, v \in DOMAIN box' : new[u] = new[v] => u = v
    BY <1>1, <1>5 DEF Bijection, Injection, IsInjective
  <2>3. HeldOnce
    BY DEF MailInv
  <2> QED BY <2>1, <2>2, <2>3 DEF HeldOnce
<1> QED BY <1>2, <1>3, <1>7, <1>8, <1>9 DEF MailInv, KeyOnce, OneInquiryPerNumbering, Shaped

LEMMA LoseFileStep ==
    ASSUME MailInv, NEW j \in inquiries, LoseFile(j) PROVE MailInv'
<1> DEFINE lost == [j EXCEPT !.file = Lost]
<1>1. /\ inquiries' = (inquiries \ {j}) \cup {lost}
      /\ UNCHANGED <<box, validity>>
  BY DEF LoseFile
<1>2. Shaped(j)
  BY DEF MailInv
<1>3. /\ Shaped(lost) /\ lost.validity = j.validity /\ lost.uid = j.uid
      /\ lost.mail = j.mail /\ lost.file = Lost
  BY <1>2 DEF Shaped
<1>4. \A i \in inquiries : Shaped(i)
  BY DEF MailInv
<1> HIDE DEF lost
<1>5. \A i, k \in inquiries' : i.validity = k.validity /\ i.uid = k.uid => i = k
  BY <1>1, <1>3 DEF MailInv, KeyOnce
<1>6. ASSUME NEW i \in inquiries'
      PROVE  \E k \in inquiries :
              /\ Shaped(i) /\ i.validity = k.validity /\ i.uid = k.uid /\ i.mail = k.mail
              /\ (i.file \in {k.file, Lost} \/ (Kept(i.uid) /\ i.file = box[i.uid].mail))
  <2>1. CASE i = lost
    <3>1. i.file \in {j.file, Lost}
      BY <1>3, <2>1
    <3> QED BY <1>3, <2>1, <3>1
  <2>2. CASE i # lost
    <3>1. i \in inquiries /\ Shaped(i) /\ i.file \in {i.file, Lost}
      BY <1>1, <1>4, <1>6, <2>2
    <3> QED BY <3>1
  <2> QED BY <2>1, <2>2
<1> QED BY <1>1, <1>5, <1>6, RowsRewritten

LEMMA StartSyncStep ==
    ASSUME MailInv, NEW r \in Runners, StartSync(r) PROVE MailInv'
<1>1. /\ inquiries' = {RestoredFile(i) : i \in inquiries}
      /\ UNCHANGED <<box, validity>>
  BY DEF StartSync
<1>2. ASSUME NEW j \in inquiries
      PROVE  LET i == RestoredFile(j) IN
              /\ Shaped(i) /\ i.validity = j.validity /\ i.uid = j.uid /\ i.mail = j.mail
              /\ (i.file \in {j.file, Lost} \/ (Kept(i.uid) /\ i.file = box[i.uid].mail))
  <2>1. Shaped(j)
    BY DEF MailInv
  <2>2. CASE j.file = Lost /\ Kept(j.uid)
    <3>1. RestoredFile(j) = [j EXCEPT !.file = box[j.uid].mail]
      BY <2>2 DEF RestoredFile
    <3> QED BY <2>1, <2>2, <3>1 DEF Shaped
  <2>3. CASE ~(j.file = Lost /\ Kept(j.uid))
    <3>1. RestoredFile(j) = j
      BY <2>3 DEF RestoredFile
    <3>2. j.file \in {j.file, Lost}
      OBVIOUS
    <3> QED BY <2>1, <3>1, <3>2
  <2> QED BY <2>2, <2>3
<1>3. ASSUME NEW i \in inquiries', NEW k \in inquiries',
             i.validity = k.validity, i.uid = k.uid
      PROVE  i = k
  <2>1. PICK a \in inquiries, b \in inquiries : i = RestoredFile(a) /\ k = RestoredFile(b)
    BY <1>1, <1>3
  <2>2. a.validity = b.validity /\ a.uid = b.uid
    BY <1>2, <1>3, <2>1
  <2>3. a = b
    BY <2>2 DEF MailInv, KeyOnce
  <2> QED BY <2>1, <2>3
<1> QED BY <1>1, <1>2, <1>3, RowsRewritten

(* The unique key refuses the second inquiry of a letter, so it does not   *)
(* matter who else runs or what the run had read.                          *)
LEMMA ImportStep ==
    ASSUME MailInv, NEW r \in Runners, ImportMail(r) PROVE MailInv'
<1>1. PICK u, new :
        /\ u = NextUid(r) /\ new = Inquiry(u, r)
        /\ Kept(u) /\ UNCHANGED <<box, validity>>
        /\ inquiries' = IF Taken(u) THEN inquiries ELSE inquiries \cup {new}
  BY DEF ImportMail
<1>2. /\ Shaped(new) /\ new.validity = validity /\ new.uid = u /\ new.mail = box[u].mail
      /\ new.file \in {NoFile, box[u].mail}
  BY <1>1 DEF Inquiry, Shaped
<1>3. CASE Taken(u)
  BY <1>1, <1>3 DEF MailInv, HeldOnce, Faithful, KeyOnce, OneInquiryPerNumbering
<1>4. CASE ~Taken(u)
  <2>1. \A i \in inquiries : ~(i.validity = new.validity /\ i.uid = new.uid)
    BY <1>2, <1>4 DEF Taken
  <2>2. KeyOnce'
    BY <1>1, <1>4, <2>1 DEF MailInv, KeyOnce
  <2>4. ASSUME NEW i \in inquiries, i.validity = validity, i.mail = new.mail
        PROVE  FALSE
    <3>1. i.uid \in DOMAIN box /\ box[i.uid].mail = i.mail
      BY <2>4 DEF MailInv, Faithful
    <3>2. i.uid = u
      BY <1>1, <1>2, <2>4, <3>1 DEF MailInv, HeldOnce, Kept
    <3> QED BY <1>2, <2>1, <2>4, <3>2
  <2>5. OneInquiryPerNumbering'
    BY <1>1, <1>2, <1>4, <2>4 DEF MailInv, OneInquiryPerNumbering
  <2>3. Faithful(new)' /\ new.validity \in Nat /\ new.validity =< validity
    BY <1>1, <1>2 DEF MailInv, Faithful, Kept
  <2> QED BY <1>1, <1>2, <1>4, <2>2, <2>3, <2>5 DEF MailInv, HeldOnce, Faithful
<1> QED BY <1>3, <1>4

LEMMA OtherMailSteps ==
    ASSUME MailInv, UNCHANGED <<box, validity, inquiries>> PROVE MailInv'
  BY DEF MailInv, HeldOnce, Faithful, KeyOnce, OneInquiryPerNumbering

-----------------------------------------------------------------------------
(* The invariant is inductive.                                             *)
THEOREM MailInvariant == MailSpec => []MailInv
<1>1. MailInv /\ [MailNext]_mailVars => MailInv'
  <2> SUFFICES ASSUME MailInv, [MailNext]_mailVars PROVE MailInv'
    OBVIOUS
  <2>1. CASE \E m \in Mails : Deliver(m)
    BY <2>1, DeliverStep
  <2>2. CASE \E u \in DOMAIN box : DeleteMail(u)
    BY <2>2, DeleteStep
  <2>3. CASE Renumber
    BY <2>3, RenumberStep
  <2>4. CASE \E i \in inquiries : LoseFile(i)
    BY <2>4, LoseFileStep
  <2>5. CASE \E r \in Runners : StartSync(r)
    BY <2>5, StartSyncStep
  <2>6. CASE \E r \in Runners : ImportMail(r)
    BY <2>6, ImportStep
  <2>7. ASSUME NEW r \in Runners, SkipOld(r) \/ Fail(r) \/ Finish(r) \/ Crash(r)
        PROVE  MailInv'
    BY <2>7, OtherMailSteps DEF SkipOld, Fail, Finish, Crash, EndRun
  <2>8. CASE Recycle
    BY <2>8, OtherMailSteps DEF Recycle
  <2>9. CASE UNCHANGED mailVars
    BY <2>9, OtherMailSteps DEF mailVars
  <2> QED BY <2>1, <2>2, <2>3, <2>4, <2>5, <2>6, <2>7, <2>8, <2>9 DEF MailNext, RunStep
<1> QED BY <1>1, MailInitInv, PTL DEF MailSpec

(* However many runs overlap, a letter becomes one inquiry as long as the  *)
(* folder keeps its numbering.                                             *)
THEOREM LetterOnce == MailSpec => []OneInquiryPerNumbering
<1>1. MailInv => OneInquiryPerNumbering
  BY DEF MailInv
<1> QED BY <1>1, MailInvariant, PTL

(* Files that are lost and fetched again by their UID are the right ones   *)
(* as long as the folder has kept its numbering.                           *)
THEOREM FilesAreFaithful == MailSpec => []FileOfItsMail
<1>1. MailInv => FileOfItsMail
  BY DEF MailInv, Faithful, FileOfItsMail
<1> QED BY <1>1, MailInvariant, PTL

-----------------------------------------------------------------------------
(* Types *)

Rows == [validity : 1..MaxValidity, uid : Nat, mail : Mails, by : Runners,
         file : Mails \cup {Lost, NoFile}]
Runs == [running : BOOLEAN, conn : Conns \cup {Pooled}, batch : SUBSET (1..Len(box))]

(* Whoever holds the lock has taken it, so an unlock never counts below    *)
(* zero.                                                                   *)
LockTaken == lock.by # NoConn => lock.depth # 0

MailTypes == MailTypeOK /\ LockTaken

(* What the types say, in the words of the proofs.                         *)
LEMMA TypesSay ==
    ASSUME MailTypes
    PROVE  /\ box \in Seq(Letters) /\ validity \in 1..MaxValidity /\ inquiries \subseteq Rows
           /\ lock \in [by : Conns \cup {NoConn}, depth : 0..MaxDepth]
           /\ run \in [Runners -> Runs]
           /\ \A r \in Runners : run[r].conn \in ConnsOf[r] \cup {Pooled}
           /\ DOMAIN box = 1..Len(box) /\ Len(box) \in Nat
           /\ \A u \in DOMAIN box : box[u] \in Letters
<1>1. /\ box \in Seq(Letters) /\ validity \in 1..MaxValidity /\ inquiries \subseteq Rows
      /\ lock \in [by : Conns \cup {NoConn}, depth : 0..MaxDepth]
      /\ run \in [Runners -> Runs]
      /\ \A r \in Runners : run[r].conn \in ConnsOf[r] \cup {Pooled}
  BY DEF MailTypes, MailTypeOK, Letters, Rows, Runs
<1> QED BY <1>1, BoxHoldsLetters

LEMMA ConnsAreNamed ==
    /\ NoConn \notin Conns /\ Pooled \notin Conns
    /\ \A r \in Runners : ConnsOf[r] \subseteq Conns
  BY MailboxAssumption DEF Conns

(* A folder that has not lost a UID leaves the runs' batches well typed.   *)
LEMMA BatchesStay ==
    ASSUME MailTypes, Len(box') \in Nat, Len(box) =< Len(box')
    PROVE  [Runners -> Runs] \subseteq [Runners -> Runs']
<1>1. Len(box) \in Nat
  BY TypesSay
<1>2. 1..Len(box) \subseteq 1..Len(box')
  BY <1>1
<1>3. Runs \subseteq Runs'
  BY <1>2 DEF Runs
<1> QED BY <1>3

LEMMA UnlockedIsLock ==
    ASSUME MailTypes, NEW c \in Conns
    PROVE  /\ Unlocked(c) \in [by : Conns \cup {NoConn}, depth : 0..MaxDepth]
           /\ Unlocked(c).by # NoConn => Unlocked(c).depth # 0
<1>1. MaxDepth \in Nat /\ 0 \in 0..MaxDepth
  BY MailboxAssumption
<1>2. \A n \in 0..MaxDepth : n # 0 /\ n # 1 => n - 1 \in 0..MaxDepth /\ n - 1 # 0
  BY <1>1
<1>3. PICK by \in Conns \cup {NoConn}, n \in 0..MaxDepth : lock = [by |-> by, depth |-> n]
  BY TypesSay
<1>4. by # NoConn => n # 0
  BY <1>3 DEF MailTypes, LockTaken
<1>5. CASE by # c
  <2>1. Unlocked(c) = lock
    BY <1>3, <1>5 DEF Unlocked
  <2> QED BY <1>3, <1>4, <2>1
<1>6. CASE by = c /\ n = 1
  <2>1. Unlocked(c) = [by |-> NoConn, depth |-> 0]
    BY <1>3, <1>6 DEF Unlocked, Free
  <2> QED BY <1>1, <2>1
<1>7. CASE by = c /\ n # 1
  <2>1. Unlocked(c) = [by |-> by, depth |-> n - 1]
    BY <1>3, <1>7 DEF Unlocked
  <2>2. n # 0
    BY <1>4, <1>7, ConnsAreNamed
  <2>3. n - 1 \in 0..MaxDepth /\ n - 1 # 0
    BY <1>2, <1>7, <2>2
  <2> QED BY <2>1, <2>3
<1> QED BY <1>5, <1>6, <1>7

(* A step that changes only the lock and the run of one process.           *)
LEMMA RunTyped ==
    ASSUME MailTypes, UNCHANGED <<box, validity>>, inquiries' \subseteq Rows,
           NEW r \in Runners, NEW new \in Runs, new.conn \in ConnsOf[r] \cup {Pooled},
           run' = [run EXCEPT ![r] = new],
           lock' \in [by : Conns \cup {NoConn}, depth : 0..MaxDepth], LockTaken'
    PROVE  MailTypes'
<1>1. run' \in [Runners -> Runs]
  BY TypesSay
<1>2. \A k \in Runners : run'[k].conn \in ConnsOf[k] \cup {Pooled}
  BY TypesSay
<1> QED BY <1>1, <1>2, TypesSay DEF MailTypes, MailTypeOK, Letters, Rows, Runs

LEMMA IdleIsRun == Idle \in Runs /\ Idle.conn = Pooled
  BY DEF Idle, Runs

LEMMA BatchIsTyped == MailTypes => Batch \in SUBSET (1..Len(box))
  BY TypesSay DEF Batch, Newest, KeptUids

LEMMA MailStepTyped ==
    ASSUME MailTypes, [MailNext]_mailVars
    PROVE  MailTypes'
<1>1. ASSUME NEW m \in Mails, Deliver(m) PROVE MailTypes'
  <2>1. box' = Append(box, Letter(m)) /\ UNCHANGED <<validity, inquiries, lock, run>>
    BY <1>1 DEF Deliver
  <2>2. Letter(m) \in Letters
    BY DEF Letter, Letters
  <2>3. box' \in Seq(Letters) /\ Len(box') = Len(box) + 1
    BY <2>1, <2>2, TypesSay
  <2>4. run' \in [Runners -> Runs']
    BY <2>1, <2>3, TypesSay, BatchesStay
  <2> QED BY <2>1, <2>3, <2>4, TypesSay DEF MailTypes, MailTypeOK, LockTaken, Letters, Rows, Runs
<1>2. ASSUME NEW u \in DOMAIN box, DeleteMail(u) PROVE MailTypes'
  <2> DEFINE gone == [box[u] EXCEPT !.kept = FALSE]
  <2>1. box' = [box EXCEPT ![u] = gone] /\ UNCHANGED <<validity, inquiries, lock, run>>
    BY <1>2 DEF DeleteMail
  <2>2. gone \in Letters
    BY TypesSay DEF Letters
  <2> HIDE DEF gone
  <2>3. box' \in Seq(Letters) /\ Len(box') = Len(box)
    BY <2>1, <2>2, TypesSay
  <2>4. run' \in [Runners -> Runs']
    BY <2>1, <2>3, TypesSay, BatchesStay
  <2> QED BY <2>1, <2>3, <2>4, TypesSay DEF MailTypes, MailTypeOK, LockTaken, Letters, Rows, Runs
<1>3. ASSUME Renumber PROVE MailTypes'
  <2>1. /\ validity' = validity + 1 /\ validity < MaxValidity
        /\ \A r \in Runners : run[r] = Idle
        /\ UNCHANGED <<inquiries, lock, run>>
    BY <1>3 DEF Renumber
  <2>2. PICK new \in Bijection(1..Cardinality(KeptUids), KeptUids) :
           box' = [u \in DOMAIN new |-> box[new[u]]]
    BY <1>3 DEF Renumber
  <2>3. Cardinality(KeptUids) \in Nat
    <3>1. IsFiniteSet(DOMAIN box)
      BY TypesSay, FS_Interval
    <3>2. KeptUids \subseteq DOMAIN box
      BY DEF KeptUids
    <3> QED BY <3>1, <3>2, FS_Subset, FS_CardinalityType
  <2>4. new \in [1..Cardinality(KeptUids) -> KeptUids]
    BY DEF Bijection, Injection
  <2> DEFINE n == Cardinality(KeptUids)
             moved == [u \in 1..n |-> box[new[u]]]
  <2>5. \A u \in 1..n : moved[u] \in Letters
    BY <2>4, TypesSay DEF KeptUids
  <2>6. box' = moved
    BY <2>2, <2>4
  <2> HIDE DEF n
  <2>7. \A f : (n \in Nat /\ f = [u \in 1..n |-> f[u]] /\ \A u \in 1..n : f[u] \in Letters)
               => f \in Seq(Letters)
    OBVIOUS
  <2>8. moved = [u \in 1..n |-> moved[u]]
    OBVIOUS
  <2>9. box' \in Seq(Letters)
    <3> HIDE DEF moved
    <3> QED BY <2>3, <2>5, <2>6, <2>7, <2>8 DEF n
  <2>10. run' \in [Runners -> Runs']
    <3>1. Idle \in Runs'
      BY DEF Idle, Runs
    <3> QED BY <2>1, <3>1, TypesSay
  <2>11. validity' \in 1..MaxValidity
    BY <2>1, TypesSay, MailboxAssumption
  <2> QED BY <2>1, <2>9, <2>10, <2>11, TypesSay
          DEF MailTypes, MailTypeOK, LockTaken, Letters, Rows, Runs
<1>4. ASSUME NEW i \in inquiries, LoseFile(i) PROVE MailTypes'
  <2>1. /\ inquiries' = (inquiries \ {i}) \cup {[i EXCEPT !.file = Lost]}
        /\ UNCHANGED <<box, validity, lock, run>>
    BY <1>4 DEF LoseFile
  <2>2. [i EXCEPT !.file = Lost] \in Rows
    BY TypesSay DEF Rows
  <2>3. inquiries' \subseteq Rows
    BY <2>1, <2>2, TypesSay
  <2> QED BY <2>1, <2>3, TypesSay DEF MailTypes, MailTypeOK, LockTaken, Letters, Rows, Runs
<1>5. ASSUME Recycle PROVE MailTypes'
  <2>1. lock' = Free /\ UNCHANGED <<box, validity, inquiries, run>>
    BY <1>5 DEF Recycle
  <2>2. Free \in [by : Conns \cup {NoConn}, depth : 0..MaxDepth] /\ Free.by = NoConn
    BY MailboxAssumption DEF Free
  <2> QED BY <2>1, <2>2, TypesSay DEF MailTypes, MailTypeOK, LockTaken, Letters, Rows, Runs
<1>6. ASSUME NEW r \in Runners, StartSync(r) PROVE MailTypes'
  <2>1. PICK c \in ConnsOf[r] :
          /\ lock.by \in {NoConn, c} /\ lock.depth < MaxDepth
          /\ lock' = [by |-> c, depth |-> lock.depth + 1]
          /\ run' = [run EXCEPT ![r] = [running |-> TRUE, conn |-> c, batch |-> Batch]]
    BY <1>6 DEF StartSync
  <2>2. inquiries' = {RestoredFile(i) : i \in inquiries} /\ UNCHANGED <<box, validity>>
    BY <1>6 DEF StartSync
  <2>3. ASSUME NEW i \in Rows PROVE RestoredFile(i) \in Rows
    <3>1. CASE i.file = Lost /\ Kept(i.uid)
      <4>1. box[i.uid].mail \in Mails
        BY <3>1, TypesSay DEF Kept, Letters
      <4> QED BY <3>1, <4>1 DEF RestoredFile, Rows
    <3>2. CASE ~(i.file = Lost /\ Kept(i.uid))
      BY <3>2 DEF RestoredFile
    <3> QED BY <3>1, <3>2
  <2>4. inquiries' \subseteq Rows
    BY <2>2, <2>3, TypesSay
  <2>5. c \in Conns /\ c # NoConn
    BY ConnsAreNamed
  <2>6. lock' \in [by : Conns \cup {NoConn}, depth : 0..MaxDepth] /\ LockTaken'
    BY <2>1, <2>5, TypesSay, MailboxAssumption DEF LockTaken
  <2>7. [running |-> TRUE, conn |-> c, batch |-> Batch] \in Runs
    BY <2>5, BatchIsTyped DEF Runs
  <2> QED BY <2>1, <2>2, <2>4, <2>6, <2>7, RunTyped
<1>7. ASSUME NEW r \in Runners, SkipOld(r) PROVE MailTypes'
  <2> DEFINE new == [run[r] EXCEPT !.batch = @ \ {NextUid(r)}]
  <2>1. run' = [run EXCEPT ![r] = new] /\ UNCHANGED <<box, validity, inquiries, lock>>
    BY <1>7 DEF SkipOld
  <2>2. new \in Runs /\ new.conn = run[r].conn
    BY TypesSay DEF Runs
  <2> HIDE DEF new
  <2>3. LockTaken' /\ lock' \in [by : Conns \cup {NoConn}, depth : 0..MaxDepth]
    BY <2>1, TypesSay DEF MailTypes, LockTaken
  <2> QED BY <2>1, <2>2, <2>3, TypesSay, RunTyped
<1>8. ASSUME NEW r \in Runners, ImportMail(r) PROVE MailTypes'
  <2> DEFINE u == NextUid(r)
             new == [run[r] EXCEPT !.batch = @ \ {u}, !.conn = Pooled]
  <2>1. /\ run' = [run EXCEPT ![r] = new] /\ UNCHANGED <<box, validity, lock>>
        /\ Kept(u)
        /\ inquiries' = IF Taken(u) THEN inquiries ELSE inquiries \cup {Inquiry(u, r)}
    BY <1>8, TypesSay DEF ImportMail
  <2> HIDE DEF u
  <2>2. new \in Runs /\ new.conn = Pooled
    BY TypesSay DEF Runs
  <2> HIDE DEF new
  <2>3. u \in Nat /\ box[u].mail \in Mails
    BY <2>1, TypesSay DEF Kept, Letters
  <2>4. Inquiry(u, r) \in Rows
    BY <2>3, TypesSay DEF Inquiry, Rows
  <2>5. inquiries' \subseteq Rows
    BY <2>1, <2>4, TypesSay
  <2>6. LockTaken' /\ lock' \in [by : Conns \cup {NoConn}, depth : 0..MaxDepth]
    BY <2>1, TypesSay DEF MailTypes, LockTaken
  <2> QED BY <2>1, <2>2, <2>5, <2>6, RunTyped
<1>9. ASSUME NEW r \in Runners, Fail(r) \/ Finish(r) PROVE MailTypes'
  <2>1. PICK c \in ConnsOf[r] : lock' = Unlocked(c)
    BY <1>9 DEF Fail, Finish, EndRun
  <2>2. run' = [run EXCEPT ![r] = Idle] /\ UNCHANGED <<box, validity, inquiries>>
    BY <1>9 DEF Fail, Finish, EndRun
  <2>3. LockTaken' /\ lock' \in [by : Conns \cup {NoConn}, depth : 0..MaxDepth]
    BY <2>1, ConnsAreNamed, UnlockedIsLock DEF LockTaken
  <2> QED BY <2>2, <2>3, IdleIsRun, TypesSay, RunTyped
<1>10. ASSUME NEW r \in Runners, Crash(r) PROVE MailTypes'
  <2>1. /\ lock' \in {Free, lock}
        /\ run' = [run EXCEPT ![r] = Idle] /\ UNCHANGED <<box, validity, inquiries>>
    BY <1>10 DEF Crash
  <2>2. LockTaken' /\ lock' \in [by : Conns \cup {NoConn}, depth : 0..MaxDepth]
    BY <2>1, TypesSay, MailboxAssumption DEF MailTypes, LockTaken, Free
  <2> QED BY <2>1, <2>2, IdleIsRun, TypesSay, RunTyped
<1>11. ASSUME UNCHANGED mailVars PROVE MailTypes'
  BY <1>11 DEF mailVars, MailTypes, MailTypeOK, LockTaken
<1> QED BY <1>1, <1>2, <1>3, <1>4, <1>5, <1>6, <1>7, <1>8, <1>9, <1>10, <1>11
        DEF MailNext, RunStep

(* Whatever fails, dies or overlaps, a run holds connections of its own    *)
(* process only, its batch are UIDs of the folder, and the lock is counted *)
(* within its bounds.                                                      *)
THEOREM MailTyped == MailSpec => []MailTypeOK
<1>1. MailInit => MailTypes
  <2> SUFFICES ASSUME MailInit PROVE MailTypes
    OBVIOUS
  <2>1. box \in Seq([mail : Mails, kept : BOOLEAN]) /\ Len(box) = 0 /\ validity \in 1..MaxValidity
    BY MailboxAssumption DEF MailInit
  <2>2. Idle \in [running : BOOLEAN, conn : Conns \cup {Pooled}, batch : SUBSET (1..Len(box))]
    BY DEF Idle
  <2>3. Idle.conn = Pooled /\ Free \in [by : Conns \cup {NoConn}, depth : 0..MaxDepth]
    BY MailboxAssumption DEF Idle, Free
  <2> QED BY <2>1, <2>2, <2>3 DEF MailInit, MailTypes, MailTypeOK, LockTaken, Free
<1>2. MailTypes /\ [MailNext]_mailVars => MailTypes'
  BY MailStepTyped
<1>3. MailTypes => MailTypeOK
  BY DEF MailTypes
<1> QED BY <1>1, <1>2, <1>3, PTL DEF MailSpec
=============================================================================
