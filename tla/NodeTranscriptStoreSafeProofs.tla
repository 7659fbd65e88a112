--------------------- MODULE NodeTranscriptStoreSafeProofs ---------------------
(***************************************************************************)
(* For any entries and any number of writes and faults: what was answered  *)
(* as saved or recoverable survives the process, whichever record the      *)
(* journal gives.                                                          *)
(*                                                                         *)
(* A record the journal may give is live: promised, or attempted and not a *)
(* stray.  A live record holds an entry as the memory does or not at all   *)
(* (JournalInv), and then the disk alone shows what was answered           *)
(* (DiskReaches).  That no piece comes twice or out of order when a record *)
(* is put together with files that went on without it is arithmetic about  *)
(* the pieces' numbers: what is kept of the files is older than what is    *)
(* added to it (Fits), or the files were made from the record already      *)
(* (Stamped).  For the strays, which a retry left in the journal while the *)
(* conversation went on, this needs to know that the file they begin with  *)
(* only grew (BesideInv).                                                  *)
(***************************************************************************)
EXTENDS NodeTranscriptStoreProofs

\* The records a later process may be given, and those nobody removed with them.
Live == {promised} \cup (attempted \ stray)
Recorded == {promised} \cup attempted

\* What a record keeps of an entry.
KeptOf(c, e) == IF c = None THEN None ELSE c.retained[e]

FileText(e) == IF file[e] = None THEN <<>> ELSE file[e].text
OnDisk(e) == Shown(NothingHeld, e)
-----------------------------------------------------------------------------
(* Pieces and their numbers.                                               *)

Below(s, n) == \A i \in DOMAIN s : s[i] = Torn \/ s[i] < n
BelowTo(s, b, n) == \A i \in DOMAIN s : i <= b => s[i] = Torn \/ s[i] < n
Sorted(s) == \A i, j \in DOMAIN s : i < j => s[i] = Torn \/ s[j] = Torn \/ s[i] < s[j]
Numeric(s) == s # <<>> => s[1] \in Nat
Begins(t, s) == Len(s) <= Len(t) /\ \A i \in 1 .. Len(s) : t[i] = s[i]

\* t has what was answered as s: all of it, or a later text of a whole entry.
Reaches(e, t, s) == IF e \in Stream THEN Begins(t, s) ELSE s # <<>> => t # <<>> /\ t[1] >= s[1]

\* Every piece has the number of a write that was begun.
NumbersOf(e) ==
  /\ Below(FileText(e), writes + 1) /\ Below(spill[e], writes + 1)
  /\ said[e] # None => Below(said[e], writes + 1)
  /\ said[e] = None <=> safe[e] = None
  /\ e \notin Stream => /\ Numeric(FileText(e))
                        /\ said[e] # None => Numeric(said[e]) /\ Numeric(safe[e])
NumbersInv == \A e \in Entries : NumbersOf(e)

\* A write that is not on the disk yet is later than all that is.
Later(o) == Writes(o) =>
  /\ Below(said[o.entry], o.n)
  /\ o.at \notin {"node", "journal", "put"} => Below(FileText(o.entry), o.n) /\ Below(spill[o.entry], o.n)
LaterInv == \A i \in DOMAIN queue : Later(queue[i])
-----------------------------------------------------------------------------
(* Files and records.                                                      *)

StreamOf(e) == /\ Sorted(FileText(e)) /\ Sorted(spill[e])
               /\ file[e] # None /\ ~file[e].inline => file[e].text = <<>>
StreamInv == \A e \in Stream : StreamOf(e)

RestOK(e, r) == r # None =>
  IF e \in Stream
  THEN /\ r.plan # None /\ r.plan.text = <<r.plan.stamp>> /\ r.text = <<>>
       /\ ~r.plan.inline => r.plan.base = 0
  ELSE r.plan = None /\ r.text # <<>> /\ Numeric(r.text) /\ Below(r.text, writes + 1)

\* What a plan keeps of the files is older than what it adds.
Fits(e, p) == IF p.inline THEN BelowTo(FileText(e), p.base, p.stamp)
              ELSE BelowTo(spill[e], IF p.bytes = None THEN Len(spill[e]) ELSE p.bytes, p.stamp)
Stamped(e, p) == file[e] # None /\ file[e].stamp = p.stamp

\* Over a journal that promises nothing, strays lie beside what is held.
Free == phase = "up" /\ promised = None
FitOK(e, r) == r # None => (Fits(e, r.plan) \/ Stamped(e, r.plan)) /\ (Free => Fits(e, r.plan))

RestsInv == /\ \A e \in Entries : RestOK(e, held.retained[e])
            /\ \A c \in Recorded : \A e \in Entries : RestOK(e, KeptOf(c, e))
FitsInv == /\ \A e \in Stream : FitOK(e, held.retained[e])
           /\ \A c \in Recorded : \A e \in Stream : FitOK(e, KeptOf(c, e))

\* A held plan keeps no more than there is, and less than what was made of it.
HeldFits(e) == LET p == held.retained[e].plan
               IN  held.retained[e] # None /\ p.inline =>
                     p.base <= Len(FileText(e)) /\ (Stamped(e, p) => p.base < Len(FileText(e)))

\* A stray keeps less of an entry than is there and than another plan keeps.
Beside(e, r) == r # None /\ r # held.retained[e] =>
  IF held.retained[e] = None
  THEN file[e] # None /\ file[e].inline /\ (r.plan.inline => r.plan.base < Len(FileText(e)))
  ELSE held.retained[e].plan.inline /\ (r.plan.inline => r.plan.base <= held.retained[e].plan.base)
BesideOf(e) == HeldFits(e) /\ \A c \in Recorded : Beside(e, KeptOf(c, e))
BesideInv == Free /\ ~held.closed => \A e \in Stream : BesideOf(e)
-----------------------------------------------------------------------------
(* The journal, the memory and what was answered.                          *)

JournalInv ==
  /\ phase = "up" => visible = promised
  /\ phase = "up" /\ ~failing => promised = None /\ attempted \subseteq stray
  /\ promised # None => stray = {}
  /\ phase = "up" => \A c \in Live : \A e \in Entries : KeptOf(c, e) \in {None, held.retained[e]}

SafeSaid == \A e \in Entries : said[e] # None => Reaches(e, said[e], safe[e])

DiskReaches == phase = "up" /\ ~held.closed => \A c \in Live : \A e \in Entries :
  said[e] # None /\ KeptOf(c, e) = None => Reaches(e, OnDisk(e), safe[e])

Survives(c, e) ==
  IF said[e] = None THEN e \notin Recovered(c).files
  ELSE Reaches(e, Surviving(c, e), safe[e]) /\ (e \in Stream => Sorted(Surviving(c, e)))
Open == node # None => ~node.closed
DownInv == phase # "up" /\ Open => \A c \in Live : \A e \in Entries : Survives(c, e)

\* A conversation is closed while nothing is held, and found closed.
Unheld(o) == o.kind = "commit" /\ (Begun(o) \/ archive.revision = held.revision) => ~failing
EndInv == /\ phase = "up" /\ held.closed => node # None /\ node.closed /\ ~failing
          /\ \A i \in DOMAIN queue : Unheld(queue[i])

SafeInv == /\ JournalInv /\ NumbersInv /\ LaterInv /\ StreamInv /\ RestsInv /\ FitsInv /\ BesideInv
           /\ SafeSaid /\ DiskReaches /\ DownInv /\ EndInv
-----------------------------------------------------------------------------
(* Texts.                                                                  *)

\* A text is a function on 1 .. Len; what is joined or clipped is as it was.
LEMMA TextIs ==
  ASSUME NEW t \in Texts
  PROVE  Len(t) \in Nat /\ DOMAIN t = 1 .. Len(t) /\ \A i \in DOMAIN t : t[i] = Torn \/ t[i] \in Nat
BY DEF Texts, Pieces

LEMMA JoinIs ==
  ASSUME NEW t \in Texts, NEW u \in Texts
  PROVE  /\ t \o u \in Texts /\ Len(t \o u) = Len(t) + Len(u)
         /\ \A i \in 1 .. Len(t) : (t \o u)[i] = t[i]
         /\ \A i \in 1 .. Len(t) + Len(u) : i > Len(t) => i - Len(t) \in 1 .. Len(u) /\ (t \o u)[i] = u[i - Len(t)]
BY DEF Texts

LEMMA JoinTwice ==
  ASSUME NEW t \in Texts, NEW u \in Texts, NEW v \in Texts
  PROVE  (t \o u) \o v = t \o (u \o v)
BY DEF Texts

LEMMA AppendIs ==
  ASSUME NEW t \in Texts, NEW x \in Pieces
  PROVE  /\ Append(t, x) \in Texts /\ Append(t, x) = t \o <<x>> /\ <<x>> \in Texts /\ Len(Append(t, x)) = Len(t) + 1
         /\ \A i \in 1 .. Len(t) : Append(t, x)[i] = t[i]
         /\ Append(t, x)[Len(t) + 1] = x
BY DEF Texts

LEMMA ClipIs ==
  ASSUME NEW t \in Texts, NEW n \in Nat
  PROVE  /\ Clipped(t, n) \in Texts /\ Len(Clipped(t, n)) <= Len(t) /\ Len(Clipped(t, n)) <= n
         /\ (n <= Len(t) => Len(Clipped(t, n)) = n) /\ (n > Len(t) => Clipped(t, n) = t)
         /\ \A i \in 1 .. Len(Clipped(t, n)) : Clipped(t, n)[i] = t[i]
         /\ (n = 0 => Clipped(t, n) = <<>>)
BY DEF Texts, Clipped

LEMMA BelowMore ==
  ASSUME NEW t \in Texts, NEW m \in Nat, NEW n \in Nat, m <= n, Below(t, m)
  PROVE  Below(t, n)
BY TextIs DEF Below

LEMMA BelowJoin ==
  ASSUME NEW t \in Texts, NEW u \in Texts, NEW n \in Nat, Below(t, n), Below(u, n)
  PROVE  Below(t \o u, n)
<1>1. /\ DOMAIN (t \o u) = 1 .. Len(t) + Len(u) /\ DOMAIN t = 1 .. Len(t) /\ DOMAIN u = 1 .. Len(u)
      /\ Len(t) \in Nat /\ Len(u) \in Nat
  BY JoinIs, TextIs
<1> SUFFICES ASSUME NEW i \in 1 .. Len(t) + Len(u) PROVE (t \o u)[i] = Torn \/ (t \o u)[i] < n
  BY <1>1 DEF Below
<1>w. PICK w : w = t \o u
  OBVIOUS
<1>j. /\ \A k \in 1 .. Len(t) : w[k] = t[k]
      /\ \A k \in 1 .. Len(t) + Len(u) : k > Len(t) => k - Len(t) \in 1 .. Len(u) /\ w[k] = u[k - Len(t)]
  BY <1>w, JoinIs
<1>2. CASE i <= Len(t)
  <2>1. i \in 1 .. Len(t)
    BY <1>1, <1>2
  <2> QED BY <1>1, <1>w, <1>j, <2>1 DEF Below
<1>3. CASE i > Len(t)
  <2>1. i - Len(t) \in 1 .. Len(u) /\ w[i] = u[i - Len(t)]
    BY <1>3, <1>j
  <2> QED BY <1>1, <1>w, <2>1 DEF Below
<1> QED BY <1>1, <1>2, <1>3

LEMMA BelowOne ==
  ASSUME NEW x \in Pieces, NEW n \in Nat, x = Torn \/ x < n
  PROVE  Below(<<x>>, n) /\ <<x>> \in Texts /\ Sorted(<<x>>)
BY TextsClosed DEF Below, Sorted

LEMMA BelowNone == \A n : Below(<<>>, n) /\ Sorted(<<>>) /\ Numeric(<<>>)
BY DEF Below, Sorted, Numeric

LEMMA BelowClip ==
  ASSUME NEW t \in Texts, NEW b \in Nat, NEW n \in Nat, BelowTo(t, b, n)
  PROVE  Below(Clipped(t, b), n)
<1>1. /\ DOMAIN Clipped(t, b) = 1 .. Len(Clipped(t, b)) /\ DOMAIN t = 1 .. Len(t)
      /\ Len(Clipped(t, b)) \in Nat /\ Len(t) \in Nat /\ Len(Clipped(t, b)) <= Len(t) /\ Len(Clipped(t, b)) <= b
      /\ \A i \in 1 .. Len(Clipped(t, b)) : Clipped(t, b)[i] = t[i]
  BY ClipIs, TextIs
<1> QED BY <1>1 DEF Below, BelowTo

LEMMA BelowIsTo ==
  ASSUME NEW t \in Texts, NEW n
  PROVE  /\ Below(t, n) => \A b : BelowTo(t, b, n)
         /\ BelowTo(t, Len(t), n) => Below(t, n)
BY TextIs DEF Below, BelowTo

\* What is kept of a text is as old in every text that begins with it.
LEMMA BelowToBegins ==
  ASSUME NEW t \in Texts, NEW u \in Texts, NEW b \in Nat, NEW n, BelowTo(t, b, n),
         \A i \in DOMAIN u : i <= b => i \in DOMAIN t /\ u[i] = t[i]
  PROVE  BelowTo(u, b, n)
BY DEF BelowTo

LEMMA SortedClip ==
  ASSUME NEW t \in Texts, NEW n \in Nat, Sorted(t)
  PROVE  Sorted(Clipped(t, n))
<1>1. DOMAIN Clipped(t, n) = 1 .. Len(Clipped(t, n)) /\ DOMAIN t = 1 .. Len(t) /\ Len(Clipped(t, n)) \in Nat /\ Len(t) \in Nat
  BY ClipIs, TextIs
<1>2. Len(Clipped(t, n)) <= Len(t) /\ \A i \in 1 .. Len(Clipped(t, n)) : Clipped(t, n)[i] = t[i]
  BY ClipIs
<1> QED BY <1>1, <1>2 DEF Sorted

\* A text grows by a later piece, or a torn one.
LEMMA SortedGrows ==
  ASSUME NEW t \in Texts, NEW x \in Pieces, Sorted(t), x = Torn \/ Below(t, x)
  PROVE  Sorted(t \o <<x>>)
<1>1. Append(t, x) = t \o <<x>> /\ DOMAIN Append(t, x) = 1 .. Len(t) + 1 /\ DOMAIN t = 1 .. Len(t) /\ Len(t) \in Nat
  BY AppendIs, TextIs
<1>2. \A i \in 1 .. Len(t) + 1 : i \in DOMAIN t \/ i = Len(t) + 1
  BY <1>1
<1>3. ASSUME NEW i \in 1 .. Len(t) + 1, NEW j \in 1 .. Len(t) + 1, i < j
      PROVE  i \in DOMAIN t /\ (j \in DOMAIN t \/ j = Len(t) + 1)
  BY <1>1, <1>3
<1> QED BY <1>1, <1>2, <1>3, AppendIs DEF Sorted, Below

LEMMA BeginsSame == \A t \in Texts : Begins(t, t)
BY TextIs DEF Begins

LEMMA BeginsJoin ==
  ASSUME NEW t \in Texts, NEW u \in Texts, NEW s \in Texts, Begins(t, s)
  PROVE  Begins(t \o u, s)
<1>1. Len(s) \in Nat /\ Len(t) \in Nat /\ Len(u) \in Nat
  BY TextIs
<1> QED BY <1>1, JoinIs DEF Begins

LEMMA BeginsTwice ==
  ASSUME NEW t \in Texts, NEW u \in Texts, NEW s \in Texts, Begins(t, u), Begins(u, s)
  PROVE  Begins(t, s)
<1>1. Len(s) \in Nat /\ Len(t) \in Nat /\ Len(u) \in Nat
  BY TextIs
<1> QED BY <1>1 DEF Begins
-----------------------------------------------------------------------------
(* What the types say of an entry, before a step and after it.             *)
Typed(e) ==
  /\ FileText(e) \in Texts /\ spill[e] \in Texts
  /\ file[e] # None => file[e] \in Files /\ file[e].text = FileText(e) /\ file[e].inline \in BOOLEAN
                       /\ file[e].stamp \in Nat
  /\ file[e] = None => FileText(e) = <<>>
  /\ said[e] \in Texts \cup {None} /\ safe[e] \in Texts \cup {None}
  /\ held.retained[e] \in Held \cup {None}
RecordTyped(c) == c # None => c \in Records /\ \A e \in Entries : c.retained[e] \in Held \cup {None}

LEMMA StoreTypes ==
  ASSUME StoreViewInv
  PROVE  /\ \A e \in Entries : Typed(e)
         /\ \A c \in Recorded : RecordTyped(c) /\ \A e \in Entries : KeptOf(c, e) \in Held \cup {None}
         /\ Live \subseteq Recorded /\ writes \in Nat /\ writes + 1 \in Nat
<1>1. /\ file \in [Entries -> Files \cup {None}] /\ spill \in [Entries -> Texts]
      /\ said \in [Entries -> Texts \cup {None}] /\ safe \in [Entries -> Texts \cup {None}]
      /\ held.retained \in [Entries -> Held \cup {None}] /\ writes \in 0 .. MaxWrites
      /\ {promised} \cup attempted \cup stray \subseteq Records \cup {None}
  BY HeldType2 DEF StoreViewInv, TypeOK, DiskType, ToldType, CallsType, RecordType
<1>2. \A f \in Files : f.text \in Texts /\ f.inline \in BOOLEAN /\ f.stamp \in Nat
  BY ConstantsOK DEF Files
<1>3. \A e \in Entries : Typed(e)
  BY <1>1, <1>2, TextsClosed DEF Typed, FileText
<1>4. \A c \in Recorded : RecordTyped(c) /\ \A e \in Entries : KeptOf(c, e) \in Held \cup {None}
  BY <1>1 DEF Recorded, RecordTyped, KeptOf, Records
<1>5. Live \subseteq Recorded
  BY DEF Live, Recorded
<1> QED BY <1>1, <1>3, <1>4, <1>5, ConstantsOK

LEMMA StoreTypesThen ==
  ASSUME StoreViewInv'
  PROVE  /\ \A e \in Entries : Typed(e)'
         /\ (\A c \in Recorded : RecordTyped(c) /\ \A e \in Entries : KeptOf(c, e) \in Held \cup {None})'
         /\ Live' \subseteq Recorded' /\ writes' \in Nat /\ writes' + 1 \in Nat
<1>1. /\ file' \in [Entries -> Files \cup {None}] /\ spill' \in [Entries -> Texts]
      /\ said' \in [Entries -> Texts \cup {None}] /\ safe' \in [Entries -> Texts \cup {None}]
      /\ held'.retained \in [Entries -> Held \cup {None}] /\ writes' \in 0 .. MaxWrites
      /\ {promised'} \cup attempted' \cup stray' \subseteq Records \cup {None}
  BY DEF StoreViewInv, TypeOK, DiskType, ToldType, CallsType, RecordType, MemoryType, Memory
<1>2. \A f \in Files : f.text \in Texts /\ f.inline \in BOOLEAN /\ f.stamp \in Nat
  BY ConstantsOK DEF Files
<1>3. \A e \in Entries : Typed(e)'
  BY <1>1, <1>2, TextsClosed DEF Typed, FileText
<1>4. (\A c \in Recorded : RecordTyped(c) /\ \A e \in Entries : KeptOf(c, e) \in Held \cup {None})'
  BY <1>1 DEF Recorded, RecordTyped, KeptOf, Records
<1>5. Live' \subseteq Recorded'
  BY DEF Live, Recorded
<1> QED BY <1>1, <1>3, <1>4, <1>5, ConstantsOK

LEMMA StreamsAreEntries == Stream \subseteq Entries
BY DEF Entries

LEMMA PlanTypes ==
  ASSUME NEW r \in Held, r.plan # None
  PROVE  /\ r.plan.stamp \in Nat /\ r.plan.stamp \in Pieces /\ r.plan.stamp > 0 /\ r.plan.inline \in BOOLEAN
         /\ r.plan.base \in Nat /\ r.plan.bytes \in Nat \cup {None}
BY ConstantsOK DEF Held, Plans, Pieces
-----------------------------------------------------------------------------
(* What is answered, and what is found.                                    *)

LEMMA ReachesSame ==
  ASSUME NEW e, NEW t \in Texts, e \notin Stream => Numeric(t)
  PROVE  Reaches(e, t, t)
BY BeginsSame DEF Reaches, Numeric

LEMMA ReachesJoin ==
  ASSUME NEW e \in Stream, NEW t \in Texts, NEW u \in Texts, NEW s \in Texts, Reaches(e, t, s)
  PROVE  Reaches(e, t \o u, s)
BY BeginsJoin DEF Reaches

LEMMA ReachesTwice ==
  ASSUME NEW e, NEW t \in Texts, NEW u \in Texts, NEW s \in Texts, Reaches(e, t, u), Reaches(e, u, s),
         e \notin Stream => Numeric(t) /\ Numeric(u) /\ Numeric(s)
  PROVE  Reaches(e, t, s)
<1>1. CASE e \in Stream
  BY <1>1, BeginsTwice DEF Reaches
<1>2. CASE e \notin Stream
  BY <1>2 DEF Reaches, Numeric
<1> QED BY <1>1, <1>2

LEMMA OnDiskIs ==
  ASSUME NEW e \in Entries
  PROVE  OnDisk(e) = IF file[e] = None THEN <<>> ELSE file[e].text \o (IF file[e].inline THEN <<>> ELSE spill[e])
BY NothingHeldType DEF OnDisk, Shown

\* An entry that has one file is in it.
LEMMA OnDiskText ==
  ASSUME StoreViewInv, NEW e \in Entries
  PROVE  /\ OnDisk(e) \in Texts
         /\ (file[e] = None \/ file[e].inline \/ e \notin Stream => OnDisk(e) = FileText(e))
         /\ (file[e] # None /\ ~file[e].inline => OnDisk(e) = FileText(e) \o spill[e])
<1>1. Typed(e) /\ (e \notin Stream => spill[e] = <<>>)
  BY StoreTypes DEF StoreViewInv, FilesInv, FilesOf
<1>2. \A t \in Texts : t \o <<>> = t
  BY DEF Texts
<1>3. FileText(e) \o spill[e] \in Texts /\ <<>> \in Texts /\ FileText(e) \o <<>> = FileText(e)
  BY <1>1, <1>2 DEF Typed, Texts
<1>4. CASE file[e] = None
  BY <1>1, <1>3, <1>4, OnDiskIs DEF Typed
<1>5. CASE file[e] # None
  <2>1. OnDisk(e) = FileText(e) \o (IF file[e].inline THEN <<>> ELSE spill[e])
    BY <1>1, <1>5, OnDiskIs DEF Typed
  <2>2. CASE file[e].inline
    BY <1>1, <1>3, <1>5, <2>1, <2>2 DEF Typed
  <2>3. CASE ~file[e].inline
    BY <1>1, <1>3, <1>5, <2>1, <2>3
  <2> QED BY <2>2, <2>3
<1> QED BY <1>4, <1>5

LEMMA OnDiskSorted ==
  ASSUME StoreViewInv, NEW e \in Stream, StreamOf(e)
  PROVE  Sorted(OnDisk(e))
<1>1. e \in Entries /\ Typed(e)
  BY StoreTypes, StreamsAreEntries
<1>2. \A t \in Texts : <<>> \o t = t
  BY DEF Texts
<1>3. CASE file[e] = None \/ file[e].inline
  BY <1>1, <1>3, OnDiskText DEF StreamOf
<1>4. CASE file[e] # None /\ ~file[e].inline
  BY <1>1, <1>2, <1>4, OnDiskText DEF StreamOf, Typed
<1> QED BY <1>3, <1>4

\* materializeRetained keeps what is older of the files, and adds its words.
MadeText(e, p) ==
  (IF p.inline THEN Clipped(FileText(e), p.base)
   ELSE IF p.bytes = None THEN spill[e] ELSE Clipped(spill[e], p.bytes)) \o <<p.stamp>>

LEMMA MaterializedIs ==
  ASSUME StoreViewInv, NEW e \in Stream, NEW r \in Held, RestOK(e, r), r # None
  PROVE  /\ Stamped(e, r.plan) => Materialized(e, r) = file[e]
         /\ ~Stamped(e, r.plan) =>
              Materialized(e, r) = [text |-> MadeText(e, r.plan), inline |-> TRUE, stamp |-> r.plan.stamp]
<1>1. /\ e \in Entries /\ Typed(e) /\ r.plan # None /\ r.plan.text = <<r.plan.stamp>>
      /\ (~r.plan.inline => r.plan.base = 0)
  BY StoreTypes, StreamsAreEntries DEF RestOK
<1>2. r.plan.stamp > 0 /\ r.plan.stamp \in Nat /\ r.plan.inline \in BOOLEAN /\ r.plan.base \in Nat
      /\ r.plan.bytes \in Nat \cup {None} /\ r.plan.stamp \in Pieces
  BY <1>1, PlanTypes
<1>3. CASE Stamped(e, r.plan)
  BY <1>1, <1>3 DEF Stamped, Materialized
<1>4. CASE ~Stamped(e, r.plan)
  <2>1. Source(e).stamp # r.plan.stamp /\ Source(e).text = FileText(e)
    BY <1>1, <1>2, <1>4 DEF Stamped, Source, NoFile, FileText
  <2>2. Materialized(e, r) = [text |-> Clipped(FileText(e), r.plan.base) \o Prefix(e, r.plan) \o r.plan.text,
                              inline |-> TRUE, stamp |-> r.plan.stamp]
    BY <1>1, <2>1 DEF Materialized, Source
  <2>3. Clipped(FileText(e), r.plan.base) \o Prefix(e, r.plan) \o r.plan.text = MadeText(e, r.plan)
    <3>1. \A t \in Texts, u \in Texts : t \o <<>> = t /\ (<<>> \o t) = t
      BY DEF Texts
    <3>2. Clipped(FileText(e), r.plan.base) \in Texts /\ (~r.plan.inline => Clipped(FileText(e), r.plan.base) = <<>>)
      <4>1. \A t \in Texts : Clipped(t, 0) = <<>>
        BY ClipIs
      <4> QED BY <1>1, <1>2, <4>1, ClipType DEF Typed
    <3>3. r.plan.bytes # None => Clipped(spill[e], r.plan.bytes) \in Texts
      BY <1>1, <1>2, ClipType DEF Typed
    <3> QED BY <1>1, <3>1, <3>2, <3>3 DEF MadeText, Prefix, Typed
  <2> QED BY <1>4, <2>2, <2>3
<1> QED BY <1>3, <1>4

LEMMA MadeTextIs ==
  ASSUME StoreViewInv, NEW e \in Stream, NEW r \in Held, RestOK(e, r), r # None, StreamOf(e)
  PROVE  /\ MadeText(e, r.plan) \in Texts
         /\ Fits(e, r.plan) => Sorted(MadeText(e, r.plan))
         /\ Below(FileText(e), writes + 1) /\ Below(spill[e], writes + 1) /\ r.plan.stamp <= writes =>
              Below(MadeText(e, r.plan), writes + 1)
<1>1. /\ e \in Entries /\ Typed(e) /\ r.plan # None /\ writes + 1 \in Nat /\ writes \in Nat
  BY StoreTypes, StreamsAreEntries DEF RestOK
<1>2. r.plan.stamp > 0 /\ r.plan.stamp \in Nat /\ r.plan.inline \in BOOLEAN /\ r.plan.base \in Nat
      /\ r.plan.bytes \in Nat \cup {None} /\ r.plan.stamp \in Pieces
  BY <1>1, PlanTypes
<1>3. PICK k : k = IF r.plan.inline THEN Clipped(FileText(e), r.plan.base)
                   ELSE IF r.plan.bytes = None THEN spill[e] ELSE Clipped(spill[e], r.plan.bytes)
  OBVIOUS
<1>4. MadeText(e, r.plan) = k \o <<r.plan.stamp>>
  BY <1>3 DEF MadeText
<1>5. k \in Texts
  BY <1>1, <1>2, <1>3, ClipType DEF Typed
<1>6. Sorted(k)
  BY <1>1, <1>2, <1>3, SortedClip DEF Typed, StreamOf
<1>7. Fits(e, r.plan) => Below(k, r.plan.stamp)
  BY <1>1, <1>2, <1>3, BelowClip, BelowIsTo DEF Typed, Fits
<1>8. Below(FileText(e), writes + 1) /\ Below(spill[e], writes + 1) => Below(k, writes + 1)
  <2>1. \A t \in Texts, b \in Nat : Below(t, writes + 1) => Below(Clipped(t, b), writes + 1)
    BY <1>1, BelowClip, BelowIsTo
  <2> QED BY <1>1, <1>2, <1>3, <2>1 DEF Typed
<1>9. r.plan.stamp <= writes => Below(<<r.plan.stamp>>, writes + 1)
  BY <1>1, <1>2, BelowOne
<1>10. <<r.plan.stamp>> \in Texts
  BY <1>2, TextsClosed
<1> QED BY <1>1, <1>2, <1>4, <1>5, <1>6, <1>7, <1>8, <1>9, <1>10, SortedGrows, BelowJoin, TextsClosed

LEMMA MaterializedSorted ==
  ASSUME StoreViewInv, NEW e \in Stream, NEW r \in Held, RestOK(e, r), r # None, StreamOf(e),
         Fits(e, r.plan) \/ Stamped(e, r.plan)
  PROVE  Sorted(Materialized(e, r).text)
<1>1. e \in Entries /\ Typed(e)
  BY StoreTypes, StreamsAreEntries
<1> QED BY <1>1, MaterializedIs, MadeTextIs DEF Stamped, Typed, StreamOf
-----------------------------------------------------------------------------
(* What survives a process that is up.                                     *)

LEMMA SurvivingIs ==
  ASSUME NEW c \in Recorded, NEW e \in Entries
  PROVE  /\ Surviving(c, e) = IF KeptOf(c, e) # None THEN Materialized(e, KeptOf(c, e)).text ELSE OnDisk(e)
         /\ e \in Recovered(c).files <=> file[e] # None \/ KeptOf(c, e) # None
<1>1. NothingHeld[e] = None
  BY NothingHeldType
<1>m. PICK m : m = Recovered(c)
  OBVIOUS
<1>2. m.retained = (IF c = None THEN NothingHeld ELSE c.retained)
      /\ m.files = {x \in Entries : file[x] # None} \cup (IF c = None THEN {} ELSE Holding(c.retained))
  BY <1>m DEF Recovered
<1>3. m.retained[e] = KeptOf(c, e)
  BY <1>1, <1>2 DEF KeptOf
<1>4. Shown(m.retained, e) = IF KeptOf(c, e) # None THEN Materialized(e, KeptOf(c, e)).text ELSE OnDisk(e)
  BY <1>1, <1>3, OnDiskIs DEF Shown
<1>5. e \in m.files <=> file[e] # None \/ KeptOf(c, e) # None
  BY <1>2 DEF KeptOf, Holding
<1> QED BY <1>m, <1>4, <1>5 DEF Surviving

\* What is meant is at least what was answered.
LEMMA MeantReaches ==
  ASSUME StoreViewInv, SafeInv, NEW e \in Entries, said[e] # None
  PROVE  /\ Meant(e) \in Texts /\ Reaches(e, Meant(e), safe[e]) /\ Reaches(e, Meant(e), said[e])
         /\ (e \notin Stream => Numeric(Meant(e)))
<1>1. /\ Typed(e) /\ NumbersOf(e) /\ Reaches(e, said[e], safe[e]) /\ said[e] \in Texts /\ safe[e] \in Texts
      /\ (e \notin Stream => Numeric(said[e]) /\ Numeric(safe[e]))
  BY StoreTypes DEF SafeInv, NumbersInv, SafeSaid, NumbersOf, Typed
<1>2. Reaches(e, said[e], said[e])
  BY <1>1, ReachesSame
<1>3. CASE Meant(e) = said[e]
  BY <1>1, <1>2, <1>3
<1>4. CASE queue # <<>> /\ Shows(Op, e)
  <2>1. Writes(Op) /\ Op.entry = e /\ Op.n \in Nat /\ Op.n \in Pieces
    BY <1>4, WriteFacts, ConstantsOK DEF Shows
  <2>2. Below(said[e], Op.n)
    BY <1>4, <2>1, OpType DEF SafeInv, LaterInv, Later, StoreViewInv
  <2>3. CASE e \in Stream
    <3>1. Meant(e) = said[e] \o <<Op.n>> /\ <<Op.n>> \in Texts /\ Meant(e) \in Texts
      BY <1>1, <1>4, <2>1, <2>3, AppendIs DEF Meant
    <3> QED BY <1>1, <1>2, <2>3, <3>1, ReachesJoin
  <2>4. CASE e \notin Stream
    <3>1. Meant(e) = <<Op.n>> /\ Meant(e) \in Texts /\ Meant(e)[1] = Op.n /\ Numeric(Meant(e)) /\ Meant(e) # <<>>
      BY <1>4, <2>1, <2>4, TextsClosed DEF Meant, Numeric
    <3>2. said[e] # <<>> => said[e][1] < Op.n
      <4>1. said[e] # <<>> => 1 \in DOMAIN said[e]
        BY <1>1, TextIs DEF Texts
      <4> QED BY <1>1, <2>2, <2>4, <4>1, ConstantsOK DEF Below, Numeric
    <3> QED BY <1>1, <2>1, <2>4, <3>1, <3>2 DEF Reaches, Numeric
  <2> QED BY <2>3, <2>4
<1> QED BY <1>3, <1>4 DEF Meant

\* What nothing is held of is on the disk; what a retry made is too.
LEMMA DiskShows ==
  ASSUME StoreViewInv, SafeInv, phase = "up", ~held.closed, NEW e \in Entries, said[e] # None,
         held.retained[e] = None \/ Made(e)
  PROVE  OnDisk(e) = Meant(e) /\ Reaches(e, OnDisk(e), safe[e])
<1>1. Shown(held.retained, e) = Meant(e)
  BY DEF StoreViewInv, ViewInv, ViewOf
<1>2. CASE held.retained[e] = None
  BY <1>1, <1>2, MeantReaches, OnDiskIs DEF Shown
<1>3. CASE held.retained[e] # None /\ Made(e)
  <2>1. file[e] # None /\ file[e].inline /\ Shown(held.retained, e) = file[e].text
    BY <1>3, MadeShows DEF Made
  <2>2. OnDisk(e) = file[e].text
    BY <2>1, StoreTypes, OnDiskText DEF Typed
  <2> QED BY <1>1, <2>1, <2>2, MeantReaches
<1> QED BY <1>2, <1>3

LEMMA UpSurvives ==
  ASSUME StoreViewInv, SafeInv, phase = "up", ~held.closed, NEW c \in Live, NEW e \in Entries
  PROVE  Survives(c, e)
<1>1. c \in Recorded /\ KeptOf(c, e) \in {None, held.retained[e]}
  BY StoreTypes DEF SafeInv, JournalInv
<1>2. /\ Surviving(c, e) = IF KeptOf(c, e) # None THEN Materialized(e, KeptOf(c, e)).text ELSE OnDisk(e)
      /\ e \in Recovered(c).files <=> file[e] # None \/ KeptOf(c, e) # None
  BY <1>1, SurvivingIs
<1>3. ViewOf(e)
  BY DEF StoreViewInv, ViewInv
<1>4. CASE said[e] = None
  BY <1>1, <1>2, <1>3, <1>4 DEF ViewOf, Survives
<1>5. CASE said[e] # None /\ KeptOf(c, e) # None
  <2>1. Surviving(c, e) = Meant(e) /\ Surviving(c, e) = Materialized(e, held.retained[e]).text
        /\ held.retained[e] # None
    BY <1>1, <1>2, <1>3, <1>5 DEF ViewOf, Shown
  <2>2. ASSUME e \in Stream PROVE Sorted(Materialized(e, held.retained[e]).text)
    <3>1. /\ StreamOf(e) /\ RestOK(e, held.retained[e]) /\ held.retained[e] \in Held
          /\ Fits(e, held.retained[e].plan) \/ Stamped(e, held.retained[e].plan)
      BY <2>1, <2>2, StoreTypes DEF SafeInv, StreamInv, RestsInv, FitsInv, FitOK, Typed
    <3> QED BY <2>1, <2>2, <3>1, MaterializedSorted
  <2> QED BY <1>5, <2>1, <2>2, MeantReaches DEF Survives
<1>6. CASE said[e] # None /\ KeptOf(c, e) = None
  <2>1. Surviving(c, e) = OnDisk(e) /\ Reaches(e, OnDisk(e), safe[e])
    BY <1>2, <1>6 DEF SafeInv, DiskReaches
  <2>2. e \in Stream => Sorted(OnDisk(e))
    BY OnDiskSorted DEF SafeInv, StreamInv
  <2> QED BY <1>6, <2>1, <2>2 DEF Survives
<1> QED BY <1>4, <1>5, <1>6

LEMMA SafeNow ==
  ASSUME StoreViewInv, SafeInv
  PROVE  SafeSurvives
<1> SUFFICES ASSUME Open, NEW c \in Live, NEW e \in Entries
             PROVE  IF said[e] = None THEN e \notin Recovered(c).files
                    ELSE IF e \in Stream
                    THEN /\ Len(Surviving(c, e)) >= Len(safe[e])
                         /\ SubSeq(Surviving(c, e), 1, Len(safe[e])) = safe[e]
                         /\ \A i, j \in DOMAIN Surviving(c, e) :
                              i < j /\ Torn \notin {Surviving(c, e)[i], Surviving(c, e)[j]} =>
                                Surviving(c, e)[i] < Surviving(c, e)[j]
                    ELSE safe[e] # <<>> => Surviving(c, e) # <<>> /\ Surviving(c, e)[1] >= safe[e][1]
  BY DEF SafeSurvives, Open, Live
<1>1. Survives(c, e)
  <2>1. CASE phase # "up"
    BY <2>1 DEF SafeInv, DownInv
  <2>2. CASE phase = "up"
    <3>1. ~held.closed
      BY <2>2 DEF SafeInv, EndInv, Open
    <3> QED BY <2>2, <3>1, UpSurvives
  <2> QED BY <2>1, <2>2
<1>2. PICK t : t = Surviving(c, e)
  OBVIOUS
<1>3. t \in Texts
  <2>1. Typed(e) /\ c \in Recorded /\ KeptOf(c, e) \in Held \cup {None} /\ OnDisk(e) \in Texts
    BY StoreTypes, OnDiskText
  <2>2. KeptOf(c, e) # None => Materialized(e, KeptOf(c, e)) \in Files
    <3>1. c # None => PlanOK(c.retained[e])
      BY <2>1 DEF StoreViewInv, RecordsInv, Recorded
    <3> QED BY <2>1, <3>1, MadeFile DEF StoreViewInv, KeptOf
  <2>3. \A f \in Files : f.text \in Texts
    BY DEF Files
  <2> QED BY <1>2, <2>1, <2>2, <2>3, SurvivingIs
<1>4. CASE said[e] = None
  BY <1>1, <1>4 DEF Survives
<1>5. CASE said[e] # None /\ e \in Stream
  <2>1. safe[e] \in Texts
    BY <1>5, StoreTypes DEF Typed, SafeInv, NumbersInv, NumbersOf
  <2>2. Begins(t, safe[e]) /\ Sorted(t)
    BY <1>1, <1>2, <1>5 DEF Survives, Reaches
  <2>3. Len(t) >= Len(safe[e]) /\ SubSeq(t, 1, Len(safe[e])) = safe[e]
    BY <1>3, <2>1, <2>2 DEF Begins, Texts
  <2>4. \A i, j \in DOMAIN t : i < j /\ Torn \notin {t[i], t[j]} => t[i] < t[j]
    BY <2>2 DEF Sorted
  <2> QED BY <1>2, <1>5, <2>3, <2>4
<1>6. CASE said[e] # None /\ e \notin Stream
  BY <1>1, <1>6 DEF Survives, Reaches
<1> QED BY <1>4, <1>5, <1>6
-----------------------------------------------------------------------------
(* The other calls.                                                        *)
Other(o) == \E i \in DOMAIN queue : i # 1 /\ o = queue[i]

\* The running call ends or goes on, and what the others need is there.
LEMMA CallsKeep ==
  ASSUME StoreViewInv, queue # <<>>, \A o : Other(o) => Later(o)' /\ Unheld(o)',
         Ends \/ \E o \in Requests : queue' = <<o>> \o Tail(queue) /\ Later(o)' /\ Unheld(o)'
  PROVE  LaterInv' /\ \A i \in DOMAIN queue' : Unheld(queue[i])'
<1>1. queue \in Seq(Requests)
  BY DEF StoreViewInv, TypeOK, CallsType
<1>2. \A i \in DOMAIN queue' : \E o : o = queue'[i] /\ Later(o)' /\ Unheld(o)'
  <2>1. CASE Ends
    BY <1>1, <2>1, TailShifts DEF Ends, Other
  <2>2. ASSUME NEW o \in Requests, queue' = <<o>> \o Tail(queue), Later(o)', Unheld(o)'
        PROVE  \A i \in DOMAIN queue' : \E p : p = queue'[i] /\ Later(p)' /\ Unheld(p)'
    <3>1. /\ DOMAIN queue' = DOMAIN queue /\ \A i \in DOMAIN queue : queue'[i] = IF i = 1 THEN o ELSE queue[i]
      BY <1>1, <2>2, HeadReplaced
    <3> QED BY <2>2, <3>1 DEF Other
  <2> QED BY <2>1, <2>2
<1> SUFFICES ASSUME NEW i \in DOMAIN queue' PROVE Later(queue[i])' /\ Unheld(queue[i])'
  BY DEF LaterInv
<1>3. PICK o : o = queue'[i] /\ Later(o)' /\ Unheld(o)'
  BY <1>2
<1> QED BY <1>3 DEF Later, Unheld, Writes, Begun

\* A step that leaves an entry nobody holds and Op does not write as it is, or empty.
Settled(e) == held.retained[e] = None /\ ~(Touches(Op) /\ Op.entry = e) =>
  /\ said'[e] = said[e]
  /\ FileText(e)' \in {FileText(e), <<>>} /\ spill'[e] \in {spill[e], <<>>}

LEMMA OtherIs ==
  ASSUME StoreViewInv, queue # <<>>, NEW o, Other(o)
  PROVE  CallOK(o) /\ ~Begun(o) /\ Apart(o, Op) /\ o \in Requests
BY OpType DEF StoreViewInv, QueueInv, TypeOK, CallsType, Other

LEMMA OthersLater ==
  ASSUME StoreViewInv, LaterInv, queue # <<>>, \A e \in Entries : Settled(e), NEW o, Other(o)
  PROVE  Later(o)'
<1>1. CallOK(o) /\ ~Begun(o) /\ Apart(o, Op) /\ Later(o)
  BY OtherIs DEF LaterInv, Other
<1> SUFFICES ASSUME Writes(o)
             PROVE  /\ Below(said'[o.entry], o.n)
                    /\ Below(FileText(o.entry)', o.n) /\ Below(spill'[o.entry], o.n)
  BY DEF Later, Writes
<1>2. PICK e : e = o.entry
  OBVIOUS
<1>3. e \in Entries /\ held.retained[e] = None /\ ~(Touches(Op) /\ Op.entry = e)
  BY <1>1, <1>2 DEF CallOK, Begun, Touches, Writes, Apart
<1>4. /\ said'[e] = said[e]
      /\ FileText(e)' \in {FileText(e), <<>>} /\ spill'[e] \in {spill[e], <<>>}
  BY <1>3 DEF Settled
<1>5. Below(said[e], o.n) /\ Below(FileText(e), o.n) /\ Below(spill[e], o.n)
  BY <1>1, <1>2 DEF Later, Begun
<1>6. Below(FileText(e)', o.n) /\ Below(spill'[e], o.n)
  BY <1>4, <1>5, BelowNone
<1>7. FileText(e)' = FileText(o.entry)'
  BY <1>2 DEF FileText
<1> QED BY <1>2, <1>4, <1>5, <1>6, <1>7

LEMMA OthersUnheld ==
  ASSUME StoreViewInv, queue # <<>>, NEW o, Other(o), Unheld(o),
         \/ archive' = archive /\ held'.revision = held.revision /\ (failing' => failing)
         \/ ByWindow(Op)
         \/ archive' = archive /\ (archive # None => archive.revision # held'.revision)
  PROVE  Unheld(o)'
<1>1. CallOK(o) /\ ~Begun(o) /\ Apart(o, Op)
  BY OtherIs
<1> SUFFICES ASSUME o.kind = "commit", ~ByWindow(Op) PROVE Unheld(o)'
  BY <1>1 DEF Unheld, Apart, ByWindow, ByCapture
<1>2. archive # None
  BY <1>1 DEF CallOK, Begun
<1> QED BY <1>1, <1>2 DEF Unheld, Begun

LEMMA NobodyElse ==
  ASSUME StoreViewInv, SafeInv, queue # <<>>, \A e \in Entries : Settled(e),
         \/ archive' = archive /\ held'.revision = held.revision /\ (failing' => failing)
         \/ ByWindow(Op)
         \/ archive' = archive /\ (archive # None => archive.revision # held'.revision),
         Ends \/ \E o \in Requests : queue' = <<o>> \o Tail(queue) /\ Later(o)' /\ Unheld(o)'
  PROVE  LaterInv' /\ \A i \in DOMAIN queue' : Unheld(queue[i])'
<1>1. ASSUME NEW o, Other(o) PROVE Later(o)' /\ Unheld(o)'
  <2>1. Unheld(o)
    BY <1>1 DEF Other, SafeInv, EndInv
  <2> QED BY <1>1, <2>1, OthersLater, OthersUnheld DEF SafeInv
<1> QED BY <1>1, CallsKeep
-----------------------------------------------------------------------------
(* Steps that change neither the disk, nor the journal, nor what is held.  *)

LEMMA NumbersFrame ==
  ASSUME StoreViewInv, NumbersInv, writes' \in Nat, writes <= writes', UNCHANGED <<file, spill, said, safe>>
  PROVE  NumbersInv'
<1> SUFFICES ASSUME NEW e \in Entries PROVE NumbersOf(e)'
  BY DEF NumbersInv
<1>1. NumbersOf(e) /\ Typed(e) /\ writes + 1 \in Nat /\ writes' + 1 \in Nat /\ writes + 1 <= writes' + 1
      /\ FileText(e)' = FileText(e)
  BY StoreTypes DEF NumbersInv, FileText
<1>2. /\ Below(FileText(e), writes' + 1) /\ Below(spill[e], writes' + 1)
      /\ said[e] # None => Below(said[e], writes' + 1)
  BY <1>1, BelowMore DEF NumbersOf, Typed
<1> QED BY <1>1, <1>2 DEF NumbersOf

LEMMA RestMore ==
  ASSUME writes \in Nat, writes' \in Nat, writes <= writes', NEW e \in Entries, NEW r \in Held \cup {None}, RestOK(e, r)
  PROVE  RestOK(e, r)'
<1>1. r # None => r.text \in Texts
  BY DEF Held
<1>2. writes + 1 \in Nat /\ writes' + 1 \in Nat /\ writes + 1 <= writes' + 1
  <2>1. \A m, n \in Nat : m <= n => m + 1 \in Nat /\ n + 1 \in Nat /\ m + 1 <= n + 1
    OBVIOUS
  <2> QED BY <2>1
<1>3. r # None /\ e \notin Stream => Below(r.text, writes' + 1)
  BY <1>1, <1>2, BelowMore DEF RestOK
<1> QED BY <1>3 DEF RestOK

LEMMA RestsFrame ==
  ASSUME StoreViewInv, RestsInv, writes' \in Nat, writes <= writes', UNCHANGED <<promised, attempted>>,
         held'.retained = held.retained
  PROVE  RestsInv'
<1>1. ASSUME NEW e \in Entries PROVE RestOK(e, held.retained[e])'
  <2>1. held.retained[e] \in Held \cup {None} /\ RestOK(e, held.retained[e]) /\ writes \in Nat
    BY StoreTypes DEF RestsInv, Typed
  <2>2. PICK r : r = held.retained[e]
    OBVIOUS
  <2>3. RestOK(e, r)'
    BY <2>1, <2>2, RestMore
  <2> QED BY <2>2, <2>3 DEF RestOK
<1>2. ASSUME NEW c \in Recorded, NEW e \in Entries PROVE RestOK(e, KeptOf(c, e))'
  <2>1. KeptOf(c, e) \in Held \cup {None} /\ RestOK(e, KeptOf(c, e)) /\ writes \in Nat
    BY StoreTypes DEF RestsInv
  <2> QED BY <2>1, RestMore DEF RestOK, KeptOf
<1>3. Recorded' = Recorded
  BY DEF Recorded
<1> QED BY <1>1, <1>2, <1>3 DEF RestsInv, KeptOf

LEMMA SafeFrame ==
  ASSUME StoreViewInv, SafeInv, phase = "up", writes' \in Nat, writes <= writes',
         UNCHANGED <<file, spill, promised, attempted, visible, stray, phase, failing, said, safe>>,
         held'.retained = held.retained, ~held'.closed => ~held.closed,
         LaterInv', \A i \in DOMAIN queue' : Unheld(queue[i])',
         held'.closed => node' # None /\ node'.closed /\ ~failing
  PROVE  SafeInv'
<1>1. JournalInv'
  BY DEF SafeInv, JournalInv, Live, KeptOf
<1>2. NumbersInv' /\ RestsInv'
  BY NumbersFrame, RestsFrame DEF SafeInv
<1>3. StreamInv'
  BY DEF SafeInv, StreamInv, StreamOf, FileText
<1>4. FitsInv'
  BY DEF SafeInv, FitsInv, FitOK, Fits, Stamped, Free, KeptOf, Recorded, FileText
<1>5. BesideInv'
  BY DEF SafeInv, BesideInv, BesideOf, HeldFits, Beside, Stamped, Free, KeptOf, Recorded, FileText
<1>6. SafeSaid' /\ DiskReaches'
  BY DEF SafeInv, SafeSaid, DiskReaches, Live, KeptOf, OnDisk, Shown, Materialized, Prefix
<1>7. DownInv' /\ EndInv'
  BY DEF SafeInv, DownInv, EndInv
<1> QED BY <1>1, <1>2, <1>3, <1>4, <1>5, <1>6, <1>7 DEF SafeInv
-----------------------------------------------------------------------------
(* Calls that join the queue.                                              *)

LEMMA JoinsSafe ==
  ASSUME StoreViewInv, SafeInv, NEW t \in Seq(Requests), queue' = queue \o t, phase = "up",
         \A i \in DOMAIN t : \E o : o = t[i] /\ Later(o)' /\ Unheld(o)',
         writes' \in Nat, writes <= writes',
         UNCHANGED <<disk, archives, journal, phase, held, failing, told>>
  PROVE  SafeInv'
<1>0. UNCHANGED <<node, file, spill, archive, promised, attempted, visible, stray, phase, held, failing, said, safe>>
  BY DEF disk, archives, journal, told
<1>1. /\ queue \in Seq(Requests)
      /\ \A i \in DOMAIN queue' : IF i \in DOMAIN queue THEN queue'[i] = queue[i]
                                  ELSE i - Len(queue) \in DOMAIN t /\ queue'[i] = t[i - Len(queue)]
  BY SequencesJoin DEF StoreViewInv, TypeOK, CallsType
<1>2. ASSUME NEW i \in DOMAIN queue' PROVE Later(queue[i])' /\ Unheld(queue[i])'
  <2>1. CASE i \in DOMAIN queue
    <3>1. PICK o : o = queue[i]
      OBVIOUS
    <3>2. queue'[i] = o /\ Later(o) /\ Unheld(o)
      BY <1>1, <2>1, <3>1 DEF SafeInv, LaterInv, EndInv
    <3> QED BY <1>0, <3>2 DEF Later, Unheld, Writes, Begun, FileText
  <2>2. CASE i \notin DOMAIN queue
    <3>1. PICK o : o = queue'[i] /\ Later(o)' /\ Unheld(o)'
      BY <1>1, <2>2
    <3> QED BY <3>1 DEF Later, Unheld, Writes, Begun
  <2> QED BY <2>1, <2>2
<1>3. LaterInv' /\ \A i \in DOMAIN queue' : Unheld(queue[i])'
  BY <1>2 DEF LaterInv
<1>4. held'.closed => node' # None /\ node'.closed /\ ~failing
  BY <1>0 DEF SafeInv, EndInv
<1> QED BY <1>0, <1>3, <1>4, SafeFrame

LEMMA CalledSafe ==
  ASSUME StoreViewInv, SafeInv, phase = "up", ~failing, NEW es \in Seq(Entries), Called(es),
         \A i \in DOMAIN es : said[es[i]] # None,
         UNCHANGED <<disk, archives, journal, phase, held, failing, told>>
  PROVE  SafeInv'
<1>0. /\ writes \in Nat /\ writes' = writes + Len(es) /\ writes' \in 0 .. MaxWrites /\ writes' \in Nat
      /\ writes <= writes' /\ UNCHANGED <<held, file, spill, said, archive>>
  BY ConstantsOK DEF StoreViewInv, TypeOK, CallsType, Called, disk, archives, told
<1>1. ASSUME NEW i \in DOMAIN es, NEW n, n = writes + i
      PROVE  LET o == Call("write", es[i], n)
             IN  o \in Requests /\ Later(o)' /\ Unheld(o)'
  <2>1. n \in Nat /\ writes < n /\ n <= writes' /\ es[i] \in Entries /\ writes + 1 \in Nat /\ writes + 1 <= n
    BY <1>0, <1>1
  <2>o. PICK o : o = Call("write", es[i], n)
    OBVIOUS
  <2>e. PICK e : e = es[i]
    OBVIOUS
  <2>2. o \in Requests
    BY <1>0, <2>o, <2>1, NewWrite
  <2>3. o.kind = "write" /\ o.entry = e /\ o.n = n
    BY <2>o, <2>e DEF Call
  <2>4. NumbersOf(e) /\ Typed(e) /\ said[e] # None
    BY <2>1, <2>e, StoreTypes DEF SafeInv, NumbersInv
  <2>5. Below(said[e], n) /\ Below(FileText(e), n) /\ Below(spill[e], n)
    BY <2>1, <2>4, BelowMore DEF NumbersOf, Typed
  <2>6. FileText(e)' = FileText(e) /\ FileText(e)' = FileText(o.entry)'
    BY <1>0, <2>3 DEF FileText
  <2>7. Later(o)' /\ Unheld(o)'
    BY <1>0, <2>3, <2>5, <2>6 DEF Later, Unheld
  <2> QED BY <2>o, <2>2, <2>7 DEF Later, Unheld, Writes, Begun
<1>2. PICK t \in Seq(Requests) : /\ queue' = queue \o t /\ DOMAIN t = DOMAIN es
                                 /\ \A i \in DOMAIN t : t[i] = Call("write", es[i], writes + i)
  BY <1>0, <1>1, CalledSequence
<1>3. ASSUME NEW i \in DOMAIN t PROVE \E o : o = t[i] /\ Later(o)' /\ Unheld(o)'
  <2>1. PICK n : n = writes + i
    OBVIOUS
  <2>2. t[i] = Call("write", es[i], n) /\ Later(Call("write", es[i], n))' /\ Unheld(Call("write", es[i], n))'
    BY <1>1, <1>2, <2>1
  <2>3. PICK o : o = t[i]
    OBVIOUS
  <2>4. Later(o)' /\ Unheld(o)'
    BY <2>2, <2>3 DEF Later, Unheld, Writes, Begun
  <2> QED BY <2>3, <2>4
<1> QED BY <1>0, <1>2, <1>3, JoinsSafe

LEMMA CapturesSafe ==
  ASSUME StoreViewInv, SafeInv, CaptureWrites
  PROVE  SafeInv'
<1>1. PICK e \in Stream \cup Noted, f \in Stream \cup Noted : Called(<<e>>) \/ (e # f /\ Called(<<e, f>>))
  BY DEF CaptureWrites
<1>2. /\ phase = "up" /\ ~failing
      /\ UNCHANGED <<disk, archives, journal, phase, held, failing, told>>
  BY DEF CaptureWrites
<1>3. \A d \in {e, f} : d \in Entries /\ said[d] # None
  <2>1. e \in Entries /\ f \in Entries /\ e \notin Lines /\ f \notin Lines
    BY ConstantsOK DEF Entries
  <2> QED BY <2>1 DEF StoreViewInv, PhaseInv
<1>5. CASE Called(<<e>>)
  <2>1. PICK es : es = <<e>>
    OBVIOUS
  <2>2. es \in Seq(Entries) /\ \A i \in DOMAIN es : es[i] = e
    BY <1>3, <2>1
  <2> QED BY <1>2, <1>3, <1>5, <2>1, <2>2, CalledSafe
<1>6. CASE Called(<<e, f>>)
  <2>1. PICK es : es = <<e, f>>
    OBVIOUS
  <2>2. es \in Seq(Entries) /\ \A i \in DOMAIN es : es[i] \in {e, f}
    BY <1>3, <2>1
  <2> QED BY <1>2, <1>3, <1>6, <2>1, <2>2, CalledSafe
<1> QED BY <1>1, <1>5, <1>6

LEMMA WindowWritesSafe ==
  ASSUME StoreViewInv, SafeInv, WindowWrites
  PROVE  SafeInv'
<1>1. PICK e \in Lines : said[e] # None /\ Called(<<e>>)
  BY DEF WindowWrites
<1>2. /\ phase = "up" /\ ~failing
      /\ UNCHANGED <<disk, archives, journal, phase, held, failing, told>>
  BY DEF WindowWrites, WindowMay
<1>3. PICK es : es = <<e>>
  OBVIOUS
<1>4. es \in Seq(Entries) /\ \A i \in DOMAIN es : es[i] = e
  BY <1>3 DEF Entries
<1> QED BY <1>1, <1>2, <1>3, <1>4, CalledSafe

LEMMA OneCallSafe ==
  ASSUME StoreViewInv, SafeInv, phase = "up", NEW o \in Requests, queue' = Append(queue, o), ~Writes(o),
         o.kind = "commit" => ~failing,
         UNCHANGED <<disk, archives, journal, phase, held, failing, writes, told>>
  PROVE  SafeInv'
<1>1. PICK t : t = <<o>>
  OBVIOUS
<1>2. t \in Seq(Requests) /\ queue' = queue \o t /\ \A i \in DOMAIN t : t[i] = o
  BY <1>1 DEF StoreViewInv, TypeOK, CallsType
<1>3. Later(o)' /\ Unheld(o)'
  BY DEF Later, Unheld, Writes
<1>4. writes' \in Nat /\ writes <= writes'
  BY StoreTypes
<1> QED BY <1>2, <1>3, <1>4, JoinsSafe

LEMMA AsksSafe ==
  ASSUME StoreViewInv, SafeInv, NEW kind \in {"rollback", "archive", "commit", "cancel"},
         NEW e \in Entries \cup {None}, WindowAsks(kind, e)
  PROVE  SafeInv'
<1>1. PICK o : o = Call(kind, e, 0)
  OBVIOUS
<1>2. o \in Requests /\ ~Writes(o)
  BY <1>1, ConstantsOK DEF Call, Requests, Writes
<1> QED BY <1>1, <1>2, OneCallSafe DEF WindowAsks, WindowMay

LEMMA RetryAskedSafe ==
  ASSUME StoreViewInv, SafeInv, phase = "up", Retry
  PROVE  SafeInv'
<1>1. PICK o : o = Call("retry", None, 0)
  OBVIOUS
<1>2. o \in Requests /\ o.kind = "retry"
  BY <1>1, ConstantsOK DEF Call, Requests
<1>3. queue' = Append(queue, o) /\ UNCHANGED <<disk, archives, journal, phase, held, failing, writes, told>>
  BY <1>1 DEF Retry
<1> QED BY <1>2, <1>3, OneCallSafe DEF Writes
-----------------------------------------------------------------------------
(* Steps of a call that leave the files and the journal alone.             *)
LEMMA GoesSafe ==
  ASSUME StoreViewInv, SafeInv, phase = "up", queue # <<>>,
         Ends \/ \E o \in Requests : queue' = <<o>> \o Tail(queue) /\ Later(o)' /\ Unheld(o)',
         UNCHANGED <<file, spill, promised, attempted, visible, stray, phase, failing, said, safe, writes>>,
         held'.retained = held.retained, ~held'.closed => ~held.closed,
         \/ archive' = archive /\ held'.revision = held.revision
         \/ ByWindow(Op)
         \/ archive' = archive /\ (archive # None => archive.revision # held'.revision),
         held'.closed => node' # None /\ node'.closed /\ ~failing
  PROVE  SafeInv'
<1>1. \A e \in Entries : Settled(e)
  BY DEF Settled, FileText
<1>2. LaterInv' /\ \A i \in DOMAIN queue' : Unheld(queue[i])'
  BY <1>1, NobodyElse
<1>3. writes' \in Nat /\ writes <= writes'
  BY StoreTypes
<1> QED BY <1>2, <1>3, SafeFrame

LEMMA OpLater ==
  ASSUME StoreViewInv, SafeInv, queue # <<>>, UNCHANGED <<file, spill, said>>,
         NEW o, o.kind = Op.kind, o.entry = Op.entry, o.n = Op.n,
         Op.at \notin {"node", "journal", "put"} \/ o.at \in {"node", "journal", "put"} \/ ~Writes(Op)
  PROVE  Later(o)'
<1>1. Later(Op)
  BY OpType DEF SafeInv, LaterInv, StoreViewInv
<1> QED BY <1>1 DEF Later, Writes, FileText

LEMMA OpenWhile ==
  ASSUME StoreViewInv, SafeInv, phase = "up", held.closed
  PROVE  node # None /\ node.closed /\ ~failing
BY DEF SafeInv, EndInv

LEMMA RefusedSafe ==
  ASSUME StoreViewInv, SafeInv, RetryRefused \/ WindowCallRefused
  PROVE  SafeInv'
<1>1. /\ phase = "up" /\ queue # <<>> /\ Ends
      /\ UNCHANGED <<node, file, spill, archive, promised, attempted, visible, stray, phase, held, failing, writes, said, safe>>
  BY DEF RetryRefused, WindowCallRefused, disk, archives, journal, told
<1> QED BY <1>1, OpenWhile, GoesSafe

LEMMA InitialSavedSafe ==
  ASSUME StoreViewInv, SafeInv, InitialSaved
  PROVE  SafeInv'
<1>1. /\ phase = "up" /\ queue # <<>> /\ Writes(Op) /\ Op.at = "initial" /\ Goes("entry")
      /\ held' = [held EXCEPT !.known = TRUE]
      /\ UNCHANGED <<file, spill, archive, promised, attempted, visible, stray, phase, failing, writes, said, safe>>
  BY DEF InitialSaved, Running, Writes, Op, archives, journal, told
<1>2. ~held.closed
  BY <1>1 DEF StoreViewInv, StageInv, WriteStage, Begun
<1>3. held'.retained = held.retained /\ held'.closed = held.closed /\ held'.revision = held.revision
  BY <1>1, HeldType2 DEF Memory, StoreViewInv
<1>4. PICK o : o = [Op EXCEPT !.at = "entry"]
  OBVIOUS
<1>5. o \in Requests /\ o.kind = Op.kind /\ o.entry = Op.entry /\ o.n = Op.n /\ o.at = "entry"
  BY <1>1, <1>4, OpAt DEF StoreViewInv
<1>6. Later(o)' /\ Unheld(o)'
  BY <1>1, <1>5, OpLater DEF Unheld, Writes
<1>7. queue' = <<o>> \o Tail(queue)
  BY <1>1, <1>4 DEF Goes
<1> QED BY <1>1, <1>2, <1>3, <1>5, <1>6, <1>7, GoesSafe

\* A write that ends at once, or goes to the disk.
LEMMA WriteGoesSafe ==
  ASSUME StoreViewInv, SafeInv, WriteStarts, failing' = failing,
         \/ Ends /\ held' = held
         \/ ~held.closed /\ held' = [held EXCEPT !.revision = @ + 1]
            /\ \E at \in {"initial", "words", "entry"} : Goes(at)
  PROVE  SafeInv'
<1>1. /\ phase = "up" /\ queue # <<>> /\ Writes(Op) /\ Op.at = "called"
      /\ UNCHANGED <<node, file, spill, archive, promised, attempted, visible, stray, phase, failing, writes, said, safe>>
  BY DEF WriteStarts, Running, Writes, Op, archives, journal, told, disk
<1>2. CASE Ends /\ held' = held
  BY <1>1, <1>2, OpenWhile, GoesSafe
<1>3. ASSUME held' = [held EXCEPT !.revision = @ + 1], ~held.closed, NEW at \in {"initial", "words", "entry"}, Goes(at)
      PROVE  SafeInv'
  <2>1. held'.retained = held.retained /\ held'.closed = held.closed /\ held'.revision = held.revision + 1
        /\ held.revision \in Nat
    BY <1>3, HeldType2 DEF Memory, StoreViewInv
  <2>2. archive # None => archive.revision # held'.revision
    <3>1. archive # None => archive.revision <= held.revision /\ archive.revision \in Nat
      BY DEF StoreViewInv, ArchiveInv, TypeOK, ArchiveType, Archives
    <3> QED BY <2>1, <3>1
  <2>4. PICK o : o = [Op EXCEPT !.at = at]
    OBVIOUS
  <2>5. o \in Requests /\ o.kind = Op.kind /\ o.entry = Op.entry /\ o.n = Op.n /\ o.at = at
    BY <1>1, <2>4, OpAt DEF StoreViewInv
  <2>6. Later(o)' /\ Unheld(o)'
    BY <1>1, <2>5, OpLater DEF Unheld, Writes
  <2>7. queue' = <<o>> \o Tail(queue)
    BY <1>3, <2>4 DEF Goes
  <2> QED BY <1>1, <1>3, <2>1, <2>2, <2>5, <2>6, <2>7, GoesSafe
<1> QED BY <1>2, <1>3

LEMMA RetryStartsSafe ==
  ASSUME StoreViewInv, SafeInv, RetryStarts
  PROVE  SafeInv'
<1>1. /\ phase = "up" /\ queue # <<>> /\ Op.kind = "retry"
      /\ node' = [revision |-> held.revision, closed |-> held.closed]
      /\ UNCHANGED <<file, spill, archive, promised, attempted, visible, stray, phase, held, failing, writes, said, safe>>
  BY DEF RetryStarts, Running, Op, archives, journal, told
<1>2. PICK o : o = [Op EXCEPT !.at = "entries", !.left = Holding(held.retained)]
  OBVIOUS
<1>3. o \in Requests /\ o.kind = "retry" /\ queue' = <<o>> \o Tail(queue)
  <2>1. Op \in Requests /\ Holding(held.retained) \in SUBSET Entries
    BY <1>1, OpType DEF StoreViewInv, Holding
  <2> QED BY <1>1, <1>2, <2>1 DEF RetryStarts, Requests
<1>4. Later(o)' /\ Unheld(o)'
  BY <1>3 DEF Later, Unheld, Writes
<1>5. held'.closed => node' # None /\ node'.closed /\ ~failing
  <2>1. node' # None
    <3>1. node' \in Nodes
      BY <1>1, HeldType2 DEF StoreViewInv, Nodes
    <3> QED BY <3>1, NoneAssumption
  <2> QED BY <1>1, <2>1, OpenWhile
<1> QED BY <1>1, <1>3, <1>4, <1>5, GoesSafe

LEMMA RollbackStartsSafe ==
  ASSUME StoreViewInv, SafeInv, RollbackStarts
  PROVE  SafeInv'
<1>1. /\ phase = "up" /\ queue # <<>> /\ Op.kind = "rollback" /\ ByWindow(Op)
      /\ UNCHANGED <<file, spill, archive, promised, attempted, visible, stray, phase, failing, writes, said, safe>>
  BY DEF RollbackStarts, Running, Op, archives, journal, told, ByWindow, ByCapture
<1>2. CASE Ends /\ UNCHANGED <<held, node>>
  BY <1>1, <1>2, OpenWhile, GoesSafe
<1>3. CASE /\ held' = [held EXCEPT !.revision = @ + 1]
           /\ node' = [revision |-> held.revision + 1, closed |-> held.closed] /\ Goes("unlink")
  <2>1. held'.retained = held.retained /\ held'.closed = held.closed
    BY <1>3, HeldType2 DEF Memory, StoreViewInv
  <2>2. node' # None /\ node'.closed = held.closed
    <3>1. node' \in Nodes
      BY <1>3, HeldType2 DEF StoreViewInv, Nodes
    <3> QED BY <1>3, <3>1, NoneAssumption
  <2>4. PICK o : o = [Op EXCEPT !.at = "unlink"]
    OBVIOUS
  <2>5. o \in Requests /\ o.kind = "rollback"
    BY <1>1, <2>4, OpAt DEF StoreViewInv
  <2>6. Later(o)' /\ Unheld(o)' /\ queue' = <<o>> \o Tail(queue)
    BY <1>3, <2>4, <2>5 DEF Later, Unheld, Writes, Goes
  <2> QED BY <1>1, <2>1, <2>2, <2>5, <2>6, OpenWhile, GoesSafe
<1> QED BY <1>2, <1>3 DEF RollbackStarts

LEMMA StagedSafe ==
  ASSUME StoreViewInv, SafeInv, Staged \/ Cancelled
  PROVE  SafeInv'
<1>1. /\ phase = "up" /\ queue # <<>> /\ ByWindow(Op) /\ Ends
      /\ UNCHANGED <<node, file, spill, promised, attempted, visible, stray, phase, held, failing, writes, said, safe>>
  BY DEF Staged, Cancelled, Running, Op, disk, journal, told, ByWindow, ByCapture
<1> QED BY <1>1, OpenWhile, GoesSafe

LEMMA CommitStartsSafe ==
  ASSUME StoreViewInv, SafeInv, CommitStarts
  PROVE  SafeInv'
<1>1. /\ phase = "up" /\ queue # <<>> /\ ByWindow(Op) /\ Op.kind = "commit" /\ Op.at = "called"
      /\ UNCHANGED <<node, file, spill, promised, attempted, visible, stray, phase, held, failing, writes, said, safe>>
  BY DEF CommitStarts, Running, Op, disk, journal, told, ByWindow, ByCapture
<1>2. CASE Ends
  BY <1>1, <1>2, OpenWhile, GoesSafe
<1>3. CASE held.revision = archive.revision /\ Goes("close")
  <2>1. ~failing
    BY <1>1, <1>3, OpType DEF SafeInv, EndInv, Unheld, StoreViewInv
  <2>4. PICK o : o = [Op EXCEPT !.at = "close"]
    OBVIOUS
  <2>5. o \in Requests /\ o.kind = "commit"
    BY <1>1, <2>4, OpAt DEF StoreViewInv
  <2>6. Later(o)' /\ Unheld(o)' /\ queue' = <<o>> \o Tail(queue)
    BY <1>1, <1>3, <2>1, <2>4, <2>5 DEF Later, Unheld, Writes, Goes
  <2> QED BY <1>1, <2>5, <2>6, OpenWhile, GoesSafe
<1> QED BY <1>2, <1>3 DEF CommitStarts, SameRevision

LEMMA CommitClosesSafe ==
  ASSUME StoreViewInv, SafeInv, CommitCloses
  PROVE  SafeInv'
<1>1. /\ phase = "up" /\ queue # <<>> /\ ByWindow(Op) /\ Op.kind = "commit" /\ Op.at = "close"
      /\ node' = [revision |-> held.revision, closed |-> TRUE] /\ held' = [held EXCEPT !.closed = TRUE] /\ Goes("sweep")
      /\ UNCHANGED <<file, spill, archive, promised, attempted, visible, stray, phase, failing, writes, said, safe>>
  BY DEF CommitCloses, Running, Op, archives, journal, told, ByWindow, ByCapture
<1>2. ~failing
  BY <1>1, OpType DEF SafeInv, EndInv, Unheld, Begun, StoreViewInv
<1>3. held'.retained = held.retained /\ held'.closed
  BY <1>1, HeldType2 DEF Memory, StoreViewInv
<1>4. node' # None /\ node'.closed
  <2>1. node' \in Nodes
    BY <1>1, HeldType2 DEF StoreViewInv, Nodes
  <2> QED BY <1>1, <2>1, NoneAssumption
<1>5. PICK o : o = [Op EXCEPT !.at = "sweep"]
  OBVIOUS
<1>6. o \in Requests /\ o.kind = "commit"
  BY <1>1, <1>5, OpAt DEF StoreViewInv
<1>7. Later(o)' /\ Unheld(o)' /\ queue' = <<o>> \o Tail(queue)
  BY <1>1, <1>2, <1>5, <1>6 DEF Later, Unheld, Writes, Goes
<1> QED BY <1>1, <1>2, <1>3, <1>4, <1>6, <1>7, GoesSafe
-----------------------------------------------------------------------------
(* A refused write is held.                                                *)
HoldStep(e, r, b) ==
  /\ phase = "up" /\ queue # <<>> /\ Writes(Op) /\ e = Op.entry /\ ~held.closed
  /\ Op.at \in {"called", "initial", "entry", "words", "node"}
  /\ r = RestOf(b) /\ held'.retained = [held.retained EXCEPT ![e] = r] /\ ~held'.closed
  /\ archive # None => archive.revision # held'.revision
  /\ failing' = TRUE
  /\ \E o \in Requests : /\ queue' = <<o>> \o Tail(queue)
                         /\ o.kind = "write" /\ o.entry = e /\ o.n = Op.n /\ o.at = "journal"
  /\ UNCHANGED <<node, file, archive, promised, attempted, visible, stray, phase, writes, said, safe>>
  /\ \/ b = Op.bytes /\ spill' = spill
     \/ /\ Op.at = "words" /\ ~file[e].inline /\ b = Len(spill[e])
        /\ \E part \in {<<>>, <<Torn>>, <<Op.n>>} : spill' = [spill EXCEPT ![e] = @ \o part]

\* A part of a piece, or the piece itself, at the end of what is there.
LEMMA PartGrows ==
  ASSUME NEW s \in Texts, NEW n \in Pieces, n \in Nat, NEW m \in Nat, n < m, Below(s, n),
         NEW part, part \in {<<>>, <<Torn>>, <<n>>}
  PROVE  /\ part \in Texts /\ s \o part \in Texts /\ Below(s \o part, m)
         /\ (Sorted(s) => Sorted(s \o part)) /\ BelowTo(s \o part, Len(s), n)
<1>1. Torn \in Pieces /\ part \in Texts /\ Below(part, m)
  BY BelowOne, BelowNone, TextsClosed DEF Pieces
<1>2. Below(s, m)
  BY BelowMore
<1>3. s \o part \in Texts /\ Below(s \o part, m)
  BY <1>1, <1>2, BelowJoin, JoinIs
<1>4. Sorted(s) => Sorted(s \o part)
  <2>1. s \o <<>> = s
    BY DEF Texts
  <2> QED BY <1>1, <2>1, SortedGrows
<1>5. BelowTo(s \o part, Len(s), n)
  <2>1. BelowTo(s, Len(s), n) /\ Len(s) \in Nat /\ DOMAIN s = 1 .. Len(s)
    BY BelowIsTo, TextIs
  <2>2. PICK w : w = s \o part
    OBVIOUS
  <2>3. w \in Texts /\ DOMAIN w = 1 .. Len(w) /\ Len(w) \in Nat /\ \A i \in 1 .. Len(s) : w[i] = s[i]
    BY <1>1, <1>3, <2>2, TextIs, JoinIs
  <2>4. \A i \in DOMAIN w : i <= Len(s) => i \in DOMAIN s /\ w[i] = s[i]
    BY <2>1, <2>3
  <2> QED BY <2>1, <2>2, <2>3, <2>4, BelowToBegins
<1> QED BY <1>1, <1>3, <1>4, <1>5

LEMMA HoldFacts ==
  ASSUME StoreViewInv, SafeInv, NEW e, NEW r, NEW b, HoldStep(e, r, b)
  PROVE  /\ e \in Entries /\ Op.n \in Nat /\ Op.n \in Pieces /\ Op.n <= writes /\ said[e] # None /\ held.retained[e] = None
         /\ file[e] # None => file[e].stamp < Op.n
         /\ Later(Op) /\ Typed(e) /\ NumbersOf(e) /\ ViewOf(e)
         /\ \A x \in Entries : held'.retained[x] = IF x = e THEN r ELSE held.retained[x]
         /\ \A x : FileText(x)' = FileText(x)
         /\ \A x \in Entries : x # e => spill'[x] = spill[x]
         /\ (e \in Stream => StreamOf(e)) /\ (Op.at = "words" => e \in Stream /\ file[e] # None)
         /\ Op.at # "called" => ~failing
<1>1. /\ e \in Entries /\ Op.n \in 1 .. writes /\ Op.n \in Pieces /\ said[e] # None /\ CallOK(Op)
  BY WriteFacts DEF HoldStep
<1>2. held.retained[e] = None /\ (file[e] # None => file[e].stamp < Op.n)
  BY <1>1 DEF CallOK, Touches, HoldStep, Writes
<1>3. Later(Op) /\ Typed(e) /\ NumbersOf(e) /\ ViewOf(e) /\ (e \in Stream => StreamOf(e))
  BY <1>1, OpType, StoreTypes DEF HoldStep, SafeInv, LaterInv, NumbersInv, StreamInv, StoreViewInv, ViewInv
<1>4. \A x \in Entries : held'.retained[x] = IF x = e THEN r ELSE held.retained[x]
  BY <1>1, HeldType2 DEF HoldStep, StoreViewInv
<1>5. \A x \in Entries : x # e => spill'[x] = spill[x]
  BY DEF HoldStep, StoreViewInv, TypeOK, DiskType
<1>6. (Op.at = "words" => e \in Stream /\ file[e] # None) /\ (Op.at # "called" => ~failing)
  BY DEF HoldStep, StoreViewInv, StageInv, WriteStage, Begun
<1>7. \A x : FileText(x)' = FileText(x)
  BY DEF HoldStep, FileText
<1> QED BY <1>1, <1>2, <1>3, <1>4, <1>5, <1>6, <1>7, ConstantsOK

\* The second file is as it was, or grew while no live record knew the entry.
LEMMA HoldSpill ==
  ASSUME StoreViewInv, SafeInv, NEW e, NEW r, NEW b, HoldStep(e, r, b)
  PROVE  /\ Below(spill'[e], writes + 1) /\ (e \in Stream => Sorted(spill'[e]))
         /\ spill'[e] # spill[e] => /\ e \in Stream /\ Op.at = "words" /\ file[e] # None /\ ~file[e].inline
                                    /\ Free /\ \E part \in Texts : spill'[e] = spill[e] \o part
         /\ \/ b = Op.bytes /\ spill'[e] = spill[e]
            \/ ~Source(e).inline /\ b = Len(spill[e]) /\ BelowTo(spill'[e], Len(spill[e]), Op.n) /\ b \in Nat
<1>0. /\ NumbersOf(e) /\ (e \in Stream => StreamOf(e)) /\ (Op.at = "words" => e \in Stream /\ file[e] # None)
      /\ e \in Entries /\ Op.n \in Nat /\ Op.n \in Pieces /\ Op.n <= writes /\ Later(Op) /\ Typed(e)
      /\ (Op.at # "called" => ~failing)
  BY HoldFacts
<1>1. CASE b = Op.bytes /\ spill' = spill
  BY <1>0, <1>1 DEF NumbersOf, StreamOf
<1>2. ASSUME Op.at = "words", ~file[e].inline, b = Len(spill[e]), NEW part \in {<<>>, <<Torn>>, <<Op.n>>},
             spill' = [spill EXCEPT ![e] = @ \o part]
      PROVE  /\ Below(spill'[e], writes + 1) /\ (e \in Stream => Sorted(spill'[e]))
             /\ e \in Stream /\ Op.at = "words" /\ file[e] # None /\ ~file[e].inline
             /\ Free /\ (\E p \in Texts : spill'[e] = spill[e] \o p)
             /\ ~Source(e).inline /\ b = Len(spill[e]) /\ BelowTo(spill'[e], Len(spill[e]), Op.n) /\ b \in Nat
  <2>1. /\ e \in Stream /\ e \in Entries /\ file[e] # None /\ ~failing /\ Op.n \in Nat /\ Op.n \in Pieces /\ Op.n <= writes
        /\ Below(spill[e], Op.n) /\ spill[e] \in Texts /\ Sorted(spill[e])
    BY <1>0, <1>2 DEF Later, HoldStep, Typed, StreamOf
  <2>2. spill'[e] = spill[e] \o part
    BY <1>2, <2>1 DEF StoreViewInv, TypeOK, DiskType
  <2>m. PICK m : m = writes + 1
    OBVIOUS
  <2>n. PICK n : n = Op.n
    OBVIOUS
  <2>s. PICK s : s = spill[e]
    OBVIOUS
  <2>3. m \in Nat /\ n < m /\ n \in Nat /\ n \in Pieces /\ s \in Texts /\ Below(s, n) /\ Sorted(s) /\ part \in {<<>>, <<Torn>>, <<n>>}
    BY <2>1, <2>m, <2>n, <2>s, StoreTypes
  <2>7. part \in Texts /\ Below(s \o part, m) /\ Sorted(s \o part) /\ BelowTo(s \o part, Len(s), n)
    BY <2>3, PartGrows
  <2>4. /\ part \in Texts /\ Below(spill[e] \o part, writes + 1) /\ Sorted(spill[e] \o part)
        /\ BelowTo(spill[e] \o part, Len(spill[e]), Op.n)
    BY <2>7, <2>m, <2>n, <2>s
  <2>5. Free
    BY <2>1 DEF SafeInv, JournalInv, HoldStep, Free
  <2>6. Len(spill[e]) \in Nat /\ ~Source(e).inline
    BY <1>2, <2>1, TextIs DEF Source
  <2> QED BY <1>2, <2>1, <2>2, <2>4, <2>5, <2>6
<1> QED BY <1>1, <1>2 DEF HoldStep

\* The plan keeps exactly what is there but the piece itself.
LEMMA HoldPlan ==
  ASSUME StoreViewInv, SafeInv, NEW e \in Stream, NEW r, NEW b, HoldStep(e, r, b)
  PROVE  /\ r # None /\ r.text = <<>> /\ r.plan = PlanOf(Op, b) /\ r.plan # None /\ r.plan.stamp = Op.n
         /\ r.plan.text = <<Op.n>> /\ r.plan.inline = Source(e).inline
         /\ ~r.plan.inline => r.plan.base = 0
         /\ r.plan.inline => /\ file[e] # None /\ file[e].inline /\ r.plan.base \in Nat /\ r.plan.base <= Len(FileText(e))
                             /\ Len(FileText(e)) <= r.plan.base + 1
         /\ Fits(e, r.plan)'
<1>1. /\ e \in Entries /\ Op.n \in Nat /\ Op.n <= writes /\ Later(Op) /\ Typed(e) /\ StreamOf(e)
      /\ FileText(e)' = FileText(e)
  BY StreamsAreEntries, HoldFacts
<1>a. e = Op.entry /\ Writes(Op) /\ r = RestOf(b) /\ phase = "up" /\ queue # <<>>
  BY DEF HoldStep
<1>2. r = [text |-> <<>>, plan |-> PlanOf(Op, b)]
  BY <1>a DEF RestOf
<1>3. r \in Held /\ r # None /\ r.plan # None
  <2>1. PlanOf(Op, b) \in Plans
    <3>1. \/ b = Op.bytes /\ spill[e] = spill[e]
          \/ /\ Op.at = "words" /\ ~Source(e).inline /\ b = Len(spill[e])
             /\ \E part \in Texts : spill[e] = spill[e] \o part
      <4>1. Op.at = "words" => Source(e) = file[e]
        BY HoldFacts DEF Source
      <4>2. <<>> \in Texts /\ spill[e] = spill[e] \o <<>>
        BY <1>1 DEF Typed, Texts
      <4> QED BY <4>1, <4>2, <1>a DEF HoldStep
    <3> QED BY <1>a, <3>1, PlanShows DEF HoldStep
  <2>2. r \in Held
    BY <1>2, <2>1, TextsClosed DEF Held
  <2> QED BY <1>2, <2>1, <2>2, NoneAssumption
<1>4. /\ r.text = <<>> /\ r.plan.stamp = Op.n /\ r.plan.bytes = b /\ r.plan.inline = Source(e).inline
      /\ r.plan.text = <<Op.n>>
      /\ r.plan.base = Len(Source(e).text) - (IF Op.at = "node" /\ Source(e).inline THEN 1 ELSE 0)
  <2>1. PICK p : p = PlanOf(Op, b)
    OBVIOUS
  <2>2. p.stamp = Op.n /\ p.bytes = b /\ p.inline = Source(Op.entry).inline /\ p.text = <<Op.n>>
        /\ p.base = Len(Source(Op.entry).text) - (IF Op.at = "node" /\ Source(Op.entry).inline THEN 1 ELSE 0)
    BY <2>1 DEF PlanOf
  <2>3. r.plan = p /\ r.text = <<>>
    BY <1>2, <2>1
  <2> QED BY <1>a, <2>2, <2>3
<1>5. Source(e).text = FileText(e) /\ Len(FileText(e)) \in Nat /\ Source(e).inline \in BOOLEAN
      /\ (Source(e).inline <=> file[e] # None /\ file[e].inline)
  BY <1>1, TextIs DEF Source, FileText, NoFile, Typed
<1>6. ~Source(e).inline => FileText(e) = <<>>
  BY <1>1 DEF StreamOf, FileText, Source, Typed
<1>7. Op.at = "node" => file[e] # None
  BY <1>1, <1>a DEF StoreViewInv, StageInv, WriteStage, Begun
<1>8. CASE Source(e).inline /\ Op.at # "node"
  <2>0. r.plan.base = Len(FileText(e))
    BY <1>4, <1>5, <1>8
  <2>1. Below(FileText(e), Op.n)
    BY <1>1, <1>8, <1>a DEF Later, HoldStep
  <2>2. BelowTo(FileText(e), r.plan.base, Op.n)
    BY <1>1, <2>1, BelowIsTo DEF Typed
  <2>3. Fits(e, r.plan)'
    BY <1>1, <1>4, <1>8, <2>2 DEF Fits
  <2>4. r.plan.base \in Nat /\ r.plan.base <= Len(FileText(e)) /\ Len(FileText(e)) <= r.plan.base + 1
    BY <1>5, <2>0
  <2> QED BY <1>2, <1>3, <1>4, <1>5, <1>8, <2>3, <2>4
<1>9. CASE Source(e).inline /\ Op.at = "node"
  <2>1. EndsIn(FileText(e), Op.n)
    BY <1>1, <1>5, <1>7, <1>9, <1>a DEF StoreViewInv, StageInv, PieceWritten, Typed
  <2>2. Len(FileText(e)) > 0 /\ r.plan.base = Len(FileText(e)) - 1 /\ FileText(e)[Len(FileText(e))] = Op.n
    BY <1>1, <1>4, <1>5, <1>9, <2>1 DEF EndsIn, Texts, Typed
  <2>3. BelowTo(FileText(e), r.plan.base, Op.n)
    <3> SUFFICES ASSUME NEW i \in DOMAIN FileText(e), i <= r.plan.base, FileText(e)[i] # Torn
                 PROVE  FileText(e)[i] < Op.n
      BY DEF BelowTo
    <3>1. i \in 1 .. Len(FileText(e)) /\ DOMAIN FileText(e) = 1 .. Len(FileText(e))
      BY <1>1, TextIs DEF Typed
    <3>2. Len(FileText(e)) \in DOMAIN FileText(e) /\ i < Len(FileText(e))
      BY <1>5, <2>2, <3>1
    <3>3. Op.n # Torn
      BY <1>1, ConstantsOK
    <3> QED BY <1>1, <2>2, <3>2, <3>3 DEF StreamOf, Sorted
  <2>4. Fits(e, r.plan)'
    BY <1>1, <1>4, <1>9, <2>3 DEF Fits
  <2>5. r.plan.base \in Nat /\ r.plan.base <= Len(FileText(e)) /\ Len(FileText(e)) <= r.plan.base + 1
    BY <1>5, <2>2
  <2> QED BY <1>2, <1>3, <1>4, <1>5, <1>9, <2>4, <2>5
<1>10. CASE ~Source(e).inline
  <2>1. r.plan.base = 0
    BY <1>4, <1>5, <1>6, <1>10
  <2>2. BelowTo(spill'[e], IF b = None THEN Len(spill'[e]) ELSE b, Op.n)
    <3>1. CASE b = Op.bytes /\ spill'[e] = spill[e] /\ Op.at # "node"
      <4>1. Below(spill[e], Op.n) /\ spill[e] \in Texts
        BY <1>1, <1>a, <3>1 DEF Later, HoldStep, Typed
      <4> QED BY <1>1, <3>1, <4>1, BelowIsTo
    <3>2. CASE b = Op.bytes /\ spill'[e] = spill[e] /\ Op.at = "node"
      <4>1. EndsIn(spill[e], Op.n) /\ b = Len(spill[e]) - 1
        BY <1>1, <1>5, <1>7, <1>10, <1>a, <3>2 DEF StoreViewInv, StageInv, PieceWritten
      <4>2. /\ Len(spill[e]) \in Nat /\ Len(spill[e]) > 0 /\ spill[e][Len(spill[e])] = Op.n /\ b \in Nat /\ b # None
            /\ DOMAIN spill[e] = 1 .. Len(spill[e])
        <5>1. spill[e] \in Texts
          BY <1>1 DEF Typed
        <5> QED BY <4>1, <5>1, TextIs, NoneAssumption DEF EndsIn, Texts
      <4> SUFFICES ASSUME NEW i \in DOMAIN spill[e], i <= b, spill[e][i] # Torn
                   PROVE  spill[e][i] < Op.n
        BY <3>2, <4>2 DEF BelowTo
      <4>3. Len(spill[e]) \in DOMAIN spill[e] /\ i < Len(spill[e])
        BY <4>1, <4>2
      <4>4. Op.n # Torn
        BY <1>1, ConstantsOK
      <4> QED BY <1>1, <4>2, <4>3, <4>4 DEF StreamOf, Sorted
    <3>3. CASE b = Len(spill[e]) /\ BelowTo(spill'[e], Len(spill[e]), Op.n) /\ b \in Nat
      BY <3>3, NoneAssumption
    <3> QED BY <3>1, <3>2, <3>3, HoldSpill
  <2>3. Fits(e, r.plan)'
    BY <1>4, <1>10, <2>2 DEF Fits
  <2> QED BY <1>2, <1>3, <1>4, <1>10, <2>1, <2>3
<1> QED BY <1>5, <1>8, <1>9, <1>10
LEMMA HoldNumbers ==
  ASSUME StoreViewInv, SafeInv, NEW e, NEW r, NEW b, HoldStep(e, r, b)
  PROVE  NumbersInv' /\ StreamInv' /\ LaterInv' /\ EndInv'
<1>1. /\ e \in Entries /\ NumbersOf(e) /\ \A x : FileText(x)' = FileText(x)
      /\ \A x \in Entries : x # e => spill'[x] = spill[x]
      /\ (e \in Stream => StreamOf(e)) /\ said[e] # None /\ Later(Op)
  BY HoldFacts
<1>2. Below(spill'[e], writes + 1) /\ (e \in Stream => Sorted(spill'[e]))
  BY HoldSpill
<1>3. UNCHANGED <<node, file, archive, promised, attempted, visible, stray, phase, writes, said, safe>>
  BY DEF HoldStep
<1>4. NumbersInv'
  <2> SUFFICES ASSUME NEW x \in Entries PROVE NumbersOf(x)'
    BY DEF NumbersInv
  <2>1. NumbersOf(x)
    BY DEF SafeInv, NumbersInv
  <2> QED BY <1>1, <1>2, <1>3, <2>1 DEF NumbersOf
<1>5. StreamInv'
  <2> SUFFICES ASSUME NEW x \in Stream PROVE StreamOf(x)'
    BY DEF StreamInv
  <2>1. StreamOf(x) /\ x \in Entries
    BY StreamsAreEntries DEF SafeInv, StreamInv
  <2> QED BY <1>1, <1>2, <1>3, <2>1 DEF StreamOf
<1>6. LaterInv' /\ \A i \in DOMAIN queue' : Unheld(queue[i])'
  <2>1. \A x \in Entries : Settled(x)
    BY <1>1, <1>3 DEF Settled, HoldStep, Touches, Writes
  <2>2. PICK o \in Requests : /\ queue' = <<o>> \o Tail(queue)
                              /\ o.kind = "write" /\ o.entry = e /\ o.n = Op.n /\ o.at = "journal"
    BY DEF HoldStep
  <2>3. Later(o)' /\ Unheld(o)'
    BY <1>1, <1>3, <2>2 DEF Later, Unheld, Writes, HoldStep
  <2>4. queue # <<>> /\ archive' = archive /\ (archive # None => archive.revision # held'.revision)
    BY DEF HoldStep
  <2> QED BY <2>1, <2>2, <2>3, <2>4, NobodyElse
<1>7. EndInv'
  BY <1>6 DEF EndInv, HoldStep
<1> QED BY <1>4, <1>5, <1>6, <1>7

LEMMA HoldJournal ==
  ASSUME StoreViewInv, SafeInv, NEW e, NEW r, NEW b, HoldStep(e, r, b)
  PROVE  JournalInv' /\ SafeSaid' /\ DiskReaches' /\ DownInv'
<1>1. /\ e \in Entries /\ Typed(e) /\ said[e] # None /\ held.retained[e] = None
      /\ \A x : FileText(x)' = FileText(x)
      /\ \A x \in Entries : x # e => spill'[x] = spill[x]
      /\ \A x \in Entries : held'.retained[x] = IF x = e THEN r ELSE held.retained[x]
  BY HoldFacts
<1>2. /\ phase = "up" /\ ~held.closed /\ failing' = TRUE
      /\ UNCHANGED <<node, file, archive, promised, attempted, visible, stray, phase, writes, said, safe>>
  BY DEF HoldStep
<1>3. Live' = Live /\ \A c, x : KeptOf(c, x)' = KeptOf(c, x)
  BY <1>2 DEF Live, KeptOf
<1>4. \A c \in Live : \A x \in Entries : KeptOf(c, x) \in {None, held.retained[x]}
  BY <1>2 DEF SafeInv, JournalInv
<1>5. \A c \in Live : \A x \in Entries : KeptOf(c, x) \in {None, held'.retained[x]}
  BY <1>1, <1>4
<1>6. JournalInv'
  BY <1>2, <1>3, <1>5 DEF SafeInv, JournalInv, KeptOf
<1>7. SafeSaid' /\ DownInv'
  BY <1>2 DEF SafeInv, SafeSaid, DownInv
<1>8. DiskReaches'
  <2> SUFFICES ASSUME NEW c \in Live, NEW x \in Entries, said[x] # None, KeptOf(c, x) = None
               PROVE  Reaches(x, OnDisk(x)', safe[x])
    BY <1>2, <1>3 DEF DiskReaches
  <2>1. Reaches(x, OnDisk(x), safe[x])
    BY <1>2 DEF SafeInv, DiskReaches
  <2>2. CASE spill'[x] = spill[x]
    <3>1. OnDisk(x)' = OnDisk(x)
      BY <1>2, <2>2 DEF OnDisk, Shown, Materialized, Prefix
    <3> QED BY <2>1, <3>1
  <2>3. CASE spill'[x] # spill[x]
    <3>1. x = e
      BY <1>1, <2>3
    <3>2. PICK part \in Texts : spill'[e] = spill[e] \o part
      BY <2>3, <3>1, HoldSpill
    <3>3. e \in Stream /\ file[e] # None /\ ~file[e].inline
      BY <2>3, <3>1, HoldSpill
    <3>4. /\ OnDisk(e) = FileText(e) \o spill[e] /\ OnDisk(e) \in Texts /\ FileText(e) \in Texts /\ spill[e] \in Texts
          /\ FileText(e) = file[e].text /\ safe[e] \in Texts
      <4>1. safe[e] # None
        BY <1>1 DEF SafeInv, NumbersInv, NumbersOf
      <4> QED BY <1>1, <3>3, <4>1, OnDiskText DEF Typed
    <3>5. OnDisk(e)' = FileText(e) \o (spill[e] \o part)
      <4>1. OnDisk(e)' = file'[e].text \o (IF file'[e].inline THEN <<>> ELSE spill'[e])
        BY <1>1, <1>2, <3>3, NothingHeldType DEF OnDisk, Shown
      <4> QED BY <1>2, <3>2, <3>3, <3>4, <4>1
    <3>6. OnDisk(e)' = OnDisk(e) \o part
      <4>1. (FileText(e) \o spill[e]) \o part = FileText(e) \o (spill[e] \o part)
        BY <3>2, <3>4, JoinTwice
      <4> QED BY <3>4, <3>5, <4>1
    <3> QED BY <2>1, <3>1, <3>3, <3>4, <3>6, ReachesJoin
  <2> QED BY <2>2, <2>3
<1> QED BY <1>6, <1>7, <1>8

\* What strays keep of the entry is beside the new plan.
LEMMA HoldShapes ==
  ASSUME StoreViewInv, SafeInv, NEW e, NEW r, NEW b, HoldStep(e, r, b)
  PROVE  RestsInv' /\ FitsInv' /\ BesideInv'
<1>1. /\ e \in Entries /\ Typed(e) /\ said[e] # None /\ held.retained[e] = None /\ Op.n \in Nat /\ Op.n <= writes
      /\ (file[e] # None => file[e].stamp < Op.n)
      /\ \A x : FileText(x)' = FileText(x)
      /\ \A x \in Entries : x # e => spill'[x] = spill[x]
      /\ \A x \in Entries : held'.retained[x] = IF x = e THEN r ELSE held.retained[x]
  BY HoldFacts
<1>2. /\ phase = "up" /\ ~held.closed /\ r = RestOf(b) /\ e = Op.entry /\ ~held'.closed
      /\ UNCHANGED <<node, file, archive, promised, attempted, visible, stray, phase, writes, said, safe>>
  BY DEF HoldStep
<1>3. Recorded' = Recorded /\ (\A c, x : KeptOf(c, x)' = KeptOf(c, x)) /\ (Free' <=> Free)
      /\ \A x, p : Stamped(x, p)' <=> Stamped(x, p)
  BY <1>2 DEF Recorded, KeptOf, Free, Stamped
<1>4. RestsInv'
  <2>1. \A x, q : RestOK(x, q)' <=> RestOK(x, q)
    BY <1>2 DEF RestOK
  <2>2. RestOK(e, r)
    <3>1. CASE e \in Stream
      BY <3>1, HoldPlan DEF RestOK
    <3>2. CASE e \notin Stream
      <4>1. r.text = <<Op.n>> /\ r.plan = None /\ writes + 1 \in Nat /\ Op.n < writes + 1 /\ Op.n \in Pieces
        BY <1>1, <1>2, <3>2, HoldFacts, StoreTypes DEF RestOf
      <4>2. Below(<<Op.n>>, writes + 1) /\ <<Op.n>> # <<>> /\ Numeric(<<Op.n>>)
        BY <1>1, <4>1, BelowOne DEF Numeric
      <4> QED BY <3>2, <4>1, <4>2 DEF RestOK
    <3> QED BY <3>1, <3>2
  <2>3. /\ \A x \in Entries : RestOK(x, held.retained[x])
        /\ \A c \in Recorded : \A x \in Entries : RestOK(x, KeptOf(c, x))
    BY DEF SafeInv, RestsInv
  <2>4. \A x \in Entries : RestOK(x, held'.retained[x])
    BY <1>1, <2>2, <2>3
  <2> QED BY <1>2, <1>3, <2>1, <2>3, <2>4 DEF RestsInv, RestOK, KeptOf, Recorded
<1>5. \A c \in Recorded : spill'[e] # spill[e] => KeptOf(c, e) = None
  <2> SUFFICES ASSUME NEW c \in Recorded, spill'[e] # spill[e] PROVE KeptOf(c, e) = None
    OBVIOUS
  <2>1. e \in Stream /\ file[e] # None /\ ~file[e].inline /\ Free
    BY HoldSpill
  <2>2. Beside(e, KeptOf(c, e))
    BY <1>2, <2>1 DEF SafeInv, BesideInv, BesideOf
  <2> QED BY <1>1, <2>1, <2>2 DEF Beside
<1>6. FitsInv'
  <2>1. ASSUME NEW x \in Stream, NEW q, FitOK(x, q), spill'[x] = spill[x] PROVE FitOK(x, q)'
    BY <1>1, <1>3, <2>1 DEF FitOK, Fits
  <2>2. ASSUME NEW c \in Recorded, NEW x \in Stream PROVE FitOK(x, KeptOf(c, x))'
    <3>1. FitOK(x, KeptOf(c, x)) /\ x \in Entries
      BY StreamsAreEntries DEF SafeInv, FitsInv
    <3>2. PICK q : q = KeptOf(c, x)
      OBVIOUS
    <3>3. CASE spill'[x] = spill[x]
      <4>1. FitOK(x, q)'
        BY <2>1, <3>1, <3>2, <3>3
      <4> QED BY <1>3, <3>2, <4>1 DEF FitOK, Fits, Stamped, Free
    <3>4. CASE spill'[x] # spill[x]
      <4>1. KeptOf(c, x)' = None
        BY <1>1, <1>3, <1>5, <3>1, <3>4
      <4> QED BY <4>1 DEF FitOK
    <3> QED BY <3>3, <3>4
  <2>3. ASSUME NEW x \in Stream PROVE FitOK(x, held.retained[x])'
    <3>1. x \in Entries /\ FitOK(x, held.retained[x])
      BY StreamsAreEntries DEF SafeInv, FitsInv
    <3>2. PICK q : q = held'.retained[x]
      OBVIOUS
    <3>3. CASE x = e
      <4>1. q = r /\ Fits(x, q.plan)'
        BY <1>1, <3>2, <3>3, HoldPlan DEF Fits
      <4> QED BY <3>2, <4>1 DEF FitOK, Fits
    <3>4. CASE x # e
      <4>1. q = held.retained[x] /\ spill'[x] = spill[x]
        BY <1>1, <3>1, <3>2, <3>4
      <4>2. FitOK(x, q)'
        BY <2>1, <3>1, <4>1
      <4> QED BY <3>2, <4>2 DEF FitOK, Fits, Stamped, Free
    <3> QED BY <3>3, <3>4
  <2> QED BY <1>3, <2>2, <2>3 DEF FitsInv, Recorded
<1>7. BesideInv'
  <2> SUFFICES ASSUME Free, NEW x \in Stream PROVE BesideOf(x)'
    BY <1>3 DEF BesideInv
  <2>1. BesideOf(x) /\ x \in Entries
    BY <1>2, StreamsAreEntries DEF SafeInv, BesideInv
  <2>2. CASE x # e
    <3>1. held'.retained[x] = held.retained[x]
      BY <1>1, <2>1, <2>2
    <3> QED BY <1>1, <1>2, <1>3, <2>1, <3>1 DEF BesideOf, HeldFits, Beside
  <2>3. CASE x = e
    <3>1. /\ r # None /\ r.plan.stamp = Op.n
          /\ r.plan.inline = Source(e).inline
          /\ r.plan.inline => /\ file[e] # None /\ file[e].inline /\ r.plan.base \in Nat
                              /\ r.plan.base <= Len(FileText(e)) /\ Len(FileText(e)) <= r.plan.base + 1
      BY <2>3, HoldPlan
    <3>2. held'.retained[x] = r
      BY <1>1, <2>3
    <3>3. HeldFits(x)'
      <4>1. ~Stamped(x, r.plan)'
        BY <1>1, <1>2, <2>3, <3>1 DEF Stamped, Typed
      <4> QED BY <1>1, <2>3, <3>1, <3>2, <4>1 DEF HeldFits
    <3>4. ASSUME NEW c \in Recorded PROVE Beside(x, KeptOf(c, x))'
      <4>1. Beside(e, KeptOf(c, e)) /\ KeptOf(c, e) \in Held \cup {None} /\ RestOK(e, KeptOf(c, e))
        BY <1>1, <2>1, <2>3, StoreTypes DEF BesideOf, SafeInv, RestsInv
      <4>2. PICK q : q = KeptOf(c, e)
        OBVIOUS
      <4>3. CASE q = None \/ q = r
        BY <1>3, <2>3, <3>2, <4>2, <4>3 DEF Beside
      <4>4. CASE q # None /\ q # r
        <5>1. file[e] # None /\ file[e].inline /\ (q.plan.inline => q.plan.base < Len(FileText(e)))
          BY <1>1, <4>1, <4>2, <4>4 DEF Beside
        <5>2. r.plan.inline
          BY <3>1, <5>1 DEF Source
        <5>3. q.plan.inline => q.plan.base <= r.plan.base
          <6>1. q.plan # None /\ q \in Held
            BY <2>3, <4>1, <4>2, <4>4 DEF RestOK
          <6>2. q.plan.base \in Nat /\ Len(FileText(e)) \in Nat
            BY <1>1, <6>1, PlanTypes, TextIs DEF Typed
          <6> QED BY <3>1, <5>1, <5>2, <6>2
        <5> QED BY <1>3, <2>3, <3>1, <3>2, <4>2, <5>2, <5>3 DEF Beside
      <4> QED BY <4>3, <4>4
    <3> QED BY <1>3, <3>3, <3>4 DEF BesideOf
  <2> QED BY <2>2, <2>3
<1> QED BY <1>4, <1>6, <1>7

LEMMA HoldSafely ==
  ASSUME StoreViewInv, SafeInv, NEW e, NEW r, NEW b, HoldStep(e, r, b)
  PROVE  SafeInv'
<1>1. NumbersInv' /\ StreamInv' /\ LaterInv' /\ EndInv'
  BY HoldNumbers
<1>2. JournalInv' /\ SafeSaid' /\ DiskReaches' /\ DownInv'
  BY HoldJournal
<1>3. RestsInv' /\ FitsInv' /\ BesideInv'
  BY HoldShapes
<1> QED BY <1>1, <1>2, <1>3 DEF SafeInv
LEMMA HoldIs ==
  ASSUME StoreViewInv, phase = "up", queue # <<>>, Writes(Op), Goes("journal")
  PROVE  \E o \in Requests : /\ queue' = <<o>> \o Tail(queue)
                             /\ o.kind = "write" /\ o.entry = Op.entry /\ o.n = Op.n /\ o.at = "journal"
<1>1. PICK o : o = [Op EXCEPT !.at = "journal"]
  OBVIOUS
<1>2. o \in Requests /\ o.kind = "write" /\ o.entry = Op.entry /\ o.n = Op.n /\ o.at = "journal"
  BY <1>1, OpAt DEF StoreViewInv, Writes
<1> QED BY <1>1, <1>2 DEF Goes

LEMMA WriteStartsSafe ==
  ASSUME StoreViewInv, SafeInv, WriteStarts
  PROVE  SafeInv'
<1> DEFINE next == [held EXCEPT !.revision = @ + 1]
<1>1. /\ phase = "up" /\ queue # <<>> /\ Writes(Op) /\ Op.at = "called" /\ TypeOK
      /\ UNCHANGED <<node, file, spill, archive, promised, attempted, visible, stray, phase, writes, said, safe>>
  BY DEF WriteStarts, Running, Op, Writes, StoreViewInv, disk, archives, journal, told
<1>2. CASE Ends /\ UNCHANGED <<held, failing>>
  BY <1>2, WriteGoesSafe
<1>3. CASE ~held.closed /\ Hold(next)
  <2>e. PICK e : e = Op.entry
    OBVIOUS
  <2>b. PICK b : b = Op.bytes
    OBVIOUS
  <2>r. PICK r : r = RestOf(b)
    OBVIOUS
  <2>1. Rest(Op) = r
    BY <1>1, <2>b, <2>r, RestIs
  <2>2. held'.retained = [held.retained EXCEPT ![e] = r] /\ ~held'.closed /\ held'.revision = held.revision + 1
    BY <1>1, <1>3, <2>1, <2>e, HeldType2 DEF Hold, Memory
  <2>3. archive # None => archive.revision # held'.revision
    <3>1. archive # None => archive.revision <= held.revision /\ archive.revision \in Nat /\ held.revision \in Nat
      BY HeldType2 DEF StoreViewInv, ArchiveInv, TypeOK, ArchiveType, Archives
    <3> QED BY <2>2, <3>1
  <2>4. HoldStep(e, r, b)
    BY <1>1, <1>3, <2>e, <2>b, <2>r, <2>2, <2>3, HoldIs DEF HoldStep, Hold
  <2> QED BY <2>4, HoldSafely
<1>4. CASE ~held.closed /\ ~failing /\ held' = next /\ UNCHANGED failing /\ \E at \in {"initial", "words", "entry"} : Goes(at)
  BY <1>4, WriteGoesSafe
<1> QED BY <1>2, <1>3, <1>4 DEF WriteStarts

LEMMA WriteRefusedSafe ==
  ASSUME StoreViewInv, SafeInv, WriteRefused
  PROVE  SafeInv'
<1>1. /\ phase = "up" /\ queue # <<>> /\ Writes(Op) /\ Op.at \in {"initial", "entry", "words", "node"} /\ TypeOK
      /\ UNCHANGED <<node, file, archive, promised, attempted, visible, stray, phase, writes, said, safe>>
  BY DEF WriteRefused, Writes, StoreViewInv, archives, journal, told
<1>e. PICK e : e = Op.entry
  OBVIOUS
<1>2. ~held.closed /\ (archive # None => archive.revision < held.revision)
  BY <1>1 DEF StoreViewInv, StageInv, WriteStage, Begun
<1>3. archive # None => archive.revision # held.revision
  <2>1. archive # None => archive.revision \in Nat /\ held.revision \in Nat
    BY HeldType2 DEF StoreViewInv, TypeOK, ArchiveType, Archives
  <2> QED BY <1>2, <2>1
<1>4. CASE UNCHANGED spill /\ Hold(held)
  <2>b. PICK b : b = Op.bytes
    OBVIOUS
  <2>r. PICK r : r = RestOf(b)
    OBVIOUS
  <2>1. Rest(Op) = r
    BY <1>1, <2>b, <2>r, RestIs
  <2>2. held'.retained = [held.retained EXCEPT ![e] = r] /\ ~held'.closed /\ held'.revision = held.revision
    BY <1>1, <1>2, <1>4, <2>1, <1>e, HeldType2 DEF Hold, Memory
  <2>4. HoldStep(e, r, b)
    BY <1>1, <1>2, <1>3, <1>4, <1>e, <2>b, <2>r, <2>2, HoldIs DEF HoldStep, Hold
  <2> QED BY <2>4, HoldSafely
<1>5. ASSUME Op.at = "words", ~file[Op.entry].inline, NEW part \in {<<>>, <<Torn>>, <<Op.n>>},
             spill' = [spill EXCEPT ![Op.entry] = @ \o part],
             held' = [held EXCEPT !.retained[Op.entry] = Rest([Op EXCEPT !.bytes = Len(spill[Op.entry])])],
             failing' = TRUE, Goes("journal")
      PROVE  SafeInv'
  <2>b. PICK b : b = Len(spill[Op.entry])
    OBVIOUS
  <2>r. PICK r : r = RestOf(b)
    OBVIOUS
  <2>1. Rest([Op EXCEPT !.bytes = Len(spill[Op.entry])]) = r
    BY <1>1, <2>b, <2>r, RestIs
  <2>2. held'.retained = [held.retained EXCEPT ![e] = r] /\ ~held'.closed /\ held'.revision = held.revision
    BY <1>1, <1>2, <1>5, <2>1, <1>e, HeldType2 DEF Memory
  <2>4. HoldStep(e, r, b)
    BY <1>1, <1>2, <1>3, <1>5, <1>e, <2>b, <2>r, <2>2, HoldIs DEF HoldStep
  <2> QED BY <2>4, HoldSafely
<1> QED BY <1>4, <1>5 DEF WriteRefused
-----------------------------------------------------------------------------
(* A step of the running call that changes one entry.                      *)
LEMMA EntrySafe ==
  ASSUME StoreViewInv, SafeInv, phase = "up", queue # <<>>, NEW e \in Entries, Settled(e),
         \A x \in Entries : x # e => /\ file'[x] = file[x] /\ spill'[x] = spill[x]
                                     /\ said'[x] = said[x] /\ safe'[x] = safe[x],
         Ends \/ \E o \in Requests : queue' = <<o>> \o Tail(queue) /\ Later(o)' /\ Unheld(o)',
         UNCHANGED <<node, archive, promised, attempted, visible, stray, phase, failing, writes>>,
         held'.retained = held.retained, held'.closed = held.closed, held'.revision = held.revision,
         NumbersOf(e)', said'[e] # None => Reaches(e, said'[e], safe'[e]),
         e \in Stream => StreamOf(e)' /\ FitOK(e, held.retained[e])' /\ \A c \in Recorded : FitOK(e, KeptOf(c, e))',
         e \in Stream /\ Free /\ ~held.closed => BesideOf(e)',
         \A c \in Live : ~held.closed /\ said'[e] # None /\ KeptOf(c, e) = None => Reaches(e, OnDisk(e)', safe'[e])
  PROVE  SafeInv'
<1>1. \A x \in Entries : x # e => FileText(x)' = FileText(x)
  BY DEF FileText
<1>2. JournalInv'
  BY DEF SafeInv, JournalInv, Live, KeptOf
<1>3. NumbersInv'
  <2> SUFFICES ASSUME NEW x \in Entries, x # e PROVE NumbersOf(x)'
    BY DEF NumbersInv
  <2>1. NumbersOf(x) /\ FileText(x)' = FileText(x)
    BY <1>1 DEF SafeInv, NumbersInv
  <2> QED BY <2>1 DEF NumbersOf
<1>4. LaterInv' /\ \A i \in DOMAIN queue' : Unheld(queue[i])'
  <2>1. \A x \in Entries : Settled(x)
    <3> SUFFICES ASSUME NEW x \in Entries, x # e PROVE Settled(x)
      OBVIOUS
    <3> QED BY <1>1 DEF Settled
  <2> QED BY <2>1, NobodyElse
<1>5. StreamInv'
  <2> SUFFICES ASSUME NEW x \in Stream, x # e PROVE StreamOf(x)'
    BY DEF StreamInv
  <2>1. StreamOf(x) /\ FileText(x)' = FileText(x) /\ x \in Entries
    BY <1>1, StreamsAreEntries DEF SafeInv, StreamInv
  <2> QED BY <2>1 DEF StreamOf
<1>6. RestsInv'
  <2>1. writes' \in Nat /\ writes <= writes'
    BY StoreTypes
  <2> QED BY <2>1, RestsFrame DEF SafeInv
<1>7. \A x \in Stream : \A r : x # e /\ FitOK(x, r) => FitOK(x, r)'
  <2> SUFFICES ASSUME NEW x \in Stream, NEW r, x # e, FitOK(x, r) PROVE FitOK(x, r)'
    OBVIOUS
  <2>1. x \in Entries /\ FileText(x)' = FileText(x)
    BY <1>1, StreamsAreEntries
  <2> QED BY <2>1 DEF FitOK, Fits, Stamped, Free
<1>8. FitsInv'
  <2>1. ASSUME NEW x \in Stream PROVE FitOK(x, held.retained[x])'
    <3>1. PICK r : r = held.retained[x]
      OBVIOUS
    <3>2. x # e => FitOK(x, r)'
      BY <1>7, <3>1 DEF SafeInv, FitsInv
    <3> QED BY <3>1, <3>2 DEF FitOK, Fits, Stamped, Free
  <2>2. ASSUME NEW c \in Recorded, NEW x \in Stream PROVE FitOK(x, KeptOf(c, x))'
    <3>1. PICK r : r = KeptOf(c, x)
      OBVIOUS
    <3>2. x # e => FitOK(x, r)'
      BY <1>7, <3>1 DEF SafeInv, FitsInv
    <3> QED BY <3>1, <3>2 DEF FitOK, Fits, Stamped, Free, KeptOf
  <2>3. Recorded' = Recorded
    BY DEF Recorded
  <2> QED BY <2>1, <2>2, <2>3 DEF FitsInv
<1>9. BesideInv'
  <2> SUFFICES ASSUME Free, ~held.closed, NEW x \in Stream, x # e PROVE BesideOf(x)'
    BY DEF BesideInv, Free
  <2>1. BesideOf(x) /\ x \in Entries /\ FileText(x)' = FileText(x) /\ Recorded' = Recorded
    BY <1>1, StreamsAreEntries DEF SafeInv, BesideInv, Recorded
  <2> QED BY <2>1 DEF BesideOf, HeldFits, Beside, Stamped, KeptOf
<1>10. SafeSaid'
  BY DEF SafeInv, SafeSaid
<1>11. DiskReaches'
  <2> SUFFICES ASSUME ~held.closed, NEW c \in Live, NEW x \in Entries, x # e, said'[x] # None, KeptOf(c, x) = None
               PROVE  Reaches(x, OnDisk(x)', safe'[x])
    BY DEF DiskReaches, Live, KeptOf
  <2>1. Reaches(x, OnDisk(x), safe[x])
    BY DEF SafeInv, DiskReaches
  <2>2. OnDisk(x)' = OnDisk(x)
    BY DEF OnDisk, Shown, Materialized, Prefix
  <2> QED BY <2>1, <2>2
<1>12. DownInv' /\ EndInv'
  BY <1>4 DEF SafeInv, DownInv, EndInv
<1> QED BY <1>2, <1>3, <1>4, <1>5, <1>6, <1>8, <1>9, <1>10, <1>11, <1>12 DEF SafeInv

\* A whole entry that is newer than what was said.
LEMMA NewestReaches ==
  ASSUME StoreViewInv, SafeInv, NEW e \in Entries, e \notin Stream, said[e] # None, NEW n \in Nat, Below(said[e], n)
  PROVE  Reaches(e, <<n>>, safe[e])
<1>1. Typed(e) /\ NumbersOf(e) /\ Reaches(e, said[e], safe[e]) /\ said[e] \in Texts /\ safe[e] \in Texts
      /\ Numeric(said[e]) /\ Numeric(safe[e])
  BY StoreTypes DEF SafeInv, NumbersInv, SafeSaid, NumbersOf, Typed
<1> SUFFICES ASSUME safe[e] # <<>> PROVE n >= safe[e][1]
  BY DEF Reaches
<1>2. said[e] # <<>> /\ said[e][1] >= safe[e][1]
  BY <1>1 DEF Reaches
<1>3. 1 \in DOMAIN said[e] /\ said[e][1] \in Nat /\ safe[e][1] \in Nat
  BY <1>1, <1>2 DEF Numeric, Texts
<1>4. said[e][1] < n
  BY <1>3, ConstantsOK DEF Below
<1> QED BY <1>2, <1>3, <1>4

LEMMA EntrySavedSafe ==
  ASSUME StoreViewInv, SafeInv, EntrySaved
  PROVE  SafeInv'
<1>e. PICK e : e = Op.entry
  OBVIOUS
<1>n. PICK n : n = Op.n
  OBVIOUS
<1>a. PICK at : at = IF e \in Stream THEN "words" ELSE "node"
  OBVIOUS
<1>o. PICK o : o = [Op EXCEPT !.at = at]
  OBVIOUS
<1>1. /\ phase = "up" /\ queue # <<>> /\ Writes(Op) /\ Op.at = "entry" /\ Goes(at) /\ TypeOK
      /\ file' = [file EXCEPT ![e] = [NoFile EXCEPT !.text = IF e \in Stream THEN <<>> ELSE <<n>>]]
      /\ held' = [held EXCEPT !.files = @ \cup {Op.entry}]
      /\ UNCHANGED <<node, spill, archive, promised, attempted, visible, stray, phase, failing, writes, said, safe>>
  BY <1>e, <1>n, <1>a DEF EntrySaved, Running, Writes, Op, archives, journal, told, StoreViewInv
<1>2. /\ e \in Entries /\ n \in Nat /\ n \in Pieces /\ n <= writes /\ held.retained[e] = None /\ said[e] # None
      /\ ~held.closed /\ ~failing /\ e \notin Stream \cap held.files
  <2>1. n \in 1 .. writes
    BY <1>1, <1>n, WriteFacts
  <2> QED BY <1>1, <1>e, <1>n, <2>1, WriteFacts, NothingIsHeld DEF StoreViewInv, StageInv, WriteStage, Begun
<1>3. /\ o \in Requests /\ o.kind = "write" /\ o.entry = e /\ o.n = n /\ o.at = at
      /\ queue' = <<o>> \o Tail(queue)
  <2>1. at \in {"words", "node"}
    BY <1>a
  <2>2. o \in Requests /\ o.kind = Op.kind /\ o.entry = Op.entry /\ o.n = Op.n /\ o.at = at
    BY <1>1, <1>o, <2>1, OpAt
  <2> QED BY <1>1, <1>e, <1>n, <1>o, <2>2 DEF Writes, Goes
<1>4. /\ Typed(e) /\ NumbersOf(e) /\ ViewOf(e) /\ FilesOf(e) /\ Later(Op) /\ safe[e] \in Texts /\ writes + 1 \in Nat
      /\ n < writes + 1
  <2>1. writes \in Nat /\ writes + 1 \in Nat /\ NumbersOf(e) /\ Typed(e)
    BY <1>2, StoreTypes DEF SafeInv, NumbersInv
  <2>2. n < writes + 1
    BY <1>2, <2>1
  <2> QED BY <1>1, <1>2, <2>1, <2>2, OpType DEF SafeInv, LaterInv, Typed, NumbersOf, StoreViewInv, ViewInv, FilesInv
<1>5. /\ file'[e] # None /\ ~file'[e].inline /\ file'[e].stamp = 0
      /\ FileText(e)' = IF e \in Stream THEN <<>> ELSE <<n>>
      /\ \A x \in Entries : x # e => file'[x] = file[x]
  <2>t. PICK t : t = IF e \in Stream THEN <<>> ELSE <<n>>
    OBVIOUS
  <2>f. PICK f : f = [text |-> t, inline |-> FALSE, stamp |-> 0]
    OBVIOUS
  <2>0. [NoFile EXCEPT !.text = t] = f
    <3>1. \A s, i, m : [[text |-> s, inline |-> i, stamp |-> m] EXCEPT !.text = t]
                         = [text |-> t, inline |-> i, stamp |-> m]
      OBVIOUS
    <3> QED BY <2>f, <3>1 DEF NoFile
  <2>1. f.text = t /\ ~f.inline /\ f.stamp = 0 /\ t \in Texts
    BY <1>2, <2>t, <2>f, TextsClosed
  <2>2. f \in Files /\ f # None
    <3>1. 0 \in 0 .. MaxWrites
      BY ConstantsOK
    <3>2. f \in Files
      BY <2>1, <2>f, <3>1 DEF Files
    <3> QED BY <3>2, NoneAssumption
  <2>3. file' = [file EXCEPT ![e] = f] /\ DOMAIN file = Entries
    BY <1>1, <2>t, <2>0 DEF TypeOK, DiskType
  <2> QED BY <1>2, <2>t, <2>1, <2>2, <2>3 DEF FileText
<1>6. held'.retained = held.retained /\ held'.closed = held.closed /\ held'.revision = held.revision
  BY <1>1, HeldType2 DEF Memory
<1>7. e \in Stream => file[e] = None /\ spill[e] = <<>>
  BY <1>2, <1>4 DEF ViewOf, FilesOf
<1>8. spill[e] = <<>>
  BY <1>4, <1>7 DEF FilesOf
<1>9. \A c \in Recorded : e \in Stream => KeptOf(c, e) = None
  <2> SUFFICES ASSUME NEW c \in Recorded, e \in Stream PROVE KeptOf(c, e) = None
    OBVIOUS
  <2>1. Free
    BY <1>1, <1>2 DEF SafeInv, JournalInv, Free
  <2>2. Beside(e, KeptOf(c, e))
    BY <1>2, <2>1 DEF SafeInv, BesideInv, BesideOf
  <2> QED BY <1>2, <1>7, <2>2 DEF Beside
<1>10. Below(said[e], n) /\ said[e] \in Texts
  BY <1>1, <1>2, <1>4, <1>e, <1>n DEF Later, Typed
<1>11. Below(FileText(e)', writes + 1) /\ (e \notin Stream => Numeric(FileText(e)'))
  BY <1>2, <1>4, <1>5, BelowOne, BelowNone DEF Numeric
<1>12. NumbersOf(e)'
  BY <1>1, <1>4, <1>11 DEF NumbersOf
<1>13. Later(o)' /\ Unheld(o)'
  <2>1. at \in {"words", "node"} /\ (at = "words" => e \in Stream)
    BY <1>a
  <2>2. FileText(e)' = FileText(o.entry)'
    BY <1>3 DEF FileText
  <2> QED BY <1>1, <1>3, <1>5, <1>8, <1>10, <2>1, <2>2, BelowNone DEF Later, Unheld, Writes
<1>14. OnDisk(e)' = FileText(e)'
  <2>1. OnDisk(e)' = file'[e].text \o <<>>
    BY <1>1, <1>2, <1>5, <1>8, NothingHeldType DEF OnDisk, Shown
  <2>2. file'[e].text = FileText(e)' /\ FileText(e)' \in Texts
    BY <1>2, <1>5, TextsClosed DEF FileText
  <2> QED BY <2>1, <2>2 DEF Texts
<1>15. Reaches(e, OnDisk(e)', safe[e])
  <2>1. CASE e \in Stream
    <3>1. OnDisk(e) = FileText(e) /\ FileText(e) = <<>>
      BY <1>2, <1>4, <1>7, <2>1, OnDiskText DEF Typed
    <3>2. Reaches(e, OnDisk(e), safe[e])
      BY <1>1, <1>2, DiskShows
    <3> QED BY <1>5, <1>14, <2>1, <3>1, <3>2
  <2>2. CASE e \notin Stream
    BY <1>2, <1>5, <1>10, <1>14, <2>2, NewestReaches
  <2> QED BY <2>1, <2>2
<1>16. Reaches(e, said'[e], safe'[e])
  BY <1>1, <1>2 DEF SafeInv, SafeSaid
<1>17. ASSUME e \in Stream
       PROVE  /\ StreamOf(e)' /\ FitOK(e, held.retained[e])' /\ \A c \in Recorded : FitOK(e, KeptOf(c, e))'
              /\ BesideOf(e)'
  <2>1. StreamOf(e)'
    BY <1>1, <1>5, <1>8, <1>17, BelowNone DEF StreamOf, FileText
  <2>2. FitOK(e, held.retained[e])' /\ \A c \in Recorded : FitOK(e, KeptOf(c, e))'
    BY <1>1, <1>2, <1>6, <1>9, <1>17 DEF FitOK, KeptOf
  <2>3. BesideOf(e)'
    BY <1>1, <1>2, <1>6, <1>9, <1>17 DEF BesideOf, HeldFits, Beside, Recorded, KeptOf
  <2> QED BY <2>1, <2>2, <2>3
<1>18. Settled(e)
  BY <1>1, <1>e DEF Settled, Touches, Writes
<1> QED BY <1>1, <1>2, <1>3, <1>5, <1>6, <1>12, <1>13, <1>15, <1>16, <1>17, <1>18, EntrySafe

LEMMA WordsSavedSafe ==
  ASSUME StoreViewInv, SafeInv, WordsSaved
  PROVE  SafeInv'
<1>e. PICK e : e = Op.entry
  OBVIOUS
<1>n. PICK n : n = Op.n
  OBVIOUS
<1>b. PICK b : b = IF file[e].inline THEN None ELSE Len(spill[e])
  OBVIOUS
<1>o. PICK o : o = [Op EXCEPT !.at = "node", !.bytes = b]
  OBVIOUS
<1>1. /\ phase = "up" /\ queue # <<>> /\ Writes(Op) /\ Op.at = "words" /\ TypeOK /\ queue' = <<o>> \o Tail(queue)
      /\ IF file[e].inline
         THEN file' = [file EXCEPT ![e].text = Append(@, n)] /\ UNCHANGED spill
         ELSE spill' = [spill EXCEPT ![e] = Append(@, n)] /\ UNCHANGED file
      /\ UNCHANGED <<node, archive, promised, attempted, visible, stray, phase, held, failing, writes, said, safe>>
  BY <1>e, <1>n, <1>b, <1>o DEF WordsSaved, Running, Writes, Op, archives, journal, told, StoreViewInv
<1>2. /\ e \in Entries /\ n \in Nat /\ n \in Pieces /\ n <= writes /\ held.retained[e] = None /\ said[e] # None
      /\ ~held.closed /\ ~failing /\ e \in Stream /\ file[e] # None
  <2>1. n \in 1 .. writes
    BY <1>1, <1>n, WriteFacts
  <2> QED BY <1>1, <1>e, <1>n, <2>1, WriteFacts, NothingIsHeld DEF StoreViewInv, StageInv, WriteStage, Begun
<1>3. /\ Typed(e) /\ NumbersOf(e) /\ Later(Op) /\ safe[e] \in Texts /\ writes + 1 \in Nat /\ StreamOf(e)
      /\ n < writes + 1 /\ Free /\ BesideOf(e)
  <2>1. writes \in Nat /\ writes + 1 \in Nat /\ NumbersOf(e) /\ Typed(e) /\ Free
    BY <1>1, <1>2, StoreTypes DEF SafeInv, NumbersInv, JournalInv, Free
  <2>2. n < writes + 1
    BY <1>2, <2>1
  <2> QED BY <1>1, <1>2, <2>1, <2>2, OpType DEF SafeInv, LaterInv, Typed, NumbersOf, StoreViewInv, StreamInv, BesideInv
<1>4. o \in Requests /\ o.kind = "write" /\ o.entry = e /\ o.n = n /\ o.at = "node"
  <2>1. b \in Nat \cup {None}
    BY <1>3, <1>b, TextIs DEF Typed
  <2> QED BY <1>1, <1>e, <1>n, <1>o, <2>1, OpType DEF Requests, Writes
<1>s. PICK s : s = spill[e]
  OBVIOUS
<1>t. PICK t : t = FileText(e)
  OBVIOUS
<1>5. s \in Texts /\ t \in Texts /\ Below(s, n) /\ Below(t, n) /\ Sorted(s) /\ Sorted(t) /\ t = file[e].text
      /\ Below(said[e], n)
  BY <1>1, <1>2, <1>3, <1>e, <1>n, <1>s, <1>t DEF Later, Typed, StreamOf
<1>6. \A u \in Texts : Below(u, n) => /\ Append(u, n) = u \o <<n>> /\ Append(u, n) \in Texts
                                      /\ Below(Append(u, n), writes + 1) /\ (Sorted(u) => Sorted(Append(u, n)))
  <2> SUFFICES ASSUME NEW u \in Texts, Below(u, n)
               PROVE  /\ Append(u, n) = u \o <<n>> /\ Append(u, n) \in Texts
                      /\ Below(Append(u, n), writes + 1) /\ (Sorted(u) => Sorted(Append(u, n)))
    OBVIOUS
  <2>m. PICK m : m = writes + 1
    OBVIOUS
  <2>1. m \in Nat /\ n < m
    BY <1>3, <2>m
  <2>p. PICK p : p = <<n>>
    OBVIOUS
  <2>2. Below(u \o p, m) /\ (Sorted(u) => Sorted(u \o p))
    BY <1>2, <2>1, <2>p, PartGrows
  <2> QED BY <1>2, <2>m, <2>p, <2>2, AppendIs
<1>7. /\ file'[e] # None /\ file'[e].inline = file[e].inline
      /\ FileText(e)' = IF file[e].inline THEN t \o <<n>> ELSE t
      /\ spill'[e] = IF file[e].inline THEN s ELSE s \o <<n>>
      /\ \A x \in Entries : x # e => file'[x] = file[x] /\ spill'[x] = spill[x]
      /\ FileText(e)' \in Texts /\ spill'[e] \in Texts
  <2>1. CASE file[e].inline
    <3>f. PICK f : f = [file[e] EXCEPT !.text = Append(@, n)]
      OBVIOUS
    <3>1. file' = [file EXCEPT ![e] = f] /\ DOMAIN file = Entries /\ file[e] \in Files /\ spill' = spill
      BY <1>1, <1>2, <1>3, <2>1, <3>f DEF TypeOK, DiskType, Typed
    <3>2. f.text = Append(t, n) /\ f.inline = file[e].inline /\ f \in Files
      BY <1>5, <1>6, <3>1, <3>f DEF Files
    <3> QED BY <1>2, <1>5, <1>6, <1>s, <2>1, <3>1, <3>2, NoneAssumption DEF FileText
  <2>2. CASE ~file[e].inline
    <3>1. spill' = [spill EXCEPT ![e] = Append(s, n)] /\ DOMAIN spill = Entries /\ file' = file
      BY <1>1, <1>s, <2>2 DEF TypeOK, DiskType
    <3> QED BY <1>2, <1>5, <1>6, <1>t, <2>2, <3>1 DEF FileText
  <2> QED BY <2>1, <2>2
<1>8. /\ Below(FileText(e)', writes + 1) /\ Below(spill'[e], writes + 1) /\ Sorted(FileText(e)') /\ Sorted(spill'[e])
  BY <1>3, <1>5, <1>6, <1>7, <1>s, <1>t DEF NumbersOf
<1>9. NumbersOf(e)' /\ StreamOf(e)'
  BY <1>1, <1>2, <1>3, <1>7, <1>8, <1>t, <1>5 DEF NumbersOf, StreamOf, FileText
<1>10. Later(o)' /\ Unheld(o)'
  BY <1>1, <1>4, <1>5 DEF Later, Unheld, Writes
<1>11. Reaches(e, OnDisk(e)', safe[e])
  <2>1. OnDisk(e) \in Texts /\ Reaches(e, OnDisk(e), safe[e]) /\ <<n>> \in Texts
    BY <1>1, <1>2, DiskShows, OnDiskText, TextsClosed
  <2>2. OnDisk(e)' = OnDisk(e) \o <<n>>
    <3>1. OnDisk(e)' = file'[e].text \o (IF file'[e].inline THEN <<>> ELSE spill'[e])
      BY <1>1, <1>2, <1>7, NothingHeldType DEF OnDisk, Shown
    <3>2. file'[e].text = FileText(e)'
      BY <1>7 DEF FileText
    <3>3. CASE file[e].inline
      <4>1. OnDisk(e)' = (t \o <<n>>) \o <<>> /\ OnDisk(e) = t
        BY <1>2, <1>7, <1>t, <3>1, <3>2, <3>3, OnDiskText
      <4>2. \A u \in Texts : u \o <<>> = u
        BY DEF Texts
      <4> QED BY <1>5, <2>1, <4>1, <4>2, TextsClosed
    <3>4. CASE ~file[e].inline
      <4>1. OnDisk(e)' = t \o (s \o <<n>>) /\ OnDisk(e) = t \o s
        BY <1>2, <1>7, <1>s, <1>t, <3>1, <3>2, <3>4, OnDiskText
      <4>2. PICK p : p = <<n>>
        OBVIOUS
      <4>3. p \in Texts /\ (t \o s) \o p = t \o (s \o p)
        BY <1>5, <2>1, <4>2, JoinTwice
      <4> QED BY <4>1, <4>2, <4>3
    <3> QED BY <3>3, <3>4
  <2> QED BY <1>2, <1>3, <2>1, <2>2, ReachesJoin
<1>12. Reaches(e, said'[e], safe'[e])
  BY <1>1, <1>2 DEF SafeInv, SafeSaid
<1>13. ASSUME NEW c \in Recorded PROVE FitOK(e, KeptOf(c, e))' /\ Beside(e, KeptOf(c, e))'
  <2>r. PICK r : r = KeptOf(c, e)
    OBVIOUS
  <2>1. FitOK(e, r) /\ Beside(e, r) /\ RestOK(e, r) /\ r \in Held \cup {None}
    BY <1>2, <1>3, <2>r, StoreTypes DEF SafeInv, FitsInv, BesideOf, RestsInv
  <2>2. CASE r = None
    BY <1>1, <2>r, <2>2 DEF FitOK, Beside, KeptOf
  <2>3. CASE r # None
    <3>1. file[e].inline /\ (r.plan.inline => r.plan.base < Len(t)) /\ Fits(e, r.plan)
      BY <1>2, <1>3, <1>t, <2>1, <2>3 DEF Beside, FitOK
    <3>2. r.plan.base \in Nat /\ Len(t) \in Nat /\ DOMAIN t = 1 .. Len(t)
      BY <1>2, <1>5, <2>1, <2>3, PlanTypes, TextIs DEF RestOK
    <3>u. PICK u : u = t \o <<n>>
      OBVIOUS
    <3>3. u \in Texts /\ Len(u) = Len(t) + 1 /\ DOMAIN u = 1 .. Len(u) /\ \A i \in 1 .. Len(t) : u[i] = t[i]
      <4>1. u = Append(t, n)
        BY <1>2, <1>5, <3>u, AppendIs
      <4>2. u \in Texts
        BY <1>2, <1>5, <4>1, TextsClosed
      <4>3. Len(u) = Len(t) + 1 /\ \A i \in 1 .. Len(t) : u[i] = t[i]
        BY <1>2, <1>5, <4>1, AppendIs
      <4> QED BY <4>2, <4>3, TextIs
    <3>4. FileText(e)' = u /\ spill'[e] = spill[e]
      BY <1>7, <1>s, <3>1, <3>u
    <3>5. Fits(e, r.plan)'
      <4>1. CASE r.plan.inline
        <5>1. BelowTo(t, r.plan.base, r.plan.stamp)
          BY <1>t, <3>1, <4>1 DEF Fits
        <5>2. \A i \in DOMAIN u : i <= r.plan.base => i \in DOMAIN t /\ u[i] = t[i]
          BY <3>1, <3>2, <3>3, <4>1
        <5>3. BelowTo(u, r.plan.base, r.plan.stamp)
          BY <1>5, <3>2, <3>3, <5>1, <5>2, BelowToBegins
        <5> QED BY <3>4, <4>1, <5>3 DEF Fits
      <4>2. CASE ~r.plan.inline
        BY <3>1, <3>4, <4>2 DEF Fits
      <4> QED BY <4>1, <4>2
    <3>6. r.plan.inline => r.plan.base < Len(u)
      BY <3>1, <3>2, <3>3
    <3>7. FitOK(e, r)' /\ Beside(e, r)'
      BY <1>1, <1>2, <1>7, <3>1, <3>4, <3>5, <3>6 DEF FitOK, Beside
    <3> QED BY <1>1, <2>r, <3>7 DEF FitOK, Beside, Fits, Stamped, Free, KeptOf
  <2> QED BY <2>2, <2>3
<1>14. FitOK(e, held.retained[e])' /\ BesideOf(e)'
  <2>1. Recorded' = Recorded
    BY <1>1 DEF Recorded
  <2> QED BY <1>1, <1>2, <1>13, <2>1 DEF FitOK, BesideOf, HeldFits
<1>15. Settled(e)
  BY <1>1, <1>e DEF Settled, Touches, Writes
<1> QED BY <1>1, <1>2, <1>4, <1>7, <1>9, <1>10, <1>11, <1>12, <1>13, <1>14, <1>15, EntrySafe
-----------------------------------------------------------------------------
(* A write is answered, or its words are put into the journal.             *)

\* Every other piece is as it was, and the new one was meant.
LEMMA SaidIs ==
  ASSUME StoreViewInv, SafeInv, phase = "up", queue # <<>>, Writes(Op), Op.at \in {"node", "journal", "put"},
         Say(Op.entry, Op.n)
  PROVE  /\ Op.entry \in Entries /\ \A x \in Entries : x # Op.entry => said'[x] = said[x] /\ Meant(x) = said[x]
         /\ said[Op.entry] # None /\ said'[Op.entry] = Meant(Op.entry) /\ Meant(Op.entry) \in Texts
         /\ \A x \in Entries : said[x] = None <=> said'[x] = None
         /\ \A x \in Entries : said'[x] = Meant(x)
         /\ ~held.closed /\ Below(said'[Op.entry], writes + 1)
<1>1. /\ Op.entry \in Entries /\ said[Op.entry] # None /\ Op.n \in 1 .. writes /\ Op.n \in Pieces
      /\ said[Op.entry] \in Texts
  BY WriteFacts
<1>2. said' = [said EXCEPT ![Op.entry] = Meant(Op.entry)] /\ DOMAIN said = Entries
  BY DEF Say, Meant, Shows, Writes, StoreViewInv, TypeOK, ToldType
<1>3. Meant(Op.entry) \in Texts
  BY <1>1, MeantReaches
<1>4. \A x \in Entries : x # Op.entry => said'[x] = said[x] /\ Meant(x) = said[x]
  BY <1>1, <1>2 DEF Meant, Shows
<1>5. said'[Op.entry] = Meant(Op.entry) /\ said'[Op.entry] # None
  BY <1>1, <1>2, <1>3, NoneAssumption
<1>6. ~held.closed
  BY DEF StoreViewInv, StageInv, WriteStage, Begun
<1>7. Below(Meant(Op.entry), writes + 1)
  <2>m. PICK m : m = writes + 1
    OBVIOUS
  <2>n. PICK n : n = Op.n
    OBVIOUS
  <2>s. PICK s : s = said[Op.entry]
    OBVIOUS
  <2>1. m \in Nat /\ n \in Pieces /\ n < m /\ s \in Texts /\ Below(s, m)
    <3>1. writes \in Nat /\ NumbersOf(Op.entry)
      BY <1>1, StoreTypes DEF SafeInv, NumbersInv
    <3> QED BY <1>1, <2>m, <2>n, <2>s, <3>1 DEF NumbersOf
  <2>2. Below(<<n>>, m) /\ <<n>> \in Texts /\ Append(s, n) = s \o <<n>>
    BY <2>1, BelowOne, AppendIs
  <2>3. Below(Append(s, n), m)
    BY <2>1, <2>2, BelowJoin
  <2>4. Meant(Op.entry) \in {Append(s, n), <<n>>}
    BY <2>n, <2>s DEF Meant, Shows, Writes
  <2> QED BY <2>m, <2>2, <2>3, <2>4
<1> QED BY <1>1, <1>3, <1>4, <1>5, <1>6, <1>7

LEMMA SaidFrame ==
  ASSUME StoreViewInv, SafeInv, phase = "up", queue # <<>>, Writes(Op), Op.at \in {"node", "journal", "put"},
         Say(Op.entry, Op.n), Ends, safe' \in {said', safe},
         UNCHANGED <<file, spill, held, archive, phase, failing, writes>>
  PROVE  /\ NumbersInv' /\ LaterInv' /\ StreamInv' /\ SafeSaid' /\ DownInv' /\ EndInv'
         /\ \A x \in Entries : said'[x] # None => Reaches(x, said'[x], said'[x])
<1>1. /\ Op.entry \in Entries /\ \A x \in Entries : x # Op.entry => said'[x] = said[x]
      /\ said[Op.entry] # None /\ said'[Op.entry] = Meant(Op.entry) /\ Meant(Op.entry) \in Texts
      /\ \A x \in Entries : said[x] = None <=> said'[x] = None
      /\ ~held.closed /\ Below(said'[Op.entry], writes + 1)
  BY SaidIs
<1>2. \A x \in Entries : said'[x] # None => said'[x] \in Texts /\ (x \notin Stream => Numeric(said'[x]))
  <2> SUFFICES ASSUME NEW x \in Entries, said'[x] # None
               PROVE  said'[x] \in Texts /\ (x \notin Stream => Numeric(said'[x]))
    OBVIOUS
  <2>1. CASE x = Op.entry
    BY <1>1, <2>1, MeantReaches
  <2>2. CASE x # Op.entry
    <3>1. said'[x] = said[x] /\ NumbersOf(x) /\ Typed(x)
      BY <1>1, <2>2, StoreTypes DEF SafeInv, NumbersInv
    <3> QED BY <3>1 DEF NumbersOf, Typed
  <2> QED BY <2>1, <2>2
<1>3. \A x \in Entries : said'[x] # None => Reaches(x, said'[x], said'[x])
  BY <1>2, ReachesSame
<1>4. NumbersInv'
  <2> SUFFICES ASSUME NEW x \in Entries PROVE NumbersOf(x)'
    BY DEF NumbersInv
  <2>1. NumbersOf(x) /\ FileText(x)' = FileText(x)
    BY DEF SafeInv, NumbersInv, FileText
  <2>2. said'[x] # None => Below(said'[x], writes + 1)
    BY <1>1, <2>1 DEF NumbersOf
  <2>3. CASE safe' = said'
    BY <1>2, <2>1, <2>2, <2>3 DEF NumbersOf
  <2>4. CASE safe' = safe
    BY <1>1, <1>2, <2>1, <2>2, <2>4 DEF NumbersOf
  <2> QED BY <2>3, <2>4
<1>5. LaterInv' /\ \A i \in DOMAIN queue' : Unheld(queue[i])'
  <2>1. \A x \in Entries : Settled(x)
    BY <1>1 DEF Settled, FileText, Touches, Writes
  <2> QED BY <2>1, NobodyElse
<1>6. StreamInv'
  BY DEF SafeInv, StreamInv, StreamOf, FileText
<1>7. SafeSaid'
  <2> SUFFICES ASSUME NEW x \in Entries, said'[x] # None PROVE Reaches(x, said'[x], safe'[x])
    BY DEF SafeSaid
  <2>1. CASE safe' = said'
    BY <1>3, <2>1
  <2>2. CASE safe' = safe
    <3>1. Reaches(x, said[x], safe[x]) /\ (x = Op.entry => Reaches(x, Meant(x), safe[x]))
      BY <1>1, MeantReaches DEF SafeInv, SafeSaid
    <3> QED BY <1>1, <2>2, <3>1
  <2> QED BY <2>1, <2>2
<1>8. DownInv' /\ EndInv'
  BY <1>1, <1>5 DEF DownInv, EndInv
<1> QED BY <1>3, <1>4, <1>5, <1>6, <1>7, <1>8

\* Steps that leave the files, what is held and the journal alone.
LEMMA ShapesFrame ==
  ASSUME StoreViewInv, SafeInv, UNCHANGED <<file, spill, held, promised, attempted, phase, writes>>
  PROVE  RestsInv' /\ FitsInv' /\ BesideInv'
<1>1. RestsInv'
  <2>1. writes' \in Nat /\ writes <= writes'
    BY StoreTypes
  <2> QED BY <2>1, RestsFrame DEF SafeInv
<1>2. FitsInv'
  BY DEF SafeInv, FitsInv, FitOK, Fits, Stamped, Free, KeptOf, Recorded, FileText
<1>3. BesideInv'
  BY DEF SafeInv, BesideInv, BesideOf, HeldFits, Beside, Stamped, Free, KeptOf, Recorded, FileText
<1> QED BY <1>1, <1>2, <1>3

LEMMA NodeSavedSafe ==
  ASSUME StoreViewInv, SafeInv, NodeSaved
  PROVE  SafeInv'
<1>1. /\ phase = "up" /\ queue # <<>> /\ Writes(Op) /\ Op.at = "node" /\ Ends /\ Say(Op.entry, Op.n) /\ safe' = said'
      /\ UNCHANGED <<file, spill, held, archive, promised, attempted, visible, stray, phase, failing, writes>>
  BY DEF NodeSaved, Running, Op, Writes, archives, journal
<1>2. ~held.closed /\ ~failing
  BY <1>1 DEF StoreViewInv, StageInv, WriteStage, Begun
<1>3. JournalInv'
  BY <1>1 DEF SafeInv, JournalInv, Live, KeptOf
<1>4. DiskReaches'
  <2> SUFFICES ASSUME NEW x \in Entries, said'[x] # None PROVE Reaches(x, OnDisk(x)', safe'[x])
    BY DEF DiskReaches
  <2>1. said[x] # None /\ said'[x] = Meant(x) /\ Reaches(x, said'[x], said'[x])
    BY <1>1, SaidIs, SaidFrame
  <2>2. OnDisk(x) = Meant(x)
    BY <1>1, <1>2, <2>1, DiskShows, NothingIsHeld
  <2>3. OnDisk(x)' = OnDisk(x)
    BY <1>1 DEF OnDisk, Shown, Materialized, Prefix
  <2> QED BY <1>1, <2>1, <2>2, <2>3
<1> QED BY <1>1, <1>3, <1>4, SaidFrame, ShapesFrame DEF SafeInv

LEMMA HoldUnsafeSafe ==
  ASSUME StoreViewInv, SafeInv, HoldUnsafe
  PROVE  SafeInv'
<1>1. /\ phase = "up" /\ queue # <<>> /\ Writes(Op) /\ Op.at \in {"journal", "put"} /\ Ends /\ Say(Op.entry, Op.n)
      /\ UNCHANGED <<file, spill, held, archive, promised, attempted, visible, stray, phase, failing, writes, safe>>
  BY DEF HoldUnsafe, Running, Op, Writes, archives, journal, disk
<1>2. JournalInv'
  BY <1>1 DEF SafeInv, JournalInv, Live, KeptOf
<1>3. DiskReaches'
  <2>1. \A x \in Entries : said[x] = None <=> said'[x] = None
    BY <1>1, SaidIs
  <2> QED BY <1>1, <2>1 DEF SafeInv, DiskReaches, Live, KeptOf, OnDisk, Shown, Materialized, Prefix
<1> QED BY <1>1, <1>2, <1>3, SaidFrame, ShapesFrame DEF SafeInv

LEMMA HoldSafeSafe ==
  ASSUME StoreViewInv, SafeInv, HoldSafe
  PROVE  SafeInv'
<1>r. PICK r : r = Record
  OBVIOUS
<1>1. /\ phase = "up" /\ queue # <<>> /\ Writes(Op) /\ Op.at = "put" /\ Ends /\ Say(Op.entry, Op.n) /\ safe' = said'
      /\ promised' = r /\ visible' = r /\ attempted' = {} /\ stray' = {}
      /\ UNCHANGED <<file, spill, held, archive, phase, failing, writes>>
  BY <1>r DEF HoldSafe, Running, Op, Writes, archives, disk, Journal!AcknowledgeOf
<1>2. r # None /\ r.retained = held.retained
  BY <1>1, <1>r, RecordIs
<1>3. failing
  BY <1>1, WriteFacts, NothingIsHeld DEF StoreViewInv, StageInv, WriteStage, Begun, TypeOK, MemoryType
<1>4. Live' = {r} /\ Recorded' = {r} /\ \A x \in Entries : KeptOf(r, x)' = held.retained[x]
  BY <1>1, <1>2 DEF Live, Recorded, KeptOf
<1>5. JournalInv'
  BY <1>1, <1>2, <1>3, <1>4 DEF JournalInv, KeptOf
<1>6. ~Free' /\ BesideInv'
  BY <1>1, <1>2 DEF Free, BesideInv
<1>7. RestsInv'
  BY <1>1, <1>4 DEF SafeInv, RestsInv, RestOK, KeptOf
<1>8. FitsInv'
  <2>1. ASSUME NEW x \in Stream, NEW q, FitOK(x, q) PROVE FitOK(x, q)'
    BY <1>1, <1>6, <2>1 DEF FitOK, Fits, Stamped, FileText
  <2>2. ASSUME NEW x \in Stream PROVE FitOK(x, held.retained[x])'
    <3>1. PICK q : q = held.retained[x]
      OBVIOUS
    <3>2. FitOK(x, q)'
      BY <2>1, <3>1 DEF SafeInv, FitsInv
    <3> QED BY <1>1, <3>1, <3>2 DEF FitOK, Fits, Stamped, Free
  <2>3. ASSUME NEW x \in Stream PROVE FitOK(x, KeptOf(r, x))'
    <3>1. KeptOf(r, x)' = held'.retained[x]
      BY <1>1, <1>4, StreamsAreEntries
    <3> QED BY <2>2, <3>1 DEF FitOK, Fits, Stamped, Free
  <2> QED BY <1>4, <2>2, <2>3 DEF FitsInv
<1>9. DiskReaches'
  <2> SUFFICES ASSUME NEW x \in Entries, said'[x] # None, held.retained[x] = None
               PROVE  Reaches(x, OnDisk(x)', safe'[x])
    BY <1>1, <1>4 DEF DiskReaches, KeptOf
  <2>1. said[x] # None /\ said'[x] = Meant(x) /\ Reaches(x, said'[x], said'[x]) /\ ~held.closed
    BY <1>1, SaidIs, SaidFrame
  <2>2. OnDisk(x) = Meant(x)
    BY <1>1, <2>1, DiskShows
  <2>3. OnDisk(x)' = OnDisk(x)
    BY <1>1 DEF OnDisk, Shown, Materialized, Prefix
  <2> QED BY <1>1, <2>1, <2>2, <2>3
<1> QED BY <1>1, <1>5, <1>6, <1>7, <1>8, <1>9, SaidFrame DEF SafeInv

\* The journal is asked to keep what is held, or nothing.
LEMMA AttemptSafe ==
  ASSUME StoreViewInv, SafeInv, phase = "up", failing, queue # <<>>, NEW c, c = None \/ c.retained = held.retained,
         attempted' = attempted \cup {c},
         \E o \in Requests : queue' = <<o>> \o Tail(queue) /\ Later(o)' /\ Unheld(o)',
         UNCHANGED <<node, file, spill, archive, promised, visible, stray, phase, held, failing, writes, said, safe>>,
         \A x \in Entries : ~held.closed /\ said[x] # None /\ KeptOf(c, x) = None => Reaches(x, OnDisk(x), safe[x])
  PROVE  SafeInv'
<1>1. /\ Live' \subseteq Live \cup {c} /\ Recorded' = Recorded \cup {c} /\ \A d, x : KeptOf(d, x)' = KeptOf(d, x)
      /\ \A x \in Entries : KeptOf(c, x) \in {None, held.retained[x]}
  BY DEF Live, Recorded, KeptOf
<1>2. JournalInv'
  <2>1. \A d \in Live' : \A x \in Entries : KeptOf(d, x) \in {None, held.retained[x]}
    BY <1>1 DEF SafeInv, JournalInv
  <2> QED BY <1>1, <2>1 DEF SafeInv, JournalInv, KeptOf
<1>3. LaterInv' /\ \A i \in DOMAIN queue' : Unheld(queue[i])'
  <2>1. \A x \in Entries : Settled(x)
    BY DEF Settled, FileText
  <2> QED BY <2>1, NobodyElse
<1>4. NumbersInv' /\ StreamInv' /\ SafeSaid' /\ DownInv' /\ EndInv'
  <2>1. writes' \in Nat /\ writes <= writes'
    BY StoreTypes
  <2>2. NumbersInv'
    BY <2>1, NumbersFrame DEF SafeInv
  <2> QED BY <1>3, <2>2 DEF SafeInv, StreamInv, StreamOf, FileText, SafeSaid, DownInv, EndInv
<1>5. RestsInv'
  <2>1. \A x \in Entries : RestOK(x, held.retained[x]) /\ (RestOK(x, held.retained[x]))'
    BY DEF SafeInv, RestsInv, RestOK
  <2>2. ASSUME NEW d \in Recorded', NEW x \in Entries PROVE RestOK(x, KeptOf(d, x))'
    <3>1. RestOK(x, KeptOf(d, x))
      <4>1. RestOK(x, None)
        BY DEF RestOK
      <4> QED BY <1>1, <2>1, <4>1 DEF SafeInv, RestsInv
    <3> QED BY <3>1 DEF RestOK, KeptOf
  <2> QED BY <2>1, <2>2 DEF RestsInv
<1>6. FitsInv'
  <2>1. \A x \in Stream : FitOK(x, held.retained[x]) /\ (FitOK(x, held.retained[x]))'
    BY DEF SafeInv, FitsInv, FitOK, Fits, Stamped, Free, FileText
  <2>2. ASSUME NEW d \in Recorded', NEW x \in Stream PROVE FitOK(x, KeptOf(d, x))'
    <3>1. FitOK(x, KeptOf(d, x))
      <4>1. FitOK(x, None) /\ x \in Entries
        BY StreamsAreEntries DEF FitOK
      <4> QED BY <1>1, <2>1, <4>1 DEF SafeInv, FitsInv
    <3> QED BY <3>1 DEF FitOK, KeptOf, Fits, Stamped, Free, FileText
  <2> QED BY <2>1, <2>2 DEF FitsInv
<1>7. BesideInv'
  <2> SUFFICES ASSUME Free, ~held.closed, NEW x \in Stream PROVE BesideOf(x)'
    BY DEF BesideInv, Free
  <2>1. BesideOf(x) /\ x \in Entries
    BY StreamsAreEntries DEF SafeInv, BesideInv
  <2>2. ASSUME NEW d \in Recorded' PROVE Beside(x, KeptOf(d, x))'
    <3>1. Beside(x, KeptOf(d, x))
      <4>1. Beside(x, None) /\ Beside(x, held.retained[x])
        BY DEF Beside
      <4> QED BY <1>1, <2>1, <4>1 DEF BesideOf
    <3> QED BY <3>1 DEF Beside, KeptOf, FileText
  <2> QED BY <2>1, <2>2 DEF BesideOf, HeldFits, Stamped, FileText
<1>8. DiskReaches'
  <2> SUFFICES ASSUME ~held.closed, NEW d \in Live', NEW x \in Entries, said[x] # None, KeptOf(d, x) = None
               PROVE  Reaches(x, OnDisk(x)', safe[x])
    BY <1>1 DEF DiskReaches
  <2>1. Reaches(x, OnDisk(x), safe[x])
    BY <1>1 DEF SafeInv, DiskReaches
  <2>2. OnDisk(x)' = OnDisk(x)
    BY DEF OnDisk, Shown, Materialized, Prefix
  <2> QED BY <2>1, <2>2
<1> QED BY <1>2, <1>3, <1>4, <1>5, <1>6, <1>7, <1>8 DEF SafeInv

LEMMA HoldRecordedSafe ==
  ASSUME StoreViewInv, SafeInv, HoldRecorded
  PROVE  SafeInv'
<1>c. PICK c : c = Record
  OBVIOUS
<1>1. /\ phase = "up" /\ queue # <<>> /\ Writes(Op) /\ Op.at = "journal" /\ Goes("put") /\ attempted' = attempted \cup {c}
      /\ UNCHANGED <<node, file, spill, archive, promised, visible, stray, phase, held, failing, writes, said, safe>>
  BY <1>c DEF HoldRecorded, Running, Op, Writes, archives, disk, told, Journal!AttemptOf
<1>2. c # None /\ c.retained = held.retained
  BY <1>1, <1>c, RecordIs
<1>3. failing /\ ~held.closed
  BY <1>1, WriteFacts, NothingIsHeld DEF StoreViewInv, StageInv, WriteStage, Begun, TypeOK, MemoryType
<1>o. PICK o : o = [Op EXCEPT !.at = "put"]
  OBVIOUS
<1>4. o \in Requests /\ o.kind = Op.kind /\ o.entry = Op.entry /\ o.n = Op.n /\ o.at = "put"
  BY <1>1, <1>o, OpAt DEF StoreViewInv
<1>5. Later(o)' /\ Unheld(o)' /\ queue' = <<o>> \o Tail(queue)
  BY <1>1, <1>4, <1>o, OpLater DEF Unheld, Writes, Goes
<1>6. ASSUME NEW x \in Entries, said[x] # None, KeptOf(c, x) = None PROVE Reaches(x, OnDisk(x), safe[x])
  BY <1>1, <1>2, <1>3, <1>6, DiskShows DEF KeptOf
<1> QED BY <1>1, <1>2, <1>3, <1>4, <1>5, <1>6, AttemptSafe
-----------------------------------------------------------------------------
(* A retry.                                                                *)

LEMMA RetryFacts ==
  ASSUME StoreViewInv, SafeInv, phase = "up", queue # <<>>, IsRetry(Op), Begun(Op)
  PROVE  /\ \A e \in Entries : held.retained[e] # None /\ e \notin Op.left => Made(e)
         /\ Op.at = "unlink" => Op.entry \in Entries /\ held.retained[Op.entry] # None /\ Made(Op.entry)
         /\ \A e \in Op.left : e \in Entries /\ held.retained[e] # None
         /\ \A e \in Entries : Meant(e) = said[e] /\ (held.retained[e] # None => ~held.closed)
<1>1. RetryStage
  BY DEF StoreViewInv, StageInv
<1>2. \A e \in Entries : held.retained[e] # None => ~held.closed
  BY NothingIsHeld, OpenWhile
<1>3. \A e : Meant(e) = said[e]
  BY NotMeant DEF IsRetry, Writes
<1> QED BY <1>1, <1>2, <1>3 DEF RetryStage, Holding

LEMMA RetryClearsSafe ==
  ASSUME StoreViewInv, SafeInv, RetryClears
  PROVE  SafeInv'
<1>1. /\ phase = "up" /\ queue # <<>> /\ IsRetry(Op) /\ Begun(Op) /\ Op.left = {} /\ visible # None
      /\ Goes("remove") /\ attempted' = attempted \cup {None}
      /\ UNCHANGED <<node, file, spill, archive, promised, visible, stray, phase, held, failing, writes, said, safe>>
  BY DEF RetryClears, Running, Op, IsRetry, Begun, archives, disk, told, Journal!AttemptOf
<1>2. failing
  BY <1>1 DEF SafeInv, JournalInv, StoreViewInv, TypeOK, MemoryType
<1>o. PICK o : o = [Op EXCEPT !.at = "remove"]
  OBVIOUS
<1>3. o \in Requests /\ o.kind = "retry"
  BY <1>1, <1>o, OpAt DEF StoreViewInv, IsRetry
<1>4. Later(o)' /\ Unheld(o)' /\ queue' = <<o>> \o Tail(queue)
  BY <1>1, <1>3, <1>o DEF Later, Unheld, Writes, Goes
<1>5. ASSUME NEW x \in Entries, ~held.closed, said[x] # None PROVE Reaches(x, OnDisk(x), safe[x])
  <2>1. held.retained[x] = None \/ Made(x)
    BY <1>1, RetryFacts
  <2> QED BY <1>1, <1>5, <2>1, DiskShows
<1>6. PICK c : c = None
  OBVIOUS
<1> QED BY <1>1, <1>2, <1>3, <1>4, <1>5, <1>6, AttemptSafe

LEMMA RetryUnlinksSafe ==
  ASSUME StoreViewInv, SafeInv, RetryUnlinks
  PROVE  SafeInv'
<1>e. PICK e : e = Op.entry
  OBVIOUS
<1>o. PICK o : o = [Op EXCEPT !.at = "entries", !.left = @ \ {Op.entry}]
  OBVIOUS
<1>1. /\ phase = "up" /\ queue # <<>> /\ IsRetry(Op) /\ Begun(Op) /\ Op.at = "unlink" /\ TypeOK
      /\ spill' = [spill EXCEPT ![e] = <<>>] /\ queue' = <<o>> \o Tail(queue)
      /\ UNCHANGED <<node, file, archive, promised, attempted, visible, stray, phase, held, failing, writes, said, safe>>
  BY <1>e, <1>o DEF RetryUnlinks, Running, Op, IsRetry, Begun, archives, journal, told, StoreViewInv
<1>2. e \in Entries /\ held.retained[e] # None /\ Made(e) /\ ~held.closed
  BY <1>1, <1>e, RetryFacts
<1>3. spill'[e] = <<>> /\ \A x \in Entries : x # e => spill'[x] = spill[x]
  BY <1>1, <1>2 DEF TypeOK, DiskType
<1>4. o \in Requests /\ o.kind = "retry"
  <2>1. Op \in Requests /\ Op.left \ {Op.entry} \in SUBSET Entries
    BY <1>1, OpType DEF Requests
  <2> QED BY <1>1, <1>o, <2>1 DEF Requests, IsRetry
<1>5. Later(o)' /\ Unheld(o)'
  BY <1>4 DEF Later, Unheld, Writes
<1>6. NumbersOf(e)' /\ Reaches(e, OnDisk(e), OnDisk(e)) /\ FileText(e)' = FileText(e)
      /\ (said[e] # None => Reaches(e, said[e], safe[e]))
  <2>1. NumbersOf(e) /\ FileText(e)' = FileText(e) /\ Typed(e)
    BY <1>1, <1>2, StoreTypes DEF SafeInv, NumbersInv, FileText
  <2>2. OnDisk(e) = FileText(e) /\ OnDisk(e) \in Texts
    BY <1>2, OnDiskText DEF Made
  <2>3. NumbersOf(e)'
    BY <1>1, <1>3, <2>1, BelowNone DEF NumbersOf
  <2>4. Reaches(e, OnDisk(e), OnDisk(e))
    BY <2>1, <2>2, ReachesSame DEF NumbersOf
  <2> QED BY <1>2, <2>1, <2>3, <2>4 DEF SafeInv, SafeSaid
<1>7. OnDisk(e)' = OnDisk(e)
  BY <1>1, <1>2, NothingHeldType DEF OnDisk, Shown, Made
<1>8. said[e] # None => Reaches(e, OnDisk(e)', safe[e])
  BY <1>1, <1>2, <1>7, DiskShows
<1>9. ASSUME e \in Stream
      PROVE  StreamOf(e)' /\ FitOK(e, held.retained[e])' /\ \A c \in Recorded : FitOK(e, KeptOf(c, e))'
  <2>1. StreamOf(e)'
    <3>1. StreamOf(e)
      BY <1>9 DEF SafeInv, StreamInv
    <3> QED BY <1>1, <1>3, <1>6, <3>1, BelowNone DEF StreamOf
  <2>2. ASSUME NEW r, FitOK(e, r) PROVE FitOK(e, r)'
    <3>1. ASSUME NEW p, Fits(e, p) PROVE Fits(e, p)'
      <4>1. \A b, m : BelowTo(<<>>, b, m)
        BY DEF BelowTo
      <4> QED BY <1>3, <1>6, <3>1, <4>1 DEF Fits
    <3> QED BY <1>1, <2>2, <3>1 DEF FitOK, Stamped, Free
  <2>3. FitOK(e, held.retained[e])'
    <3>1. PICK r : r = held.retained[e]
      OBVIOUS
    <3>2. FitOK(e, r)'
      BY <1>9, <2>2, <3>1 DEF SafeInv, FitsInv
    <3> QED BY <1>1, <3>1, <3>2 DEF FitOK, Fits, Stamped, Free
  <2>4. ASSUME NEW c \in Recorded PROVE FitOK(e, KeptOf(c, e))'
    <3>1. FitOK(e, KeptOf(c, e))
      BY <1>9 DEF SafeInv, FitsInv
    <3>2. PICK r : r = KeptOf(c, e)
      OBVIOUS
    <3>3. FitOK(e, r)'
      BY <2>2, <3>1, <3>2
    <3> QED BY <3>2, <3>3 DEF FitOK, Fits, Stamped, Free, KeptOf
  <2> QED BY <2>1, <2>3, <2>4
<1>10. e \in Stream /\ Free => BesideOf(e)'
  <2>1. e \in Stream /\ Free => BesideOf(e)
    BY <1>2 DEF SafeInv, BesideInv
  <2> QED BY <1>1, <1>6, <2>1 DEF BesideOf, HeldFits, Beside, Stamped, KeptOf, Recorded
<1>11. Settled(e)
  BY <1>2 DEF Settled
<1> QED BY <1>1, <1>2, <1>3, <1>4, <1>5, <1>6, <1>8, <1>9, <1>10, <1>11, EntrySafe

\* The file made of a plan that keeps a part of it is that part and more.
LEMMA SavedText ==
  ASSUME StoreViewInv, NEW e \in Stream, NEW r \in Held, r # None, RestOK(e, r), ~Stamped(e, r.plan), r.plan.inline,
         r.plan.base <= Len(FileText(e))
  PROVE  LET t == Materialized(e, r).text
         IN  /\ Len(t) = r.plan.base + 1
             /\ \A i \in DOMAIN t : i <= r.plan.base => i \in DOMAIN FileText(e) /\ t[i] = FileText(e)[i]
<1>1. e \in Entries /\ FileText(e) \in Texts /\ r.plan # None
  BY StoreTypes, StreamsAreEntries DEF Typed, RestOK
<1>p. PICK p : p = r.plan
  OBVIOUS
<1>2. p.base \in Nat /\ p.stamp \in Pieces /\ Len(FileText(e)) \in Nat /\ DOMAIN FileText(e) = 1 .. Len(FileText(e))
  BY <1>1, <1>p, PlanTypes, TextIs
<1>k. PICK k : k = Clipped(FileText(e), p.base)
  OBVIOUS
<1>3. k \in Texts /\ Len(k) = p.base /\ \A i \in 1 .. Len(k) : k[i] = FileText(e)[i]
  <2>s. PICK s : s = FileText(e)
    OBVIOUS
  <2>b. PICK b : b = p.base
    OBVIOUS
  <2>1. s \in Texts /\ b \in Nat /\ b <= Len(s)
    BY <1>1, <1>2, <1>p, <2>s, <2>b
  <2>2. k = Clipped(s, b)
    BY <1>k, <2>s, <2>b
  <2>3. Clipped(s, b) \in Texts /\ Len(Clipped(s, b)) = b /\ \A i \in 1 .. Len(Clipped(s, b)) : Clipped(s, b)[i] = s[i]
    BY <2>1, ClipIs
  <2> QED BY <2>s, <2>b, <2>2, <2>3
<1>t. PICK t : t = Append(k, p.stamp)
  OBVIOUS
<1>4. t \in Texts /\ Len(t) = p.base + 1 /\ \A i \in 1 .. Len(k) : t[i] = k[i]
  <2>x. PICK x : x = p.stamp
    OBVIOUS
  <2>1. x \in Pieces /\ t = Append(k, x)
    BY <1>2, <1>t, <2>x
  <2>2. Append(k, x) \in Texts /\ Len(Append(k, x)) = Len(k) + 1 /\ \A i \in 1 .. Len(k) : Append(k, x)[i] = k[i]
    BY <1>3, <2>1, AppendIs
  <2> QED BY <1>3, <2>1, <2>2
<1>5. DOMAIN t = 1 .. Len(t)
  BY <1>4, TextIs
<1>6. Materialized(e, r).text = t
  <2>1. Materialized(e, r).text = MadeText(e, p)
    BY <1>p, MaterializedIs
  <2>2. MadeText(e, p) = k \o <<p.stamp>>
    BY <1>k, <1>p DEF MadeText
  <2> QED BY <1>2, <1>3, <1>t, <2>1, <2>2, AppendIs
<1>7. \A i \in DOMAIN t : i <= p.base => i \in DOMAIN FileText(e) /\ t[i] = FileText(e)[i]
  <2> SUFFICES ASSUME NEW i \in DOMAIN t, i <= p.base PROVE i \in DOMAIN FileText(e) /\ t[i] = FileText(e)[i]
    OBVIOUS
  <2>1. i \in 1 .. Len(k) /\ i \in 1 .. Len(FileText(e))
    BY <1>2, <1>3, <1>4, <1>5, <1>p
  <2> QED BY <1>2, <1>3, <1>4, <2>1
<1> QED BY <1>4, <1>6, <1>7, <1>p

\* What a retry writes for an entry, and what plans keep of it then.
LEMMA SavedNumbers ==
  ASSUME StoreViewInv, SafeInv, NEW e \in Entries, NEW r \in Held, r # None, PlanOK(r), RestOK(e, r),
         e \in Stream => FitOK(e, r)
  PROVE  LET f == Materialized(e, r)
         IN  /\ f \in Files /\ f # None /\ f.inline /\ Below(f.text, writes + 1)
             /\ (e \notin Stream => Numeric(f.text)) /\ (e \in Stream => Sorted(f.text) /\ f.stamp = r.plan.stamp)
<1>1. NumbersOf(e) /\ Typed(e)
  BY StoreTypes DEF SafeInv, NumbersInv
<1>f. PICK f : f = Materialized(e, r)
  OBVIOUS
<1>2. f \in Files /\ f # None /\ f.inline /\ (IF r.plan = None THEN f.text = r.text ELSE f.stamp = r.plan.stamp)
  BY <1>1, <1>f, MadeFile, NoneAssumption DEF StoreViewInv
<1>3. CASE e \notin Stream
  BY <1>1, <1>2, <1>3, <1>f DEF RestOK
<1>4. CASE e \in Stream
  <2>1. r.plan # None /\ StreamOf(e) /\ FitOK(e, r)
    BY <1>4 DEF RestOK, SafeInv, StreamInv
  <2>2. Sorted(f.text)
    BY <1>1, <1>4, <1>f, <2>1, MaterializedSorted DEF FitOK
  <2>3. Below(f.text, writes + 1)
    <3>1. CASE Stamped(e, r.plan)
      <4>1. f = file[e] /\ file[e] # None
        BY <1>1, <1>4, <1>f, <3>1, MaterializedIs DEF Stamped
      <4> QED BY <1>1, <4>1 DEF Typed, NumbersOf
    <3>2. CASE ~Stamped(e, r.plan)
      <4>1. f.text = MadeText(e, r.plan) /\ r.plan.stamp <= writes
        BY <1>1, <1>4, <1>f, <2>1, <3>2, MaterializedIs DEF PlanOK
      <4> QED BY <1>1, <1>4, <2>1, <4>1, MadeTextIs DEF NumbersOf
    <3> QED BY <3>1, <3>2
  <2> QED BY <1>2, <1>4, <1>f, <2>1, <2>2, <2>3
<1> QED BY <1>3, <1>4

LEMMA RetrySavesSafe ==
  ASSUME StoreViewInv, SafeInv, NEW e \in Entries, RetrySaves(e)
  PROVE  SafeInv'
<1>o. PICK o : o = [Op EXCEPT !.at = "unlink", !.entry = e]
  OBVIOUS
<1>r. PICK r : r = held.retained[e]
  OBVIOUS
<1>f. PICK f : f = Materialized(e, r)
  OBVIOUS
<1>1. /\ phase = "up" /\ queue # <<>> /\ IsRetry(Op) /\ Begun(Op) /\ e \in Op.left /\ TypeOK
      /\ file' = [file EXCEPT ![e] = f] /\ queue' = <<o>> \o Tail(queue)
      /\ UNCHANGED <<node, spill, archive, promised, attempted, visible, stray, phase, held, failing, writes, said, safe>>
  BY <1>o, <1>r, <1>f DEF RetrySaves, Running, Op, IsRetry, Begun, archives, journal, told, StoreViewInv
<1>2. r # None /\ ~held.closed /\ Meant(e) = said[e]
  BY <1>1, <1>r, RetryFacts
<1>3. file'[e] = f /\ \A x \in Entries : x # e => file'[x] = file[x]
  BY <1>1 DEF TypeOK, DiskType
<1>4. o \in Requests /\ o.kind = "retry"
  BY <1>1, <1>o, OpType DEF Requests, IsRetry
<1>5. Later(o)' /\ Unheld(o)'
  BY <1>4 DEF Later, Unheld, Writes
<1>6. /\ f \in Files /\ f # None /\ f.inline /\ Below(f.text, writes + 1)
      /\ (e \notin Stream => Numeric(f.text)) /\ (e \in Stream => Sorted(f.text) /\ f.stamp = r.plan.stamp)
      /\ FileText(e)' = f.text /\ f.text \in Texts
  <2>1. r \in Held /\ PlanOK(r) /\ RestOK(e, r) /\ (e \in Stream => FitOK(e, r))
    BY <1>2, <1>r, StoreTypes DEF Typed, StoreViewInv, RecordsInv, SafeInv, RestsInv, FitsInv
  <2>2. /\ f \in Files /\ f # None /\ f.inline /\ Below(f.text, writes + 1)
        /\ (e \notin Stream => Numeric(f.text)) /\ (e \in Stream => Sorted(f.text) /\ f.stamp = r.plan.stamp)
    BY <1>2, <1>f, <2>1, SavedNumbers
  <2>3. f.text \in Texts
    BY <2>2 DEF Files
  <2> QED BY <1>3, <2>2, <2>3 DEF FileText
<1>7. NumbersOf(e)' /\ (said[e] # None => Reaches(e, said[e], safe[e]))
  <2>1. NumbersOf(e)
    BY DEF SafeInv, NumbersInv
  <2> QED BY <1>1, <1>6, <2>1 DEF NumbersOf, SafeInv, SafeSaid
<1>8. said[e] # None => Reaches(e, OnDisk(e)', safe[e])
  <2>1. OnDisk(e)' = f.text
    <3>1. OnDisk(e)' = f.text \o <<>>
      BY <1>3, <1>6, NothingHeldType DEF OnDisk, Shown
    <3> QED BY <1>6, <3>1 DEF Texts
  <2>2. said[e] # None => f.text = Meant(e)
    <3>1. ViewOf(e)
      BY <1>1, <1>2 DEF StoreViewInv, ViewInv
    <3> QED BY <1>2, <1>r, <1>f, <3>1 DEF ViewOf, Shown
  <2> QED BY <2>1, <2>2, MeantReaches
<1>9. Settled(e)
  BY <1>2, <1>r DEF Settled
<1>10. ASSUME e \in Stream
       PROVE  /\ StreamOf(e)' /\ FitOK(e, held.retained[e])' /\ \A c \in Recorded : FitOK(e, KeptOf(c, e))'
              /\ Free => BesideOf(e)'
  <2>1. /\ StreamOf(e) /\ FitOK(e, r) /\ RestOK(e, r) /\ r \in Held /\ r.plan # None /\ Typed(e)
        /\ \A c \in Recorded : FitOK(e, KeptOf(c, e)) /\ RestOK(e, KeptOf(c, e)) /\ KeptOf(c, e) \in Held \cup {None}
        /\ Free => BesideOf(e)
    BY <1>2, <1>10, <1>r, StoreTypes
       DEF SafeInv, StreamInv, FitsInv, RestsInv, BesideInv, RestOK, Typed
  <2>2. StreamOf(e)'
    BY <1>1, <1>3, <1>6, <1>10, <2>1 DEF StreamOf
  <2>3. Stamped(e, r.plan)'
    BY <1>3, <1>6, <1>10 DEF Stamped
  <2>4. /\ r.plan.base \in Nat /\ Len(FileText(e)) \in Nat /\ Len(f.text) \in Nat
    BY <1>6, <2>1, PlanTypes, TextIs DEF Typed
  <2>5. Stamped(e, r.plan) => FileText(e)' = FileText(e)
    BY <1>10, <1>2, <1>f, <1>6, <2>1, MaterializedIs DEF Stamped, FileText
  \* What another plan keeps, or this one, is still as it was.
  <2>6. ASSUME Free, NEW q \in Held, q # None, FitOK(e, q), RestOK(e, q),
               q.plan.inline => r.plan.inline /\ q.plan.base <= r.plan.base
        PROVE  Fits(e, q.plan)'
    <3>1. Fits(e, q.plan) /\ HeldFits(e)
      BY <1>10, <2>1, <2>6 DEF FitOK, BesideOf
    <3>2. CASE ~q.plan.inline
      BY <1>1, <3>1, <3>2 DEF Fits
    <3>3. CASE q.plan.inline /\ Stamped(e, r.plan)
      BY <2>5, <3>1, <3>3 DEF Fits
    <3>4. CASE q.plan.inline /\ ~Stamped(e, r.plan)
      <4>1. r.plan.inline /\ r.plan.base <= Len(FileText(e)) /\ q.plan.base <= r.plan.base
        BY <1>2, <1>r, <2>6, <3>1, <3>4 DEF HeldFits
      <4>2. \A i \in DOMAIN f.text : i <= r.plan.base => i \in DOMAIN FileText(e) /\ f.text[i] = FileText(e)[i]
        BY <1>2, <1>10, <1>f, <2>1, <3>4, <4>1, SavedText
      <4>3. q.plan.base \in Nat /\ DOMAIN f.text = 1 .. Len(f.text)
        BY <1>6, <1>10, <2>6, PlanTypes, TextIs DEF RestOK
      <4>4. \A i \in DOMAIN f.text : i <= q.plan.base => i \in DOMAIN FileText(e) /\ f.text[i] = FileText(e)[i]
        BY <2>4, <4>1, <4>2, <4>3
      <4>5. BelowTo(FileText(e), q.plan.base, q.plan.stamp)
        BY <3>1, <3>4 DEF Fits
      <4>6. BelowTo(f.text, q.plan.base, q.plan.stamp)
        BY <4>4, <4>5 DEF BelowTo
      <4> QED BY <1>6, <3>4, <4>6 DEF Fits
    <3> QED BY <3>2, <3>3, <3>4
  <2>7. FitOK(e, r)'
    <3>1. r.plan.base <= r.plan.base
      BY <2>4
    <3>2. Free => Fits(e, r.plan)'
      BY <1>2, <2>1, <2>6, <3>1 DEF RestOK
    <3> QED BY <1>1, <2>3, <3>2 DEF FitOK, Free
  <2>8. ASSUME NEW c \in Recorded PROVE FitOK(e, KeptOf(c, e))'
    <3>q. PICK q : q = KeptOf(c, e)
      OBVIOUS
    <3>1. FitOK(e, q) /\ RestOK(e, q) /\ q \in Held \cup {None}
      BY <2>1, <3>q
    <3>2. CASE q = r \/ q = None
      BY <2>7, <3>q, <3>2 DEF FitOK, Fits, Stamped, Free, KeptOf
    <3>3. CASE q # r /\ q # None
      <4>1. Free
        <5>1. promised # None => c \in Live
          BY DEF SafeInv, JournalInv, Recorded, Live
        <5>2. c \in Live => KeptOf(c, e) \in {None, held.retained[e]}
          BY <1>1 DEF SafeInv, JournalInv
        <5> QED BY <1>1, <1>r, <3>q, <3>3, <5>1, <5>2 DEF Free
      <4>2. q.plan.inline => r.plan.inline /\ q.plan.base <= r.plan.base
        <5>1. Beside(e, q)
          BY <1>10, <2>1, <3>q, <4>1 DEF BesideOf
        <5> QED BY <1>2, <1>r, <3>3, <5>1 DEF Beside
      <4>3. Fits(e, q.plan)'
        BY <2>6, <3>1, <3>3, <4>1, <4>2
      <4> QED BY <3>q, <4>3 DEF FitOK, Fits, Stamped, Free, KeptOf
    <3> QED BY <3>2, <3>3
  <2>9. Free => BesideOf(e)'
    <3> SUFFICES ASSUME Free PROVE BesideOf(e)'
      OBVIOUS
    <3>1. HeldFits(e) /\ \A c \in Recorded : Beside(e, KeptOf(c, e))
      BY <2>1 DEF BesideOf
    <3>2. HeldFits(e)'
      <4> SUFFICES ASSUME r.plan.inline
                   PROVE  r.plan.base <= Len(f.text) /\ r.plan.base < Len(f.text)
        BY <1>1, <1>6, <1>r DEF HeldFits
      <4>1. r.plan.base <= Len(FileText(e)) /\ (Stamped(e, r.plan) => r.plan.base < Len(FileText(e)))
        BY <1>2, <1>r, <3>1 DEF HeldFits
      <4>2. CASE Stamped(e, r.plan)
        BY <1>6, <2>4, <2>5, <4>1, <4>2
      <4>3. CASE ~Stamped(e, r.plan)
        <5>1. Len(f.text) = r.plan.base + 1
          BY <1>2, <1>10, <1>f, <2>1, <4>1, <4>3, SavedText
        <5> QED BY <2>4, <5>1
      <4> QED BY <4>2, <4>3
    <3>3. ASSUME NEW c \in Recorded PROVE Beside(e, KeptOf(c, e))'
      BY <1>1, <1>2, <1>r, <3>1 DEF Beside, KeptOf
    <3>4. Recorded' = Recorded
      BY <1>1 DEF Recorded
    <3> QED BY <3>2, <3>3, <3>4 DEF BesideOf
  <2>10. FitOK(e, held.retained[e])'
    BY <1>1, <1>r, <2>7 DEF FitOK, Fits, Stamped, Free
  <2> QED BY <2>2, <2>8, <2>9, <2>10
<1> QED BY <1>1, <1>3, <1>4, <1>5, <1>7, <1>8, <1>9, <1>10, EntrySafe

\* Everything held is in the files, and is let go.
LEMMA LetGoSafe ==
  ASSUME StoreViewInv, SafeInv, phase = "up", queue # <<>>, IsRetry(Op), Begun(Op), Op.left = {}, Saved,
         promised' = None, visible' = None, attempted' \subseteq attempted, stray' = attempted',
         attempted' # {} => promised = None
  PROVE  SafeInv'
<1>1. /\ held' = [held EXCEPT !.retained = NothingHeld] /\ failing' = FALSE /\ Ends /\ safe' = said
      /\ UNCHANGED <<node, file, spill, archive, phase, writes, said>>
  BY DEF Saved, disk, archives
<1>2. /\ \A e \in Entries : held'.retained[e] = None
      /\ held'.closed = held.closed /\ held'.revision = held.revision
  BY <1>1, HeldType2, NothingHeldType DEF Memory, StoreViewInv
<1>3. /\ Live' = {None} /\ Recorded' \subseteq attempted \cup {None} /\ \A c, e : KeptOf(c, e)' = KeptOf(c, e)
      /\ \A e : FileText(e)' = FileText(e) /\ KeptOf(None, e) = None
  BY <1>1 DEF Live, Recorded, KeptOf, FileText
<1>4. \A e \in Entries : said[e] # None => Reaches(e, said[e], said[e])
  <2>1. \A e \in Entries : said[e] # None => said[e] \in Texts /\ (e \notin Stream => Numeric(said[e]))
    BY StoreTypes DEF SafeInv, NumbersInv, NumbersOf, Typed
  <2> QED BY <2>1, ReachesSame
<1>5. JournalInv'
  BY <1>3, <1>1 DEF JournalInv
<1>6. NumbersInv'
  <2> SUFFICES ASSUME NEW e \in Entries PROVE NumbersOf(e)'
    BY DEF NumbersInv
  <2>1. NumbersOf(e)
    BY DEF SafeInv, NumbersInv
  <2> QED BY <1>1, <1>3, <2>1 DEF NumbersOf
<1>7. LaterInv' /\ \A i \in DOMAIN queue' : Unheld(queue[i])'
  <2>1. \A e \in Entries : Settled(e)
    BY <1>1, <1>3 DEF Settled
  <2> QED BY <1>1, <1>2, <2>1, NobodyElse
<1>8. StreamInv'
  BY <1>1 DEF SafeInv, StreamInv, StreamOf, FileText
<1>9. RestsInv'
  <2>1. ASSUME NEW c \in Recorded', NEW e \in Entries PROVE RestOK(e, KeptOf(c, e))'
    <3>1. RestOK(e, KeptOf(c, e))
      BY <1>3 DEF SafeInv, RestsInv, Recorded, RestOK
    <3> QED BY <1>1, <1>3, <3>1 DEF RestOK
  <2> QED BY <1>2, <2>1 DEF RestsInv, RestOK
<1>10. FitsInv'
  <2>1. ASSUME NEW c \in Recorded', NEW e \in Stream PROVE FitOK(e, KeptOf(c, e))'
    <3>1. CASE c = None
      BY <1>3, <3>1 DEF FitOK
    <3>2. CASE c # None
      <4>1. c \in Recorded /\ Free
        BY <1>3, <3>2 DEF Recorded, Free
      <4>2. FitOK(e, KeptOf(c, e))
        BY <4>1 DEF SafeInv, FitsInv
      <4> QED BY <1>1, <1>3, <4>1, <4>2 DEF FitOK, Fits, Stamped
    <3> QED BY <3>1, <3>2
  <2> QED BY <1>2, <2>1, StreamsAreEntries DEF FitsInv, FitOK
<1>11. BesideInv'
  <2> SUFFICES ASSUME ~held.closed, NEW e \in Stream PROVE BesideOf(e)'
    BY <1>2 DEF BesideInv
  <2>h. PICK h : h = held.retained[e]
    OBVIOUS
  <2>1. e \in Entries /\ Typed(e) /\ h \in Held \cup {None} /\ RestOK(e, h)
    BY <2>h, StreamsAreEntries, StoreTypes DEF Typed, SafeInv, RestsInv
  <2>2. ASSUME NEW c \in Recorded' PROVE Beside(e, KeptOf(c, e))'
    <3>r. PICK r : r = KeptOf(c, e)
      OBVIOUS
    <3>1. CASE r = None
      BY <1>3, <3>r, <3>1 DEF Beside
    <3>2. CASE r # None
      <4>1. c \in Recorded /\ Free
        BY <1>3, <3>r, <3>2 DEF Recorded, Free
      <4>2. HeldFits(e) /\ Beside(e, r)
        BY <3>r, <4>1 DEF SafeInv, BesideInv, BesideOf
      <4>3. r \in Held /\ RestOK(e, r)
        BY <2>1, <3>r, <3>2, <4>1, StoreTypes DEF SafeInv, RestsInv
      <4>4. file[e] # None /\ file[e].inline /\ (r.plan.inline => r.plan.base < Len(FileText(e)))
        <5>1. CASE h = None
          BY <2>h, <3>2, <4>2, <5>1 DEF Beside
        <5>2. CASE h # None
          <6>1. Made(e) /\ h.plan # None /\ r.plan # None
            BY <2>1, <2>h, <3>2, <4>3, <5>2, RetryFacts DEF RestOK
          <6>2. file[e] # None /\ file[e].inline /\ Stamped(e, h.plan)
            BY <2>h, <6>1 DEF Made, Stamped
          <6>3. h.plan.inline => h.plan.base < Len(FileText(e))
            BY <2>h, <4>2, <5>2, <6>2 DEF HeldFits
          <6>4. r # h => h.plan.inline /\ (r.plan.inline => r.plan.base <= h.plan.base)
            BY <2>h, <3>2, <4>2, <5>2 DEF Beside
          <6>5. r.plan.base \in Nat /\ h.plan.base \in Nat /\ Len(FileText(e)) \in Nat
            BY <2>1, <4>3, <5>2, <6>1, PlanTypes, TextIs DEF Typed
          <6> QED BY <6>2, <6>3, <6>4, <6>5
        <5> QED BY <5>1, <5>2
      <4> QED BY <1>1, <1>2, <1>3, <2>1, <3>r, <4>4 DEF Beside
    <3> QED BY <3>1, <3>2
  <2> QED BY <1>2, <2>1, <2>2 DEF BesideOf, HeldFits
<1>12. SafeSaid'
  BY <1>1, <1>4 DEF SafeSaid
<1>13. DiskReaches'
  <2> SUFFICES ASSUME ~held.closed, NEW e \in Entries, said[e] # None PROVE Reaches(e, OnDisk(e)', said[e])
    BY <1>1, <1>2 DEF DiskReaches
  <2>1. (held.retained[e] = None \/ Made(e)) /\ Meant(e) = said[e]
    BY RetryFacts
  <2>2. OnDisk(e) = said[e]
    BY <2>1, DiskShows
  <2>3. OnDisk(e)' = OnDisk(e)
    BY <1>1 DEF OnDisk, Shown, Materialized, Prefix
  <2> QED BY <1>4, <2>2, <2>3
<1>14. DownInv' /\ EndInv'
  BY <1>1, <1>2, <1>7, OpenWhile DEF DownInv, EndInv
<1> QED BY <1>5, <1>6, <1>7, <1>8, <1>9, <1>10, <1>11, <1>12, <1>13, <1>14 DEF SafeInv

LEMMA RetryEndsSafe ==
  ASSUME StoreViewInv, SafeInv, RetryEnds \/ RetryEndsWithoutRecord
  PROVE  SafeInv'
<1>1. phase = "up" /\ queue # <<>> /\ IsRetry(Op) /\ Begun(Op) /\ Saved
  BY DEF RetryEnds, RetryEndsWithoutRecord, Running, Op, IsRetry, Begun
<1>2. Op.left = {}
  BY <1>1 DEF RetryEnds, RetryEndsWithoutRecord, Running, Op, StoreViewInv, StageInv, RetryStage
<1>3. CASE RetryEnds
  <2>1. promised' = None /\ visible' = None /\ attempted' = {} /\ stray' = {}
    BY <1>3 DEF RetryEnds, Journal!AcknowledgeOf
  <2> QED BY <1>1, <1>2, <2>1, LetGoSafe
<1>4. CASE RetryEndsWithoutRecord
  <2>1. visible = None /\ stray' = attempted /\ UNCHANGED <<promised, attempted, visible>>
    BY <1>4 DEF RetryEndsWithoutRecord
  <2>2. promised = None
    BY <1>1, <2>1 DEF SafeInv, JournalInv
  <2> QED BY <1>1, <1>2, <2>1, <2>2, LetGoSafe
<1> QED BY <1>3, <1>4
-----------------------------------------------------------------------------
(* A line is taken back, and a closed conversation is removed.             *)

LEMMA RollbackEndsSafe ==
  ASSUME StoreViewInv, SafeInv, RollbackEnds
  PROVE  SafeInv'
<1>e. PICK e : e = Op.entry
  OBVIOUS
<1>1. /\ phase = "up" /\ queue # <<>> /\ Op.kind = "rollback" /\ TypeOK /\ Ends
      /\ file' = [file EXCEPT ![e] = None] /\ held' = [held EXCEPT !.files = @ \ {e}]
      /\ UNCHANGED <<node, spill, archive, promised, attempted, visible, stray, phase, failing, writes>>
      /\ IF held.closed THEN said' = said /\ safe' = safe
         ELSE said' = [said EXCEPT ![e] = None] /\ safe' = [safe EXCEPT ![e] = None]
  BY <1>e DEF RollbackEnds, Running, Op, archives, journal, told, StoreViewInv
<1>2. CallOK(Op) /\ e \in Entries /\ e \notin Stream
  <2>1. CallOK(Op)
    BY <1>1, OpType DEF StoreViewInv, QueueInv
  <2>2. e \in Entries /\ e \in Lines
    BY <1>1, <1>e, <2>1 DEF CallOK, Touches
  <2> QED BY <2>1, <2>2, EntryKinds
<1>3. held'.retained = held.retained /\ held'.closed = held.closed /\ held'.revision = held.revision
  BY <1>1, HeldType2 DEF Memory
<1>4. /\ file'[e] = None /\ FileText(e)' = <<>>
      /\ \A x \in Entries : x # e => file'[x] = file[x] /\ said'[x] = said[x] /\ safe'[x] = safe[x]
      /\ (~held.closed => said'[e] = None /\ safe'[e] = None)
  BY <1>1, <1>2 DEF TypeOK, DiskType, ToldType, FileText
<1>5. NumbersOf(e)'
  <2>1. NumbersOf(e)
    BY <1>2 DEF SafeInv, NumbersInv
  <2> QED BY <1>1, <1>4, <2>1, BelowNone DEF NumbersOf
<1>6. said'[e] # None => Reaches(e, said'[e], safe'[e])
  BY <1>1, <1>2, <1>4 DEF SafeInv, SafeSaid
<1>7. Settled(e)
  BY <1>1, <1>e DEF Settled, Touches
<1> QED BY <1>1, <1>2, <1>3, <1>4, <1>5, <1>6, <1>7, EntrySafe

LEMMA CommitSweepsSafe ==
  ASSUME StoreViewInv, SafeInv, CommitSweeps
  PROVE  SafeInv'
<1>1. /\ phase = "up" /\ queue # <<>> /\ Op.kind = "commit" /\ Op.at = "sweep" /\ TypeOK
      /\ file' = [e \in Entries |-> IF e \in held.files THEN None ELSE file[e]]
      /\ spill' = [e \in Entries |-> IF e \in held.files THEN <<>> ELSE spill[e]]
      /\ held' = [held EXCEPT !.files = {}] /\ Ends
      /\ UNCHANGED <<node, archive, promised, attempted, visible, stray, phase, failing, writes, said, safe>>
  BY DEF CommitSweeps, Running, Op, archives, journal, told, StoreViewInv
<1>2. held.closed /\ ~failing /\ node # None /\ node.closed
  <2>1. held.closed
    BY <1>1 DEF StoreViewInv, StageInv, OtherStage, Begun
  <2> QED BY <1>1, <2>1, OpenWhile
<1>3. held'.retained = held.retained /\ held'.closed = held.closed /\ held'.revision = held.revision
  BY <1>1, HeldType2 DEF Memory
<1>4. /\ \A e \in Entries : held.retained[e] = None
      /\ \A e \in Entries : \/ file'[e] = None /\ spill'[e] = <<>> /\ FileText(e)' = <<>>
                            \/ file'[e] = file[e] /\ spill'[e] = spill[e] /\ FileText(e)' = FileText(e)
  BY <1>1, <1>2, NothingIsHeld DEF FileText
<1>5. JournalInv'
  BY <1>1, <1>3 DEF SafeInv, JournalInv, Live, KeptOf
<1>6. NumbersInv'
  <2> SUFFICES ASSUME NEW e \in Entries PROVE NumbersOf(e)'
    BY DEF NumbersInv
  <2>1. NumbersOf(e)
    BY DEF SafeInv, NumbersInv
  <2> QED BY <1>1, <1>4, <2>1, BelowNone DEF NumbersOf
<1>7. LaterInv' /\ \A i \in DOMAIN queue' : Unheld(queue[i])'
  <2>1. \A e \in Entries : Settled(e)
    <3> SUFFICES ASSUME NEW e \in Entries PROVE Settled(e)
      OBVIOUS
    <3> QED BY <1>1, <1>4 DEF Settled
  <2> QED BY <1>1, <1>3, <2>1, NobodyElse
<1>8. StreamInv'
  <2> SUFFICES ASSUME NEW e \in Stream PROVE StreamOf(e)'
    BY DEF StreamInv
  <2>1. StreamOf(e) /\ e \in Entries
    BY StreamsAreEntries DEF SafeInv, StreamInv
  <2> QED BY <1>4, <2>1, BelowNone DEF StreamOf
<1>9. RestsInv'
  <2>1. writes' \in Nat /\ writes <= writes'
    BY <1>1, StoreTypes
  <2> QED BY <1>1, <1>3, <2>1, RestsFrame DEF SafeInv
<1>10. FitsInv'
  <2>1. Free
    BY <1>1, <1>2 DEF SafeInv, JournalInv, Free
  <2>2. ASSUME NEW c \in Recorded, NEW e \in Stream PROVE FitOK(e, KeptOf(c, e))'
    <3>r. PICK r : r = KeptOf(c, e)
      OBVIOUS
    <3>1. CASE r = None
      BY <3>r, <3>1 DEF FitOK, KeptOf
    <3>2. CASE r # None
      <4>p. PICK p : p = r.plan
        OBVIOUS
      <4>1. Fits(e, p) /\ e \in Entries
        BY <2>1, <3>r, <3>2, <4>p, StreamsAreEntries DEF SafeInv, FitsInv, FitOK
      <4>2. Fits(e, p)'
        <5>1. \A b, m : BelowTo(<<>>, b, m)
          BY DEF BelowTo
        <5>2. CASE file'[e] = None /\ spill'[e] = <<>> /\ FileText(e)' = <<>>
          BY <5>1, <5>2 DEF Fits
        <5>3. CASE file'[e] = file[e] /\ spill'[e] = spill[e] /\ FileText(e)' = FileText(e)
          BY <4>1, <5>3 DEF Fits
        <5> QED BY <1>4, <4>1, <5>2, <5>3
      <4> QED BY <3>r, <4>p, <4>2 DEF FitOK, Fits, KeptOf
    <3> QED BY <3>1, <3>2
  <2>3. ASSUME NEW e \in Stream PROVE FitOK(e, held.retained[e])'
    BY <1>3, <1>4, StreamsAreEntries DEF FitOK
  <2>4. Recorded' = Recorded
    BY <1>1 DEF Recorded
  <2> QED BY <2>2, <2>3, <2>4 DEF FitsInv
<1>11. BesideInv' /\ DiskReaches' /\ DownInv' /\ EndInv'
  BY <1>1, <1>2, <1>3, <1>7 DEF BesideInv, DiskReaches, DownInv, EndInv
<1>12. SafeSaid'
  BY <1>1 DEF SafeInv, SafeSaid
<1> QED BY <1>5, <1>6, <1>7, <1>8, <1>9, <1>10, <1>11, <1>12 DEF SafeInv
-----------------------------------------------------------------------------
(* The end of a process, and the next one.                                 *)

\* What a later process shows of an entry is a text of pieces that were written.
LEMMA SurvivingText ==
  ASSUME StoreViewInv, SafeInv, NEW c \in Recorded, NEW e \in Entries
  PROVE  LET t == Surviving(c, e)
         IN  t \in Texts /\ Below(t, writes + 1) /\ (e \notin Stream => Numeric(t)) /\ t # None
<1>r. PICK r : r = KeptOf(c, e)
  OBVIOUS
<1>t. PICK t : t = Surviving(c, e)
  OBVIOUS
<1>m. PICK m : m = writes + 1
  OBVIOUS
<1>1. NumbersOf(e) /\ Typed(e) /\ r \in Held \cup {None} /\ m \in Nat
  BY <1>r, <1>m, StoreTypes DEF SafeInv, NumbersInv
<1>2. t = IF r # None THEN Materialized(e, r).text ELSE OnDisk(e)
  BY <1>r, <1>t, SurvivingIs
<1>3. CASE r # None
  <2>1. r \in Held /\ PlanOK(r) /\ RestOK(e, r) /\ (e \in Stream => FitOK(e, r))
    <3>1. PlanOK(r)
      BY <1>r, <1>3 DEF StoreViewInv, RecordsInv, Recorded, KeptOf
    <3> QED BY <1>1, <1>3, <1>r, <3>1 DEF SafeInv, RestsInv, FitsInv
  <2>2. /\ Materialized(e, r) \in Files /\ Below(t, writes + 1) /\ (e \notin Stream => Numeric(t))
    BY <1>2, <1>3, <2>1, SavedNumbers
  <2>3. t \in Texts
    BY <1>2, <1>3, <2>2 DEF Files
  <2> QED BY <1>t, <2>2, <2>3, NoneAssumption
<1>4. CASE r = None
  <2>1. OnDisk(e) \in Texts
    BY OnDiskText
  <2>2. Below(OnDisk(e), m)
    <3>1. CASE file[e] = None \/ file[e].inline
      BY <1>1, <1>m, <3>1, OnDiskText DEF NumbersOf
    <3>2. CASE file[e] # None /\ ~file[e].inline
      BY <1>1, <1>m, <3>2, OnDiskText, BelowJoin DEF NumbersOf, Typed
    <3> QED BY <3>1, <3>2
  <2>3. e \notin Stream => Numeric(OnDisk(e))
    BY <1>1, OnDiskText DEF NumbersOf
  <2> QED BY <1>2, <1>4, <1>m, <1>t, <2>1, <2>2, <2>3, NoneAssumption
<1> QED BY <1>3, <1>4

LEMMA PreparedSafe ==
  ASSUME StoreViewInv, SafeInv, phase # "up", NEW c \in Recorded, Prepared(c),
         queue' \in {<<>>, <<Call("retry", None, 0)>>}, UNCHANGED <<disk, archives, writes>>
  PROVE  SafeInv'
<1>o. PICK o : o = Call("retry", None, 0)
  OBVIOUS
<1>m. PICK m : m = Recovered(c)
  OBVIOUS
<1>1. /\ promised' = c /\ visible' = c /\ attempted' = {} /\ stray' = {} /\ phase' = "up" /\ held' = m
      /\ failing' = (c # None) /\ UNCHANGED <<node, file, spill, archive, writes>>
      /\ IF m.closed THEN said' = said /\ safe' = safe
         ELSE /\ said' = [e \in Entries |-> IF said[e] # None \/ e \in m.files THEN Shown(m.retained, e) ELSE None]
              /\ safe' = said'
  BY <1>m DEF Prepared, Journal!RecoverOf, disk, archives, told
<1>2. /\ m.closed <=> node # None /\ node.closed /\ c = None
      /\ \A e \in Entries : m.retained[e] = KeptOf(c, e)
      /\ \A e \in Entries : Shown(m.retained, e) = Surviving(c, e)
  <2>1. m.closed <=> node # None /\ node.closed /\ c = None
    BY <1>m, RecoveredIs DEF Recorded
  <2>2. m.retained = IF c = None THEN NothingHeld ELSE c.retained
    BY <1>m DEF Recovered
  <2> QED BY <1>m, <2>1, <2>2, NothingHeldType DEF KeptOf, Surviving
<1>3. ASSUME NEW e \in Entries, said'[e] # None, ~m.closed
      PROVE  /\ said'[e] = Surviving(c, e) /\ said'[e] \in Texts /\ Below(said'[e], writes + 1) /\ safe'[e] = said'[e]
             /\ (e \notin Stream => Numeric(said'[e])) /\ Reaches(e, said'[e], safe'[e])
  <2>1. said'[e] = Surviving(c, e) /\ safe'[e] = said'[e]
    BY <1>1, <1>2, <1>3
  <2>t. PICK t : t = said'[e]
    OBVIOUS
  <2>2. t \in Texts /\ Below(t, writes + 1) /\ (e \notin Stream => Numeric(t))
    BY <2>1, <2>t, SurvivingText
  <2> QED BY <2>1, <2>t, <2>2, ReachesSame
<1>4. Live' = {c} /\ Recorded' = {c} /\ (\A e : KeptOf(c, e)' = KeptOf(c, e)) /\ \A e : FileText(e)' = FileText(e)
  BY <1>1 DEF Live, Recorded, KeptOf, FileText
<1>5. JournalInv'
  BY <1>1, <1>2, <1>4 DEF JournalInv
<1>6. NumbersInv'
  <2> SUFFICES ASSUME NEW e \in Entries PROVE NumbersOf(e)'
    BY DEF NumbersInv
  <2>1. NumbersOf(e)
    BY DEF SafeInv, NumbersInv
  <2>2. CASE m.closed
    BY <1>1, <1>4, <2>1, <2>2 DEF NumbersOf
  <2>3. CASE ~m.closed
    <3>1. Below(FileText(e)', writes + 1) /\ Below(spill'[e], writes + 1) /\ safe' = said'
      BY <1>1, <1>4, <2>1, <2>3 DEF NumbersOf
    <3>2. e \notin Stream => Numeric(FileText(e)')
      BY <1>4, <2>1 DEF NumbersOf
    <3> QED BY <1>1, <1>3, <2>3, <3>1, <3>2 DEF NumbersOf
  <2> QED BY <2>2, <2>3
<1>7. LaterInv' /\ \A i \in DOMAIN queue' : Unheld(queue[i])'
  <2>1. o.kind = "retry" /\ queue' \in {<<>>, <<o>>}
    BY <1>o DEF Call
  <2>2. \A i \in DOMAIN queue' : queue'[i].kind = "retry"
    BY <2>1
  <2> QED BY <2>2 DEF LaterInv, Later, Unheld, Writes
<1>8. StreamInv'
  BY <1>1, <1>4 DEF SafeInv, StreamInv, StreamOf
<1>9. RestsInv'
  <2>1. ASSUME NEW e \in Entries PROVE RestOK(e, KeptOf(c, e))' /\ RestOK(e, held.retained[e])'
    <3>r. PICK r : r = KeptOf(c, e)
      OBVIOUS
    <3>1. RestOK(e, r)
      BY <3>r DEF SafeInv, RestsInv
    <3>2. RestOK(e, r)'
      BY <1>1, <3>1 DEF RestOK
    <3> QED BY <1>1, <1>2, <1>4, <3>r, <3>2 DEF RestOK
  <2> QED BY <1>4, <2>1 DEF RestsInv
<1>10. FitsInv'
  <2>1. ASSUME NEW e \in Stream PROVE FitOK(e, KeptOf(c, e))' /\ FitOK(e, held.retained[e])'
    <3>r. PICK r : r = KeptOf(c, e)
      OBVIOUS
    <3>0. e \in Entries
      BY StreamsAreEntries
    <3>1. FitOK(e, r) /\ (c = None => r = None)
      BY <3>r DEF SafeInv, FitsInv, KeptOf
    <3>2. c # None => ~Free'
      BY <1>1 DEF Free
    <3>3. FitOK(e, r)'
      BY <1>1, <1>4, <3>1, <3>2 DEF FitOK, Fits, Stamped
    <3>4. KeptOf(c, e)' = r /\ held'.retained[e] = r
      BY <1>1, <1>2, <1>4, <3>0, <3>r
    <3> QED BY <3>3, <3>4 DEF FitOK, Fits, Stamped, Free
  <2> QED BY <1>4, <2>1 DEF FitsInv
<1>11. BesideInv'
  <2> SUFFICES ASSUME c = None, NEW e \in Stream PROVE BesideOf(e)'
    BY <1>1 DEF BesideInv, Free
  <2>1. held'.retained[e] = None /\ KeptOf(c, e)' = None
    BY <1>1, <1>2, <1>4, StreamsAreEntries DEF KeptOf
  <2> QED BY <1>4, <2>1 DEF BesideOf, HeldFits, Beside
<1>12. SafeSaid'
  <2> SUFFICES ASSUME NEW e \in Entries, said'[e] # None PROVE Reaches(e, said'[e], safe'[e])
    BY DEF SafeSaid
  <2>1. CASE m.closed
    BY <1>1, <2>1 DEF SafeInv, SafeSaid
  <2> QED BY <1>3, <2>1
<1>13. DiskReaches'
  <2> SUFFICES ASSUME ~m.closed, NEW e \in Entries, said'[e] # None, KeptOf(c, e) = None
               PROVE  Reaches(e, OnDisk(e)', safe'[e])
    BY <1>1, <1>4 DEF DiskReaches
  <2>1. said'[e] = OnDisk(e) /\ Reaches(e, said'[e], safe'[e])
    BY <1>3, SurvivingIs
  <2>2. OnDisk(e)' = OnDisk(e)
    BY <1>1 DEF OnDisk, Shown, Materialized, Prefix
  <2> QED BY <2>1, <2>2
<1>14. DownInv' /\ EndInv'
  BY <1>1, <1>2, <1>7 DEF DownInv, EndInv
<1> QED BY <1>5, <1>6, <1>7, <1>8, <1>9, <1>10, <1>11, <1>12, <1>13, <1>14 DEF SafeInv

\* A dying process leaves the second file as it was, or with part of a piece of
\* an entry that no record knows.
LEMMA DiesSpill ==
  ASSUME StoreViewInv, SafeInv, Dies
  PROVE  \A e \in Entries : spill'[e] = spill[e] \/
           /\ phase = "up" /\ e \in Stream /\ file[e] # None /\ ~file[e].inline /\ said[e] # None
           /\ \A c \in Recorded : KeptOf(c, e) = None
           /\ \E part \in Texts : spill'[e] = spill[e] \o part
           /\ Below(spill'[e], writes + 1) /\ Sorted(spill'[e])
<1>1. CASE spill' = spill
  BY <1>1
<1>2. ASSUME Running("write", "words"), ~file[Op.entry].inline, NEW part \in {<<Torn>>, <<Op.n>>},
             spill' = [spill EXCEPT ![Op.entry] = @ \o part]
      PROVE  \A x \in Entries : spill'[x] = spill[x] \/
               /\ phase = "up" /\ x \in Stream /\ file[x] # None /\ ~file[x].inline /\ said[x] # None
               /\ \A c \in Recorded : KeptOf(c, x) = None
               /\ \E p \in Texts : spill'[x] = spill[x] \o p
               /\ Below(spill'[x], writes + 1) /\ Sorted(spill'[x])
  <2>e. PICK e : e = Op.entry
    OBVIOUS
  <2>n. PICK n : n = Op.n
    OBVIOUS
  <2>s. PICK s : s = spill[e]
    OBVIOUS
  <2>m. PICK m : m = writes + 1
    OBVIOUS
  <2>1. phase = "up" /\ queue # <<>> /\ Writes(Op) /\ Op.at = "words"
    BY <1>2 DEF Running, Op, Writes
  <2>2. /\ e \in Entries /\ e \in Stream /\ n \in Nat /\ n \in Pieces /\ n <= writes /\ said[e] # None
        /\ held.retained[e] = None /\ ~held.closed /\ ~failing /\ file[e] # None /\ ~file[e].inline
    <3>1. n \in 1 .. writes
      BY <2>1, <2>n, WriteFacts
    <3> QED BY <1>2, <2>1, <2>e, <2>n, <3>1, WriteFacts, NothingIsHeld DEF StoreViewInv, StageInv, WriteStage, Begun
  <2>3. writes \in Nat /\ m \in Nat /\ s \in Texts /\ Sorted(s) /\ Below(s, n)
    <3>1. Later(Op)
      BY <2>1, OpType DEF SafeInv, LaterInv, StoreViewInv
    <3>2. StreamOf(e) /\ Typed(e)
      BY <2>2, StoreTypes DEF SafeInv, StreamInv
    <3> QED BY <2>1, <2>e, <2>n, <2>s, <2>m, <3>1, <3>2, StoreTypes DEF Later, StreamOf, Typed
  <2>4. n < m
    BY <2>2, <2>3, <2>m
  <2>5. part \in Texts /\ s \o part \in Texts /\ Below(s \o part, m) /\ Sorted(s \o part)
    <3>1. part \in {<<>>, <<Torn>>, <<n>>}
      BY <2>n
    <3> QED BY <2>2, <2>3, <2>4, <3>1, PartGrows
  <2>6. spill'[e] = s \o part /\ \A x \in Entries : x # e => spill'[x] = spill[x]
    BY <1>2, <2>2, <2>e, <2>s DEF StoreViewInv, TypeOK, DiskType
  <2>7. ASSUME NEW c \in Recorded PROVE KeptOf(c, e) = None
    <3>1. Free
      BY <2>1, <2>2 DEF SafeInv, JournalInv, Free
    <3>2. Beside(e, KeptOf(c, e))
      BY <2>2, <3>1 DEF SafeInv, BesideInv, BesideOf
    <3> QED BY <2>2, <3>2 DEF Beside
  <2> QED BY <2>1, <2>2, <2>5, <2>6, <2>7, <2>m, <2>s
<1> QED BY <1>1, <1>2 DEF Dies

\* What is shown of an entry depends on its own files only.
LEMMA ShownAlike ==
  ASSUME NEW retained, NEW e, file'[e] = file[e], spill'[e] = spill[e]
  PROVE  Shown(retained, e)' = Shown(retained, e)
<1>r. PICK r : r = retained[e]
  OBVIOUS
<1>1. \A plan : Prefix(e, plan)' = Prefix(e, plan)
  BY DEF Prefix
<1>2. Materialized(e, r)' = Materialized(e, r)
  <2>1. PICK plan : plan = r.plan
    OBVIOUS
  <2>2. Prefix(e, plan)' = Prefix(e, plan)
    BY <1>1
  <2> QED BY <2>1, <2>2 DEF Materialized
<1>3. CASE r # None
  BY <1>r, <1>2, <1>3 DEF Shown
<1>4. CASE r = None
  BY <1>r, <1>4 DEF Shown
<1> QED BY <1>3, <1>4

LEMMA SurvivesFrame ==
  ASSUME NEW c, NEW e, UNCHANGED <<node, file, said, safe>>, spill'[e] = spill[e]
  PROVE  Survives(c, e)' = Survives(c, e)
<1>m. PICK m : m = Recovered(c)
  OBVIOUS
<1>1. Recovered(c)' = m
  BY <1>m DEF Recovered
<1>2. Surviving(c, e) = Shown(m.retained, e) /\ Surviving(c, e)' = Shown(m.retained, e)'
  BY <1>m, <1>1 DEF Surviving, Shown, Materialized, Prefix
<1>3. Shown(m.retained, e)' = Shown(m.retained, e)
  BY ShownAlike
<1>4. PICK t : t = Surviving(c, e)
  OBVIOUS
<1>5. Surviving(c, e)' = t
  BY <1>2, <1>3, <1>4
<1> QED BY <1>m, <1>1, <1>4, <1>5 DEF Survives

LEMMA DiesSurvives ==
  ASSUME StoreViewInv, SafeInv, Dies, Open, NEW c \in Live, NEW e \in Entries
  PROVE  Survives(c, e)'
<1>1. UNCHANGED <<node, file, said, safe>>
  BY DEF Dies, told
<1>2. Survives(c, e)
  <2>1. CASE phase = "up"
    <3>1. ~held.closed
      BY <2>1, OpenWhile DEF Open
    <3> QED BY <2>1, <3>1, UpSurvives
  <2>2. CASE phase # "up"
    BY <2>2 DEF SafeInv, DownInv
  <2> QED BY <2>1, <2>2
<1>m. PICK m : m = Recovered(c)
  OBVIOUS
<1>3. Recovered(c)' = m
  BY <1>1, <1>m DEF Recovered
<1>4. Surviving(c, e) = Shown(m.retained, e) /\ Surviving(c, e)' = Shown(m.retained, e)'
  BY <1>m, <1>3 DEF Surviving, Shown, Materialized, Prefix
<1>5. CASE spill'[e] = spill[e]
  BY <1>1, <1>2, <1>5, SurvivesFrame
<1>6. ASSUME e \in Stream, file[e] # None, ~file[e].inline, said[e] # None, KeptOf(c, e) = None,
             NEW part \in Texts, spill'[e] = spill[e] \o part, Sorted(spill'[e])
      PROVE  Survives(c, e)'
  <2>t. PICK t : t = file[e].text
    OBVIOUS
  <2>s. PICK s : s = spill[e]
    OBVIOUS
  <2>1. Typed(e) /\ c \in Recorded /\ StreamOf(e) /\ t \in Texts /\ s \in Texts /\ t = <<>>
    BY <1>6, <2>t, <2>s, StoreTypes DEF SafeInv, StreamInv, StreamOf, Typed
  <2>2. m.retained[e] = None
    <3>1. m.retained = IF c = None THEN NothingHeld ELSE c.retained
      BY <1>m DEF Recovered
    <3> QED BY <1>6, <3>1, NothingHeldType DEF KeptOf
  <2>3. Surviving(c, e) = t \o s /\ Surviving(c, e)' = t \o (s \o part)
    BY <1>1, <1>4, <1>6, <2>2, <2>t, <2>s DEF Shown
  <2>4. t \o (s \o part) = (t \o s) \o part /\ t \o s \in Texts
    BY <2>1, JoinTwice, JoinIs
  <2>5. safe[e] \in Texts
    BY <1>6, <2>1 DEF Typed, SafeInv, NumbersInv, NumbersOf
  <2>6. Reaches(e, Surviving(c, e)', safe[e])
    <3>1. Reaches(e, t \o s, safe[e])
      BY <1>2, <1>6, <2>3 DEF Survives
    <3> QED BY <1>6, <2>3, <2>4, <2>5, <3>1, ReachesJoin
  <2>7. Sorted(Surviving(c, e)')
    <3>1. s \o part \in Texts
      BY <2>1, JoinIs
    <3>2. \A u \in Texts : <<>> \o u = u
      BY DEF Texts
    <3>3. t \o (s \o part) = s \o part
      BY <2>1, <3>1, <3>2
    <3> QED BY <1>6, <2>3, <2>s, <3>3
  <2> QED BY <1>1, <1>6, <2>6, <2>7 DEF Survives
<1> QED BY <1>5, <1>6, DiesSpill, StoreTypes

LEMMA DiesSafe ==
  ASSUME StoreViewInv, SafeInv, Dies
  PROVE  SafeInv'
<1>1. /\ UNCHANGED <<node, file, promised, attempted, stray, writes, said, safe>>
      /\ phase' = "down" /\ held' = Unloaded /\ queue' = <<>>
  BY DEF Dies, Journal!Stop, told
<1>2. /\ Live' = Live /\ Recorded' = Recorded /\ (\A c, e : KeptOf(c, e)' = KeptOf(c, e)) /\ \A e : FileText(e)' = FileText(e)
      /\ \A e \in Entries : held'.retained[e] = None
  BY <1>1, UnloadedType, NothingHeldType DEF Live, Recorded, KeptOf, FileText
<1>3. JournalInv' /\ BesideInv' /\ SafeSaid' /\ DiskReaches'
  BY <1>1 DEF SafeInv, JournalInv, BesideInv, Free, SafeSaid, DiskReaches
<1>4. NumbersInv'
  <2> SUFFICES ASSUME NEW e \in Entries PROVE NumbersOf(e)'
    BY DEF NumbersInv
  <2>1. NumbersOf(e)
    BY DEF SafeInv, NumbersInv
  <2>2. Below(spill'[e], writes + 1)
    BY <2>1, DiesSpill DEF NumbersOf
  <2> QED BY <1>1, <1>2, <2>1, <2>2 DEF NumbersOf
<1>5. LaterInv' /\ EndInv'
  BY <1>1 DEF LaterInv, EndInv
<1>6. StreamInv'
  <2> SUFFICES ASSUME NEW e \in Stream PROVE StreamOf(e)'
    BY DEF StreamInv
  <2>1. StreamOf(e) /\ e \in Entries
    BY StreamsAreEntries DEF SafeInv, StreamInv
  <2>2. Sorted(spill'[e])
    BY <2>1, DiesSpill DEF StreamOf
  <2> QED BY <1>1, <1>2, <2>1, <2>2 DEF StreamOf
<1>7. RestsInv'
  <2>1. ASSUME NEW c \in Recorded, NEW e \in Entries PROVE RestOK(e, KeptOf(c, e))'
    <3>1. RestOK(e, KeptOf(c, e))
      BY DEF SafeInv, RestsInv
    <3> QED BY <1>1, <1>2, <3>1 DEF RestOK
  <2> QED BY <1>2, <2>1 DEF RestsInv, RestOK
<1>8. FitsInv'
  <2>1. ASSUME NEW c \in Recorded, NEW e \in Stream PROVE FitOK(e, KeptOf(c, e))'
    <3>r. PICK r : r = KeptOf(c, e)
      OBVIOUS
    <3>1. FitOK(e, r) /\ (r = None \/ spill'[e] = spill[e])
      BY <3>r, DiesSpill, StreamsAreEntries DEF SafeInv, FitsInv
    <3>2. ~Free'
      BY <1>1 DEF Free
    <3>3. FitOK(e, r)'
      BY <1>1, <1>2, <3>1, <3>2 DEF FitOK, Fits, Stamped
    <3>4. KeptOf(c, e)' = r
      BY <1>2, <3>r
    <3> QED BY <3>3, <3>4 DEF FitOK, Fits, Stamped, Free
  <2> QED BY <1>2, <2>1, StreamsAreEntries DEF FitsInv, FitOK
<1>9. DownInv'
  <2>1. Open' => Open
    BY <1>1 DEF Open
  <2> QED BY <1>2, <2>1, DiesSurvives DEF DownInv
<1> QED BY <1>3, <1>4, <1>5, <1>6, <1>7, <1>8, <1>9 DEF SafeInv

LEMMA UnreadSafe ==
  ASSUME StoreViewInv, SafeInv, RestartsUnread
  PROVE  SafeInv'
<1>1. /\ phase = "down" /\ phase' = "unread"
      /\ UNCHANGED <<node, file, spill, archive, promised, attempted, visible, stray, held, queue, writes, said, safe>>
  BY DEF RestartsUnread, disk, archives, journal, told
<1>2. queue' = <<>>
  BY <1>1 DEF StoreViewInv, PhaseInv
<1>3. JournalInv' /\ BesideInv' /\ SafeSaid' /\ DiskReaches'
  BY <1>1 DEF SafeInv, JournalInv, BesideInv, Free, SafeSaid, DiskReaches
<1>4. LaterInv' /\ EndInv'
  BY <1>1, <1>2 DEF LaterInv, EndInv
<1>5. NumbersInv' /\ StreamInv' /\ RestsInv'
  BY <1>1 DEF SafeInv, NumbersInv, NumbersOf, StreamInv, StreamOf, RestsInv, RestOK, FileText, KeptOf, Recorded
<1>6. FitsInv'
  BY <1>1 DEF SafeInv, FitsInv, FitOK, Fits, Stamped, Free, KeptOf, Recorded, FileText
<1>7. DownInv'
  <2>1. \A c, e : Survives(c, e)' = Survives(c, e)
    BY <1>1, SurvivesFrame
  <2>2. Open' = Open /\ Live' = Live
    BY <1>1 DEF Open, Live
  <2> QED BY <1>1, <2>1, <2>2 DEF SafeInv, DownInv
<1> QED BY <1>3, <1>4, <1>5, <1>6, <1>7 DEF SafeInv

LEMMA ProcessSafe ==
  ASSUME StoreViewInv, SafeInv, Restarts \/ RestartsUnread \/ (phase # "up" /\ Retry)
  PROVE  SafeInv'
<1>1. CASE Restarts
  <2>1. PICK c \in Recorded : Prepared(c)
    BY <1>1 DEF Restarts, Recorded
  <2>2. phase # "up" /\ queue' = <<>> /\ UNCHANGED <<disk, archives, writes>>
    BY <1>1 DEF Restarts, StoreViewInv, PhaseInv
  <2> QED BY <2>1, <2>2, PreparedSafe
<1>2. CASE phase # "up" /\ Retry
  <2>1. PICK c \in Recorded : Prepared(c) /\ queue' = IF c = None THEN <<>> ELSE <<Call("retry", None, 0)>>
    BY <1>2 DEF Retry, Recorded
  <2>2. UNCHANGED <<disk, archives, writes>>
    BY <1>2 DEF Retry
  <2> QED BY <1>2, <2>1, <2>2, PreparedSafe
<1> QED BY <1>1, <1>2, UnreadSafe
-----------------------------------------------------------------------------
(* Every step.                                                             *)

LEMMA InitSafe == Init => SafeInv
<1> SUFFICES ASSUME Init PROVE SafeInv
  OBVIOUS
<1>1. /\ node = None /\ promised = None /\ attempted = {} /\ visible = None /\ stray = {}
      /\ phase = "up" /\ failing = FALSE /\ queue = <<>> /\ safe = said /\ held = Unloaded
  BY DEF Init
<1>2. \A e \in Entries : /\ file[e] = None /\ spill[e] = <<>> /\ said[e] = <<>> /\ FileText(e) = <<>>
                         /\ held.retained[e] = None
  BY <1>1, UnloadedType, NothingHeldType DEF Init, FileText
<1>3. Live = {None} /\ Recorded = {None} /\ \A e : KeptOf(None, e) = None
  BY <1>1 DEF Live, Recorded, KeptOf
<1>4. <<>> # None /\ <<>> \in Texts
  BY TextsClosed, NoneAssumption
<1>5. \A e \in Entries : OnDisk(e) = <<>> /\ Reaches(e, <<>>, <<>>)
  BY <1>2, <1>4, OnDiskIs, ReachesSame, BelowNone
<1>6. NumbersInv /\ StreamInv
  BY <1>1, <1>2, BelowNone, StreamsAreEntries DEF NumbersInv, NumbersOf, StreamInv, StreamOf
<1>7. JournalInv /\ LaterInv /\ DownInv /\ EndInv
  BY <1>1, <1>3, UnloadedType DEF JournalInv, LaterInv, DownInv, EndInv
<1>8. RestsInv /\ FitsInv /\ BesideInv
  BY <1>2, <1>3, StreamsAreEntries DEF RestsInv, RestOK, FitsInv, FitOK, BesideInv, BesideOf, HeldFits, Beside
<1>9. SafeSaid /\ DiskReaches
  BY <1>1, <1>2, <1>5 DEF SafeSaid, DiskReaches
<1> QED BY <1>6, <1>7, <1>8, <1>9 DEF SafeInv

LEMMA StutterSafe ==
  ASSUME StoreViewInv, SafeInv, UNCHANGED vars
  PROVE  SafeInv'
<1>1. UNCHANGED <<node, file, spill, archive, promised, attempted, visible, stray, phase, held, failing, queue, writes, said, safe>>
  BY DEF vars, disk, archives, journal, told
<1>2. JournalInv' /\ SafeSaid' /\ DiskReaches'
  BY <1>1 DEF SafeInv, JournalInv, SafeSaid, DiskReaches, Live, KeptOf, OnDisk, Shown, Materialized, Prefix
<1>3. NumbersInv' /\ StreamInv' /\ LaterInv' /\ EndInv'
  BY <1>1 DEF SafeInv, NumbersInv, NumbersOf, StreamInv, StreamOf, LaterInv, Later, Writes, EndInv, Unheld, Begun, FileText
<1>4. RestsInv' /\ FitsInv' /\ BesideInv'
  BY <1>1, ShapesFrame
<1>5. DownInv'
  <2>1. \A c, e : Survives(c, e)' = Survives(c, e)
    BY <1>1, SurvivesFrame
  <2>2. Open' = Open /\ Live' = Live
    BY <1>1 DEF Open, Live
  <2> QED BY <1>1, <2>1, <2>2 DEF SafeInv, DownInv
<1> QED BY <1>2, <1>3, <1>4, <1>5 DEF SafeInv

LEMMA NextSafe == StoreViewInv /\ SafeInv /\ [Next]_vars => SafeInv'
<1> SUFFICES ASSUME StoreViewInv, SafeInv, [Next]_vars PROVE SafeInv'
  OBVIOUS
<1>1. CASE UNCHANGED vars
  BY <1>1, StutterSafe
<1>2. CASE CaptureWrites \/ WindowWrites
  BY <1>2, CapturesSafe, WindowWritesSafe
<1>3. CASE \/ \E e \in Lines : e \in held.files /\ said[e] # None /\ WindowAsks("rollback", e)
           \/ archive = None /\ WindowAsks("archive", None)
           \/ archive # None /\ \E kind \in {"commit", "cancel"} : WindowAsks(kind, None)
  BY <1>3, AsksSafe DEF Entries
<1>4. CASE WriteSteps \/ WriteRefused \/ HoldUnsafe
  BY <1>4, WriteStartsSafe, InitialSavedSafe, EntrySavedSafe, WordsSavedSafe, NodeSavedSafe, HoldRecordedSafe,
     HoldSafeSafe, WriteRefusedSafe, HoldUnsafeSafe DEF WriteSteps
<1>5. CASE RetrySteps \/ RetryRefused \/ WindowCallRefused
  BY <1>5, RetryStartsSafe, RetrySavesSafe, RetryUnlinksSafe, RetryClearsSafe, RetryEndsSafe, RefusedSafe
     DEF RetrySteps
<1>6. CASE WindowSteps
  BY <1>6, RollbackStartsSafe, RollbackEndsSafe, StagedSafe, CommitStartsSafe, CommitClosesSafe, CommitSweepsSafe
     DEF WindowSteps
<1>7. CASE Retry \/ Dies \/ Restarts \/ RestartsUnread
  BY <1>7, RetryAskedSafe, DiesSafe, ProcessSafe
<1> QED BY <1>1, <1>2, <1>3, <1>4, <1>5, <1>6, <1>7 DEF Next

\* What was answered as saved or recoverable survives the process, whole and
\* in its order, whatever it was doing when it died and whichever record the
\* journal then gives, but for the records nobody removed; a line that was
\* taken back does not come back.
THEOREM SafeCorrect == Spec => []SafeSurvives
<1>1. StoreViewInv /\ SafeInv => SafeSurvives
  BY SafeNow
<1>2. Spec => []SafeInv
  BY InitSafe, NextSafe, ViewAlways, PTL DEF Spec
<1> QED BY <1>1, <1>2, ViewAlways, PTL
=============================================================================
