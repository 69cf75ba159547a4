-------------------------- MODULE MachineForms_proofs --------------------------
(***************************************************************************)
(* Theorems about the two components that fill in forms and send them.     *)
(*                                                                         *)
(* MachineForms: its type invariant, that the system disk is the one the   *)
(* user marked, that what is sent passes the checks of the forms, that the *)
(* answer for one machine closes no other form, and that one click makes   *)
(* one machine.  They hold for any disks, and any number of forms, of      *)
(* clicks and of requests.                                                 *)
(*                                                                         *)
(* AccountImport: its type invariant, that settled validators mark the     *)
(* emails that are wrong, and that an import is reported as what became of *)
(* it.  They hold for any spreadsheet and any accounts.                    *)
(***************************************************************************)
EXTENDS MachineForms, AccountImport, SequenceTheorems, FiniteSetTheorems, TLAPS

\* A form with a disk, each of them once, whose mark is the one the user made.
Sound(f, mark) ==
    /\ f \in Form /\ f.disks # << >> /\ IsInjective(f.disks) /\ f.invalid \subseteq ToSet(f.disks)
    /\ mark \in Disks \cup {"none"}
    /\ mark # "none" => f.os_disk < Len(f.disks) /\ f.disks[f.os_disk + 1] = mark

\* Whatever page is open, those before it are valid.
PageFits(p, f) ==
    /\ p \in {"source", "config", "disks"} => f.details
    /\ p \in {"config", "disks"} => f.source

\* The modals and their pages.  While the last page goes, what it was clicked with is valid.
Shape ==
    /\ host \in {"single", "bulk"} /\ {shown, support} \subseteq BOOLEAN /\ (support => shown)
    /\ page \in Page /\ (page # "none" => Opened /\ clicks = 0)
    /\ closing \in BOOLEAN /\ clicks \in 0 .. MaxClicks /\ group \in Group
    /\ closing => page = "none" /\ clicks # 0 /\ Valid(form)

\* A ticket of a click that was made: on the form that is open for the id-th time, it is one
\* of the first n.
Spent(t, id, n) == t \in Forms \X (1 .. MaxClicks) /\ t[1] <= id /\ (t[1] = id => t[2] <= n)

\* What is listed is valid, not sent, and of one click each.
ListFits(list, sent, id, n) ==
    /\ list \in Seq(Machine)
    /\ \A i \in DOMAIN list :
           Valid(list[i]) /\ Spent(Ticket(list[i]), id, n) /\ Ticket(list[i]) \notin sent
    /\ \A i, j \in DOMAIN list : i # j => Ticket(list[i]) # Ticket(list[j])

\* What waits for an answer is valid and sent, and no two requests have a click in common.
Apart(sending) ==
    \A i, j \in DOMAIN sending : i # j =>
        \A e \in ToSet(sending[i].entries), f \in ToSet(sending[j].entries) : Ticket(e) # Ticket(f)

Asked(request, sent) ==
    /\ \A j \in DOMAIN request.entries :
           Valid(request.entries[j]) /\ Ticket(request.entries[j]) \in sent
    /\ request.group.mode => request.group.chosen

Sent == [entries : Seq(Machine), group : Group]

SentFits(sending, sent, id, n) ==
    /\ sending \in Seq(Sent) /\ Len(sending) <= MaxRequests
    /\ \A t \in sent : Spent(t, id, n)
    /\ \A i \in DOMAIN sending : Asked(sending[i], sent)
    /\ Apart(sending)

\* The modal of one machine lists none.  Unless a last button was clicked again, it stays
\* open, with no page, until the answer to its only request.
Waiting ==
    host = "single" =>
        /\ ~support /\ machines = << >> /\ group = NoGroup
        /\ (\A t \in posted : t[2] = 1) =>
               Len(requests) <= 1 /\ (requests # << >> => shown /\ page = "none")

FormsInv ==
    /\ Sound(form, marked) /\ PageFits(page, form) /\ Shape
    /\ ListFits(machines, posted, form.id, clicks) /\ SentFits(requests, posted, form.id, clicks)
    /\ Waiting

-----------------------------------------------------------------------------
(* The form.                                                                *)

Parts(g, id, details, source, disks, invalid, os_disk) ==
    /\ g \in Form /\ g.id = id /\ g.details = details /\ g.source = source
    /\ g.disks = disks /\ g.invalid = invalid /\ g.os_disk = os_disk

LEMMA WithDetails ==
    ASSUME NEW f \in Form, NEW v \in BOOLEAN
    PROVE  Parts([f EXCEPT !.details = v], f.id, v, f.source, f.disks, f.invalid, f.os_disk)
<1> DEFINE g == [f EXCEPT !.details = v]
<1>1. g \in Form
  BY SMT DEF Form
<1>2. g.id = f.id
  BY SMT DEF Form
<1>3. g.details = v
  BY Zenon DEF Form
<1>4. g.source = f.source
  BY Zenon DEF Form
<1>5. g.disks = f.disks
  BY SMT DEF Form
<1>6. g.invalid = f.invalid
  BY SMT DEF Form
<1>7. g.os_disk = f.os_disk
  BY SMT DEF Form
<1>8. QED
  BY <1>1, <1>2, <1>3, <1>4, <1>5, <1>6, <1>7 DEF Parts

LEMMA WithSource ==
    ASSUME NEW f \in Form, NEW v \in BOOLEAN
    PROVE  Parts([f EXCEPT !.source = v], f.id, f.details, v, f.disks, f.invalid, f.os_disk)
<1> DEFINE g == [f EXCEPT !.source = v]
<1>1. g \in Form
  BY SMT DEF Form
<1>2. g.id = f.id
  BY SMT DEF Form
<1>3. g.details = f.details
  BY Zenon DEF Form
<1>4. g.source = v
  BY Zenon DEF Form
<1>5. g.disks = f.disks
  BY SMT DEF Form
<1>6. g.invalid = f.invalid
  BY SMT DEF Form
<1>7. g.os_disk = f.os_disk
  BY SMT DEF Form
<1>8. QED
  BY <1>1, <1>2, <1>3, <1>4, <1>5, <1>6, <1>7 DEF Parts

LEMMA WithDisks ==
    ASSUME NEW f \in Form, NEW v \in Seq(Disks)
    PROVE  Parts([f EXCEPT !.disks = v], f.id, f.details, f.source, v, f.invalid, f.os_disk)
<1> DEFINE g == [f EXCEPT !.disks = v]
<1>1. g \in Form
  BY SMT DEF Form
<1>2. g.id = f.id
  BY SMT DEF Form
<1>3. g.details = f.details
  BY Zenon DEF Form
<1>4. g.source = f.source
  BY Zenon DEF Form
<1>5. g.disks = v
  BY SMT DEF Form
<1>6. g.invalid = f.invalid
  BY SMT DEF Form
<1>7. g.os_disk = f.os_disk
  BY SMT DEF Form
<1>8. QED
  BY <1>1, <1>2, <1>3, <1>4, <1>5, <1>6, <1>7 DEF Parts

LEMMA WithInvalid ==
    ASSUME NEW f \in Form, NEW v \in SUBSET Disks
    PROVE  Parts([f EXCEPT !.invalid = v], f.id, f.details, f.source, f.disks, v, f.os_disk)
<1> DEFINE g == [f EXCEPT !.invalid = v]
<1>1. g \in Form
  BY SMT DEF Form
<1>2. g.id = f.id
  BY SMT DEF Form
<1>3. g.details = f.details
  BY Zenon DEF Form
<1>4. g.source = f.source
  BY Zenon DEF Form
<1>5. g.disks = f.disks
  BY SMT DEF Form
<1>6. g.invalid = v
  BY SMT DEF Form
<1>7. g.os_disk = f.os_disk
  BY SMT DEF Form
<1>8. QED
  BY <1>1, <1>2, <1>3, <1>4, <1>5, <1>6, <1>7 DEF Parts

LEMMA WithMark ==
    ASSUME NEW f \in Form, NEW v \in Nat
    PROVE  Parts([f EXCEPT !.os_disk = v], f.id, f.details, f.source, f.disks, f.invalid, v)
<1> DEFINE g == [f EXCEPT !.os_disk = v]
<1>1. g \in Form
  BY SMT DEF Form
<1>2. g.id = f.id
  BY SMT DEF Form
<1>3. g.details = f.details
  BY Zenon DEF Form
<1>4. g.source = f.source
  BY Zenon DEF Form
<1>5. g.disks = f.disks
  BY SMT DEF Form
<1>6. g.invalid = f.invalid
  BY SMT DEF Form
<1>7. g.os_disk = v
  BY SMT DEF Form
<1>8. QED
  BY <1>1, <1>2, <1>3, <1>4, <1>5, <1>6, <1>7 DEF Parts

LEMMA WithDisksInvalid ==
    ASSUME NEW f \in Form, NEW s \in Seq(Disks), NEW v \in SUBSET Disks
    PROVE  Parts([f EXCEPT !.disks = s, !.invalid = v], f.id, f.details, f.source, s, v, f.os_disk)
<1> DEFINE g == [f EXCEPT !.disks = s]
<1>1. Parts(g, f.id, f.details, f.source, s, f.invalid, f.os_disk)
  BY WithDisks
<1>2. [f EXCEPT !.disks = s, !.invalid = v] = [g EXCEPT !.invalid = v]
  OBVIOUS
<1> HIDE DEF g
<1>3. Parts([g EXCEPT !.invalid = v], g.id, g.details, g.source, g.disks, v, g.os_disk)
  BY <1>1, WithInvalid DEF Parts
<1>4. QED
  BY <1>1, <1>2, <1>3 DEF Parts

LEMMA WithAll ==
    ASSUME NEW f \in Form, NEW s \in Seq(Disks), NEW v \in SUBSET Disks, NEW n \in Nat
    PROVE  Parts([f EXCEPT !.disks = s, !.invalid = v, !.os_disk = n],
                 f.id, f.details, f.source, s, v, n)
<1> DEFINE g == [f EXCEPT !.disks = s, !.invalid = v]
<1>1. Parts(g, f.id, f.details, f.source, s, v, f.os_disk)
  BY WithDisksInvalid
<1>2. [f EXCEPT !.disks = s, !.invalid = v, !.os_disk = n] = [g EXCEPT !.os_disk = n]
  OBVIOUS
<1> HIDE DEF g
<1>3. Parts([g EXCEPT !.os_disk = n], g.id, g.details, g.source, g.disks, g.invalid, n)
  BY <1>1, WithMark DEF Parts
<1>4. QED
  BY <1>1, <1>2, <1>3 DEF Parts

LEMMA RemovedAt ==
    ASSUME NEW S, NEW s \in Seq(S), NEW i \in 1 .. Len(s)
    PROVE  /\ RemoveAt(s, i) \in Seq(S) /\ Len(RemoveAt(s, i)) = Len(s) - 1
           /\ \A j \in 1 .. Len(s) - 1 : RemoveAt(s, i)[j] = s[IF j < i THEN j ELSE j + 1]
<1> DEFINE a == SubSeq(s, 1, i - 1)
           b == SubSeq(s, i + 1, Len(s))
<1>1. a \in Seq(S) /\ Len(a) = i - 1 /\ \A j \in 1 .. i - 1 : a[j] = s[j]
  OBVIOUS
<1>2. b \in Seq(S) /\ Len(b) = Len(s) - i /\ \A j \in 1 .. Len(s) - i : b[j] = s[i + j]
  OBVIOUS
<1> HIDE DEF a, b
<1>3. /\ a \o b \in Seq(S) /\ Len(a \o b) = Len(s) - 1
      /\ \A j \in 1 .. Len(s) - 1 : (a \o b)[j] = IF j < i THEN a[j] ELSE b[j - (i - 1)]
  <2>1. Len(a) \in Nat /\ Len(b) \in Nat /\ Len(a) + Len(b) = Len(s) - 1
    BY <1>1, <1>2
  <2>2. /\ a \o b \in Seq(S) /\ Len(a \o b) = Len(a) + Len(b)
        /\ \A j \in 1 .. Len(a) + Len(b) : (a \o b)[j] = IF j <= Len(a) THEN a[j] ELSE b[j - Len(a)]
    BY <1>1, <1>2, ConcatProperties
  <2>3. QED
    BY <1>1, <2>1, <2>2
<1>4. \A j \in 1 .. Len(s) - 1 : (a \o b)[j] = s[IF j < i THEN j ELSE j + 1]
  BY <1>1, <1>2, <1>3
<1>5. QED
  BY <1>3, <1>4 DEF a, b, RemoveAt

\* What is removed was there once, and the rest stays.
LEMMA RemovedDistinct ==
    ASSUME NEW S, NEW s \in Seq(S), NEW i \in 1 .. Len(s), IsInjective(s)
    PROVE  IsInjective(RemoveAt(s, i)) /\ ToSet(s) \ {s[i]} \subseteq ToSet(RemoveAt(s, i))
<1> DEFINE rest == RemoveAt(s, i)
           from(j) == IF j < i THEN j ELSE j + 1
<1>1. /\ DOMAIN s = 1 .. Len(s) /\ Len(s) \in Nat /\ DOMAIN rest = 1 .. Len(s) - 1
      /\ \A j \in 1 .. Len(s) - 1 : rest[j] = s[from(j)]
  <2>1. rest \in Seq(S) /\ Len(rest) = Len(s) - 1
    BY RemovedAt
  <2>2. ASSUME NEW j \in 1 .. Len(s) - 1 PROVE rest[j] = s[from(j)]
    BY RemovedAt
  <2> HIDE DEF rest
  <2>3. DOMAIN rest = 1 .. Len(s) - 1
    BY <2>1
  <2>4. QED
    BY <2>2, <2>3
<1> HIDE DEF rest
<1>2. \A j, k \in 1 .. Len(s) - 1 : from(j) = from(k) => j = k
  OBVIOUS
<1>3. \A j \in 1 .. Len(s) - 1 : from(j) \in 1 .. Len(s)
  BY <1>1
<1>4. IsInjective(rest)
  <2> HIDE DEF from
  <2>1. QED
    BY <1>1, <1>2, <1>3 DEF IsInjective
<1>5. ASSUME NEW x \in ToSet(s), x # s[i]
      PROVE  x \in ToSet(rest)
  <2> PICK j \in 1 .. Len(s) : s[j] = x
    BY <1>1 DEF ToSet
  <2>1. CASE j < i
    <3>1. j \in 1 .. Len(s) - 1 /\ from(j) = j
      BY <1>1, <2>1
    <3>2. QED
      BY <1>1, <3>1 DEF ToSet
  <2>2. CASE j > i
    <3>1. j - 1 \in 1 .. Len(s) - 1 /\ from(j - 1) = j
      BY <1>1, <2>2
    <3>2. QED
      BY <1>1, <3>1 DEF ToSet
  <2>3. QED
    BY <1>1, <1>5, <2>1, <2>2
<1>6. QED
  BY <1>4, <1>5 DEF rest

LEMMA AppendedDistinct ==
    ASSUME NEW S, NEW s \in Seq(S), NEW d \in S, IsInjective(s), d \notin ToSet(s)
    PROVE  IsInjective(Append(s, d)) /\ ToSet(s) \cup {d} \subseteq ToSet(Append(s, d))
<1> DEFINE more == Append(s, d)
<1>1. /\ DOMAIN s = 1 .. Len(s) /\ Len(s) \in Nat /\ DOMAIN more = 1 .. Len(s) + 1
      /\ more[Len(s) + 1] = d /\ \A j \in 1 .. Len(s) : more[j] = s[j]
  OBVIOUS
<1> HIDE DEF more
<1>2. \A j \in 1 .. Len(s) : s[j] # d
  BY <1>1 DEF ToSet
<1>3. IsInjective(more)
  <2> SUFFICES ASSUME NEW j \in 1 .. Len(s) + 1, NEW k \in 1 .. Len(s) + 1, more[j] = more[k]
               PROVE  j = k
    BY <1>1 DEF IsInjective
  <2>1. CASE j \in 1 .. Len(s) /\ k \in 1 .. Len(s)
    BY <1>1, <2>1 DEF IsInjective
  <2>2. CASE j = Len(s) + 1 \/ k = Len(s) + 1
    BY <1>1, <1>2, <2>2
  <2>3. QED
    BY <1>1, <2>1, <2>2
<1>4. ToSet(s) \cup {d} \subseteq ToSet(more)
  <2>1. d \in ToSet(more)
    BY <1>1 DEF ToSet
  <2>2. ASSUME NEW x \in ToSet(s) PROVE x \in ToSet(more)
    <3> PICK j \in 1 .. Len(s) : s[j] = x
      BY <1>1 DEF ToSet
    <3>1. QED
      BY <1>1 DEF ToSet
  <2>3. QED
    BY <2>1, <2>2
<1>5. QED
  BY <1>3, <1>4 DEF more

LEMMA FreshIsSound ==
    ASSUME NEW id \in Forms
    PROVE  Sound(Fresh(id), System) /\ Fresh(id).id = id /\ Fresh(id).details
<1> DEFINE one == <<System>>
<1>1. one \in Seq(Disks) /\ Len(one) = 1 /\ one[1] = System /\ DOMAIN one = {1} /\ one # << >>
  BY DEF Disks
<1> HIDE DEF one
<1>2. /\ Fresh(id) = [id |-> id, details |-> TRUE, source |-> FALSE, disks |-> one,
                      invalid |-> {}, os_disk |-> 0]
  BY DEF Fresh, one
<1>3. Fresh(id) \in Form
  BY <1>1, <1>2 DEF Form
<1>4. Fresh(id).disks = one /\ Fresh(id).invalid = {} /\ Fresh(id).os_disk = 0
  BY <1>2
<1>5. QED
  BY <1>1, <1>2, <1>3, <1>4 DEF Sound, IsInjective, Disks

\* What the invariant says of the form.
LEMMA FormIsSound ==
    ASSUME FormsInv
    PROVE  /\ Sound(form, marked) /\ PageFits(page, form) /\ form.disks \in Seq(Disks)
           /\ form.invalid \in SUBSET Disks /\ form.os_disk \in Nat /\ form.id \in Forms
           /\ form.id \in Nat /\ form.details \in BOOLEAN /\ form.source \in BOOLEAN
<1>1. form \in Form
  BY DEF FormsInv, Sound
<1>2. /\ form.disks \in Seq(Disks) /\ form.invalid \in SUBSET Disks /\ form.os_disk \in Nat
      /\ form.id \in Forms
  BY <1>1, SMT DEF Form
<1>3. form.details \in BOOLEAN /\ form.source \in BOOLEAN
  BY <1>1, Zenon DEF Form
<1>4. form.id \in Nat
  BY <1>2, FormsAssumption DEF Forms
<1>5. QED
  BY <1>1, <1>2, <1>3, <1>4 DEF FormsInv

\* What the invariant says of the rest.
LEMMA RestIsTyped ==
    ASSUME FormsInv
    PROVE  /\ host \in {"single", "bulk"} /\ {shown, support} \subseteq BOOLEAN /\ (support => shown)
           /\ page \in Page /\ (page # "none" => Opened /\ clicks = 0)
           /\ closing \in BOOLEAN /\ clicks \in 0 .. MaxClicks /\ clicks \in Nat
           /\ closing => page = "none" /\ clicks # 0 /\ Valid(form)
           /\ machines \in Seq(Machine) /\ group \in Group /\ NoGroup \in Group
           /\ requests \in Seq(Sent) /\ Len(requests) <= MaxRequests /\ Len(requests) \in Nat
           /\ DOMAIN machines = 1 .. Len(machines) /\ Len(machines) \in Nat
           /\ ListFits(machines, posted, form.id, clicks)
           /\ SentFits(requests, posted, form.id, clicks)
<1>1. machines \in Seq(Machine) /\ requests \in Seq(Sent) /\ Len(requests) <= MaxRequests
  BY DEF FormsInv, ListFits, SentFits
<1>2. NoGroup \in Group
  BY DEF NoGroup, Group
<1>3. DOMAIN machines = 1 .. Len(machines) /\ Len(machines) \in Nat /\ Len(requests) \in Nat
  BY <1>1
<1>4. clicks \in Nat
  BY FormsAssumption DEF FormsInv, Shape
<1>5. QED
  BY <1>1, <1>2, <1>3, <1>4 DEF FormsInv, Shape

-----------------------------------------------------------------------------
(* Tickets.                                                                 *)

LEMMA TicketOf ==
    ASSUME NEW m \in Machine
    PROVE  /\ Ticket(m) \in Forms \X (1 .. MaxClicks) /\ Ticket(m)[1] = m.id /\ Ticket(m)[2] = m.click
  BY DEF Ticket, Machine

\* A click stays made.
LEMMA SpentLater ==
    ASSUME NEW t, NEW id \in Nat, NEW n \in Nat, Spent(t, id, n),
           NEW id2 \in Nat, NEW n2 \in Nat, id <= id2, id = id2 => n <= n2
    PROVE  Spent(t, id2, n2)
<1>1. t[1] \in Nat /\ t[2] \in Nat
  BY FormsAssumption DEF Spent, Forms
<1>2. QED
  BY <1>1 DEF Spent

LEMMA ListLater ==
    ASSUME NEW list, NEW sent, NEW id \in Nat, NEW n \in Nat, ListFits(list, sent, id, n),
           NEW id2 \in Nat, NEW n2 \in Nat, id <= id2, id = id2 => n <= n2
    PROVE  ListFits(list, sent, id2, n2)
  BY SpentLater DEF ListFits

LEMMA SentLater ==
    ASSUME NEW sending, NEW sent, NEW id \in Nat, NEW n \in Nat, SentFits(sending, sent, id, n),
           NEW id2 \in Nat, NEW n2 \in Nat, id <= id2, id = id2 => n <= n2
    PROVE  SentFits(sending, sent, id2, n2)
  BY SpentLater DEF SentFits

\* A request more, of what was not sent.
LEMMA SendFits ==
    ASSUME NEW sending, NEW sent, NEW id, NEW n, SentFits(sending, sent, id, n),
           NEW entries \in Seq(Machine), NEW g \in Group, g.mode => g.chosen,
           Len(sending) < MaxRequests,
           \A j \in DOMAIN entries : /\ Valid(entries[j]) /\ Spent(Ticket(entries[j]), id, n)
                                     /\ Ticket(entries[j]) \notin sent
    PROVE  LET new == [entries |-> entries, group |-> g]
           IN  /\ SentFits(Append(sending, new), sent \cup {Ticket(entries[j]) : j \in DOMAIN entries}, id, n)
               /\ Len(Append(sending, new)) = Len(sending) + 1
<1> DEFINE new == [entries |-> entries, group |-> g]
           more == Append(sending, new)
           sent2 == sent \cup {Ticket(entries[j]) : j \in DOMAIN entries}
<1>1. new \in Sent /\ new.entries = entries /\ new.group = g
  BY DEF Sent
<1> HIDE DEF new
<1>2. /\ sending \in Seq(Sent) /\ Len(sending) \in Nat /\ DOMAIN sending = 1 .. Len(sending)
      /\ more \in Seq(Sent) /\ Len(more) = Len(sending) + 1 /\ DOMAIN more = 1 .. Len(sending) + 1
      /\ more[Len(sending) + 1] = new /\ \A i \in 1 .. Len(sending) : more[i] = sending[i]
  BY <1>1 DEF SentFits
<1> HIDE DEF more
<1>3. Len(more) <= MaxRequests
  BY <1>2, FormsAssumption
<1>4. \A t \in sent2 : Spent(t, id, n)
  BY DEF SentFits
<1>5. \A j \in DOMAIN entries : Ticket(entries[j]) \in sent2
  OBVIOUS
<1>6. sent \subseteq sent2
  OBVIOUS
<1> HIDE DEF sent2
<1>7. ASSUME NEW i \in DOMAIN more PROVE Asked(more[i], sent2)
  <2>1. CASE i = Len(sending) + 1
    BY <1>1, <1>2, <1>5, <2>1 DEF Asked
  <2>2. CASE i \in 1 .. Len(sending)
    <3>1. Asked(sending[i], sent) /\ more[i] = sending[i]
      BY <1>2, <2>2 DEF SentFits
    <3>2. QED
      BY <1>6, <3>1 DEF Asked
  <2>3. QED
    BY <1>2, <2>1, <2>2
<1>8. ASSUME NEW i \in 1 .. Len(sending), NEW e \in ToSet(sending[i].entries)
      PROVE  Ticket(e) \in sent
  BY <1>2, <1>8 DEF SentFits, Asked, ToSet
<1>9. \A f \in ToSet(entries) : Ticket(f) \notin sent
  BY DEF ToSet
<1>10. Apart(more)
  <2> SUFFICES ASSUME NEW i \in 1 .. Len(sending) + 1, NEW j \in 1 .. Len(sending) + 1, i # j,
                      NEW e \in ToSet(more[i].entries), NEW f \in ToSet(more[j].entries)
               PROVE  Ticket(e) # Ticket(f)
    BY <1>2 DEF Apart
  <2>1. CASE i = Len(sending) + 1
    BY <1>1, <1>2, <1>8, <1>9, <2>1
  <2>2. CASE j = Len(sending) + 1
    BY <1>1, <1>2, <1>8, <1>9, <2>2
  <2>3. CASE i \in 1 .. Len(sending) /\ j \in 1 .. Len(sending)
    BY <1>2, <2>3 DEF SentFits, Apart
  <2>4. QED
    BY <1>2, <2>1, <2>2, <2>3
<1>11. SentFits(more, sent2, id, n)
  BY <1>2, <1>3, <1>4, <1>7, <1>10 DEF SentFits
<1>12. QED
  BY <1>2, <1>11 DEF more, sent2, new

\* A request less.
LEMMA AnsweredFits ==
    ASSUME NEW sending, NEW sent, NEW id, NEW n, SentFits(sending, sent, id, n), NEW i \in DOMAIN sending
    PROVE  SentFits(RemoveAt(sending, i), sent, id, n) /\ Len(RemoveAt(sending, i)) = Len(sending) - 1
<1> DEFINE rest == RemoveAt(sending, i)
           from(j) == IF j < i THEN j ELSE j + 1
<1>1. /\ sending \in Seq(Sent) /\ i \in 1 .. Len(sending) /\ Len(sending) \in Nat
      /\ DOMAIN sending = 1 .. Len(sending) /\ Len(sending) <= MaxRequests
  BY DEF SentFits
<1>2. /\ rest \in Seq(Sent) /\ Len(rest) = Len(sending) - 1
      /\ \A j \in 1 .. Len(sending) - 1 : rest[j] = sending[from(j)]
  BY <1>1, RemovedAt
<1> HIDE DEF rest
<1>3. DOMAIN rest = 1 .. Len(sending) - 1 /\ Len(rest) <= MaxRequests
  BY <1>1, <1>2, FormsAssumption
<1>4. /\ \A j \in DOMAIN rest : from(j) \in DOMAIN sending /\ rest[j] = sending[from(j)]
      /\ \A j, k \in DOMAIN rest : from(j) = from(k) => j = k
  BY <1>1, <1>2, <1>3
<1> HIDE DEF from
<1>5. QED
  BY <1>2, <1>3, <1>4 DEF SentFits, Apart, rest

LEMMA RemovedFits ==
    ASSUME NEW list, NEW sent, NEW id, NEW n, ListFits(list, sent, id, n), NEW i \in DOMAIN list
    PROVE  ListFits(RemoveAt(list, i), sent, id, n)
<1> DEFINE rest == RemoveAt(list, i)
           from(j) == IF j < i THEN j ELSE j + 1
<1>1. /\ list \in Seq(Machine) /\ i \in 1 .. Len(list) /\ Len(list) \in Nat /\ DOMAIN list = 1 .. Len(list)
  BY DEF ListFits
<1>2. /\ rest \in Seq(Machine) /\ Len(rest) = Len(list) - 1
      /\ \A j \in 1 .. Len(list) - 1 : rest[j] = list[from(j)]
  BY <1>1, RemovedAt
<1> HIDE DEF rest
<1>3. DOMAIN rest = 1 .. Len(list) - 1
  BY <1>2
<1>4. /\ \A j \in DOMAIN rest : from(j) \in DOMAIN list /\ rest[j] = list[from(j)]
      /\ \A j, k \in DOMAIN rest : from(j) = from(k) => j = k
  BY <1>1, <1>2, <1>3
<1> HIDE DEF from
<1>5. QED
  BY <1>2, <1>4 DEF ListFits, rest

LEMMA ListedFits ==
    ASSUME NEW list, NEW sent, NEW id \in Nat, NEW n \in Nat, ListFits(list, sent, id, n),
           NEW m \in Machine, Valid(m), Ticket(m) = <<id, n + 1>>, Ticket(m) \notin sent
    PROVE  ListFits(Append(list, m), sent, id, n + 1)
<1>1. ListFits(list, sent, id, n + 1)
  BY ListLater
<1>2. Spent(Ticket(m), id, n + 1)
  BY TicketOf DEF Spent
<1>3. \A i \in DOMAIN list : Ticket(list[i]) # Ticket(m)
  BY DEF ListFits, Spent
<1> DEFINE more == Append(list, m)
<1>4. /\ list \in Seq(Machine) /\ Len(list) \in Nat /\ DOMAIN list = 1 .. Len(list)
      /\ more \in Seq(Machine) /\ DOMAIN more = 1 .. Len(list) + 1
      /\ more[Len(list) + 1] = m /\ \A i \in 1 .. Len(list) : more[i] = list[i]
  BY DEF ListFits
<1> HIDE DEF more
<1>5. ASSUME NEW i \in 1 .. Len(list) + 1
      PROVE  /\ Valid(more[i]) /\ Spent(Ticket(more[i]), id, n + 1) /\ Ticket(more[i]) \notin sent
  <2>1. CASE i = Len(list) + 1
    BY <1>2, <1>4, <2>1
  <2>2. CASE i \in 1 .. Len(list)
    BY <1>1, <1>4, <2>2 DEF ListFits
  <2>3. QED
    BY <1>4, <2>1, <2>2
<1>6. ASSUME NEW i \in 1 .. Len(list) + 1, NEW j \in 1 .. Len(list) + 1, i # j
      PROVE  Ticket(more[i]) # Ticket(more[j])
  <2>1. CASE i = Len(list) + 1
    BY <1>3, <1>4, <1>6, <2>1
  <2>2. CASE j = Len(list) + 1
    BY <1>3, <1>4, <1>6, <2>2
  <2>3. CASE i \in 1 .. Len(list) /\ j \in 1 .. Len(list)
    BY <1>1, <1>4, <1>6, <2>3 DEF ListFits
  <2>4. QED
    BY <1>4, <2>1, <2>2, <2>3
<1>7. QED
  BY <1>4, <1>5, <1>6 DEF ListFits, more

LEMMA FormsInit == Init => FormsInv
<1> SUFFICES ASSUME Init PROVE FormsInv
  OBVIOUS
<1>1. /\ machines = << >> /\ requests = << >> /\ DOMAIN machines = {} /\ DOMAIN requests = {}
      /\ machines \in Seq(Machine) /\ requests \in Seq(Sent) /\ Len(requests) = 0 /\ posted = {}
  BY DEF Init
<1>2. 0 \in Forms /\ Len(requests) <= MaxRequests /\ 0 \in 0 .. MaxClicks
  BY <1>1, FormsAssumption DEF Forms
<1>3. Sound(form, marked)
  BY <1>2, FreshIsSound DEF Init
<1>4. group \in Group
  BY DEF Init, NoGroup, Group
<1>5. PageFits(page, form) /\ Shape /\ Waiting
  <2>1. PageFits(page, form) /\ Waiting
    BY <1>1 DEF Init, PageFits, Waiting
  <2>2. /\ host \in {"single", "bulk"} /\ shown = FALSE /\ support = FALSE /\ page = "none"
        /\ closing = FALSE /\ clicks = 0
    BY DEF Init
  <2>3. QED
    BY <1>2, <1>4, <2>1, <2>2 DEF Shape, Page
<1>6. ListFits(machines, posted, form.id, clicks) /\ SentFits(requests, posted, form.id, clicks)
  BY <1>1, <1>2 DEF ListFits, SentFits, Apart
<1>7. QED
  BY <1>3, <1>5, <1>6 DEF FormsInv

-----------------------------------------------------------------------------
(* The invariant is kept.                                                   *)

\* The form is changed, or another of its pages is opened.
LEMMA ChangedKeeps ==
    ASSUME FormsInv, page # "none", page' \in Page, page' # "none",
           UNCHANGED <<host, shown, support, last, bulk, requests, posted>>,
           Sound(form', marked'), form'.id = form.id, PageFits(page', form')
    PROVE  FormsInv'
<1>1. UNCHANGED <<machines, group, closing, clicks>>
  BY DEF bulk, last
<1>2. Shape'
  BY <1>1, RestIsTyped DEF Shape, Opened
<1>3. ListFits(machines', posted', form'.id, clicks') /\ SentFits(requests', posted', form'.id, clicks')
  BY <1>1, RestIsTyped
<1>4. Waiting'
  BY <1>1 DEF FormsInv, Waiting
<1>5. QED
  BY <1>2, <1>3, <1>4 DEF FormsInv

LEMMA FillKeeps ==
    ASSUME FormsInv, Fill
    PROVE  FormsInv'
<1>1. /\ Sound(form, marked) /\ PageFits(page, form) /\ form.disks \in Seq(Disks)
      /\ form.invalid \in SUBSET Disks /\ form.os_disk \in Nat
      /\ form \in Form /\ page \in Page
  BY FormIsSound, RestIsTyped DEF Sound
<1>2. ASSUME NEW p \in Page, p # "none", NEW f, Filled(p, f), Sound(f, marked'), f.id = form.id,
             PageFits(p, f)
      PROVE  FormsInv'
  BY <1>2, ChangedKeeps DEF Filled
<1>3. ASSUME NEW b \in BOOLEAN, EditDetails(b)
      PROVE  FormsInv'
  <2> DEFINE f == [form EXCEPT !.details = b]
  <2>1. Filled("details", f) /\ UNCHANGED marked
    BY <1>3 DEF EditDetails
  <2>2. Parts(f, form.id, b, form.source, form.disks, form.invalid, form.os_disk)
    BY <1>1, WithDetails
  <2> HIDE DEF f
  <2>3. Sound(f, marked') /\ f.id = form.id /\ PageFits("details", f)
    BY <1>1, <2>1, <2>2 DEF Sound, Parts, PageFits
  <2>4. QED
    BY <1>2, <2>1, <2>3 DEF Page
<1>4. ASSUME NEW b \in BOOLEAN, SelectSource(b)
      PROVE  FormsInv'
  <2> DEFINE f == [form EXCEPT !.source = b]
  <2>1. Filled("source", f) /\ page = "source" /\ UNCHANGED marked
    BY <1>4 DEF SelectSource, Filled
  <2>2. Parts(f, form.id, form.details, b, form.disks, form.invalid, form.os_disk)
    BY <1>1, WithSource
  <2> HIDE DEF f
  <2>3. Sound(f, marked') /\ f.id = form.id /\ PageFits("source", f)
    BY <1>1, <2>1, <2>2 DEF Sound, Parts, PageFits
  <2>4. QED
    BY <1>2, <2>1, <2>3 DEF Page
<1>5. ASSUME NEW f, Filled("disks", f), Sound(f, marked'),
             f.id = form.id, f.details = form.details, f.source = form.source
      PROVE  FormsInv'
  <2>1. page = "disks"
    BY <1>5 DEF Filled
  <2>2. PageFits("disks", f)
    BY <1>1, <1>5, <2>1 DEF PageFits
  <2>3. QED
    BY <1>2, <1>5, <2>2 DEF Page
<1>6. ASSUME NEW d \in Disk, CreateNewDisk(d)
      PROVE  FormsInv'
  <2> DEFINE more == Append(form.disks, d)
             invalid == form.invalid \cup {d}
             f == [form EXCEPT !.disks = more, !.invalid = invalid]
  <2>1. Filled("disks", f) /\ UNCHANGED marked /\ d \notin ToSet(form.disks)
    BY <1>6 DEF CreateNewDisk
  <2>2. /\ more \in Seq(Disks) /\ Len(more) = Len(form.disks) + 1 /\ invalid \in SUBSET Disks
        /\ \A j \in 1 .. Len(form.disks) : more[j] = form.disks[j]
    BY <1>1 DEF Disks
  <2>3. IsInjective(more) /\ ToSet(form.disks) \cup {d} \subseteq ToSet(more)
    BY <1>1, <2>1, AppendedDistinct DEF Sound, Disks
  <2>4. Parts(f, form.id, form.details, form.source, more, invalid, form.os_disk)
    BY <1>1, <2>2, WithDisksInvalid
  <2>5. invalid \subseteq ToSet(more)
    BY <1>1, <2>3 DEF Sound
  <2> HIDE DEF f, more, invalid
  <2>6. more # << >> /\ Len(form.disks) \in Nat
    BY <1>1, <2>2
  <2>7. marked # "none" => form.os_disk < Len(more) /\ more[form.os_disk + 1] = marked
    <3>1. marked # "none" => form.os_disk + 1 \in 1 .. Len(form.disks)
      BY <1>1, <2>6 DEF Sound
    <3>2. QED
      BY <1>1, <2>2, <2>6, <3>1 DEF Sound
  <2>8. Sound(f, marked')
    BY <1>1, <2>1, <2>3, <2>4, <2>5, <2>6, <2>7 DEF Sound, Parts
  <2>9. QED
    BY <1>5, <2>1, <2>4, <2>8 DEF Parts
<1>7. ASSUME NEW d \in Disks, NEW b \in BOOLEAN, EditDisk(d, b)
      PROVE  FormsInv'
  <2> DEFINE invalid == IF b THEN form.invalid \ {d} ELSE form.invalid \cup {d}
             f == [form EXCEPT !.invalid = invalid]
  <2>1. Filled("disks", f) /\ UNCHANGED marked /\ d \in ToSet(form.disks)
    BY <1>7 DEF EditDisk
  <2>2. invalid \in SUBSET Disks /\ invalid \subseteq ToSet(form.disks)
    BY <1>1, <2>1 DEF Sound
  <2>3. Parts(f, form.id, form.details, form.source, form.disks, invalid, form.os_disk)
    BY <1>1, <2>2, WithInvalid
  <2> HIDE DEF f, invalid
  <2>4. Sound(f, marked')
    BY <1>1, <2>1, <2>2, <2>3 DEF Sound, Parts
  <2>5. QED
    BY <1>5, <2>1, <2>3, <2>4 DEF Parts
<1>8. ASSUME NEW i \in DOMAIN form.disks, MarkDisk(i)
      PROVE  FormsInv'
  <2> DEFINE f == [form EXCEPT !.os_disk = i - 1]
  <2>1. Filled("disks", f) /\ marked' = form.disks[i]
    BY <1>8 DEF MarkDisk
  <2>2. i \in 1 .. Len(form.disks) /\ i - 1 \in Nat /\ i - 1 < Len(form.disks) /\ (i - 1) + 1 = i
    BY <1>1
  <2>3. Parts(f, form.id, form.details, form.source, form.disks, form.invalid, i - 1)
    BY <1>1, <2>2, WithMark
  <2>4. marked' \in Disks
    BY <1>1, <2>1, <2>2
  <2> HIDE DEF f
  <2>5. Sound(f, marked')
    BY <1>1, <2>1, <2>2, <2>3, <2>4 DEF Sound, Parts
  <2>6. QED
    BY <1>5, <2>1, <2>3, <2>5 DEF Parts
<1>9. ASSUME NEW i \in DOMAIN form.disks, RemoveDisk(i)
      PROVE  FormsInv'
  <2> DEFINE rest == RemoveAt(form.disks, i)
             invalid == form.invalid \ {form.disks[i]}
             index == IF form.os_disk >= i - 1 THEN form.os_disk - 1 ELSE form.os_disk
             f == [form EXCEPT !.disks = rest, !.invalid = invalid, !.os_disk = index]
  <2>1. Filled("disks", f) /\ UNCHANGED marked /\ Len(form.disks) > 1 /\ form.os_disk # i - 1
    <3>1. Filled("disks", f) /\ UNCHANGED marked
      BY <1>9 DEF RemoveDisk, Removed
    <3>2. Len(form.disks) > 1 /\ form.os_disk # i - 1
      BY <1>1, <1>9 DEF RemoveDisk, CanRemoveDisk
    <3>3. QED
      BY <3>1, <3>2
  <2>2. i \in 1 .. Len(form.disks) /\ Len(form.disks) \in Nat
    BY <1>1
  <2>3. /\ rest \in Seq(Disks) /\ Len(rest) = Len(form.disks) - 1
        /\ \A j \in 1 .. Len(form.disks) - 1 : rest[j] = form.disks[IF j < i THEN j ELSE j + 1]
    BY <1>1, <2>2, RemovedAt
  <2>4. IsInjective(rest) /\ ToSet(form.disks) \ {form.disks[i]} \subseteq ToSet(rest)
    BY <1>1, <2>2, RemovedDistinct DEF Sound
  <2>5. invalid \subseteq ToSet(rest) /\ invalid \in SUBSET Disks
    BY <1>1, <2>4 DEF Sound
  <2>6. index \in Nat
    BY <1>1, <2>1, <2>2
  <2>7. Parts(f, form.id, form.details, form.source, rest, invalid, index)
    BY <1>1, <2>3, <2>5, <2>6, WithAll
  <2>8. index = IF form.os_disk >= i - 1 THEN form.os_disk - 1 ELSE form.os_disk
    OBVIOUS
  <2> HIDE DEF f, rest, invalid, index
  <2>9. marked # "none" => index < Len(rest) /\ rest[index + 1] = marked
    <3> SUFFICES ASSUME marked # "none" PROVE index < Len(rest) /\ rest[index + 1] = marked
      OBVIOUS
    <3>1. form.os_disk < Len(form.disks) /\ form.disks[form.os_disk + 1] = marked
      BY <1>1 DEF Sound
    <3>2. CASE form.os_disk >= i - 1
      <4>1. index = form.os_disk - 1 /\ form.os_disk \in 1 .. Len(form.disks) - 1 /\ ~(form.os_disk < i)
        BY <1>1, <2>1, <2>2, <2>8, <3>1, <3>2
      <4>2. index + 1 = form.os_disk
        BY <4>1
      <4>3. rest[form.os_disk] = form.disks[IF form.os_disk < i THEN form.os_disk ELSE form.os_disk + 1]
        BY <2>3, <4>1
      <4>4. rest[form.os_disk] = form.disks[form.os_disk + 1]
        BY <4>1, <4>3
      <4>5. QED
        BY <2>2, <2>3, <3>1, <4>1, <4>2, <4>4
    <3>3. CASE ~(form.os_disk >= i - 1)
      <4>1. index = form.os_disk /\ index + 1 \in 1 .. Len(form.disks) - 1 /\ index + 1 < i
        BY <1>1, <2>1, <2>2, <2>8, <3>1, <3>3
      <4>2. rest[index + 1] = form.disks[index + 1]
        BY <2>3, <4>1
      <4>3. index < Len(rest)
        BY <2>2, <2>3, <2>6, <4>1
      <4>4. QED
        BY <3>1, <4>1, <4>2, <4>3
    <3>4. QED
      BY <3>2, <3>3
  <2>10. rest # << >>
    BY <2>1, <2>2, <2>3
  <2>11. Sound(f, marked')
    BY <1>1, <2>1, <2>4, <2>5, <2>7, <2>9, <2>10 DEF Sound, Parts
  <2>12. QED
    BY <1>5, <2>1, <2>7, <2>11 DEF Parts
<1>10. QED
  BY <1>3, <1>4, <1>6, <1>7, <1>8, <1>9 DEF Fill

LEMMA TurnsKeep ==
    ASSUME FormsInv, Turns
    PROVE  FormsInv'
<1>1. /\ Sound(form, marked) /\ PageFits(page, form) /\ form \in Form /\ form.os_disk \in Nat
  BY FormIsSound DEF Sound
<1>2. ASSUME NEW from, NEW to \in Page \ {"none"}, NEW f, from # "none", Turn(from, to, f),
             Sound(f, marked'), f.id = form.id, PageFits(to, f)
      PROVE  FormsInv'
  BY <1>2, ChangedKeeps DEF Turn
<1>3. CASE NextDetails \/ NextSource \/ NextConfig \/ PreviousConfig
  <2>1. PICK from \in Page \ {"none"}, to \in Page \ {"none"} :
           Turn(from, to, form) /\ UNCHANGED marked /\ PageFits(to, form)
    BY <1>1, <1>3 DEF NextDetails, NextSource, NextConfig, PreviousConfig, Turn, PageFits, Page
  <2>2. QED
    BY <1>1, <1>2, <2>1
<1>4. CASE PreviousSource
  <2> DEFINE f == [form EXCEPT !.source = FALSE]
  <2>1. Turn("source", "details", f) /\ UNCHANGED marked
    BY <1>4 DEF PreviousSource
  <2>2. Parts(f, form.id, form.details, FALSE, form.disks, form.invalid, form.os_disk)
    BY <1>1, WithSource
  <2> HIDE DEF f
  <2>3. Sound(f, marked') /\ f.id = form.id /\ PageFits("details", f)
    BY <1>1, <2>1, <2>2 DEF Sound, Parts, PageFits
  <2>4. QED
    BY <1>2, <2>1, <2>3 DEF Page
<1>5. CASE PreviousDisks
  <2> DEFINE one == <<System>>
             f == [form EXCEPT !.disks = one, !.invalid = {}]
  <2>1. Turn("disks", "config", f) /\ page = "disks"
        /\ marked' = IF form.os_disk = 0 THEN System ELSE "none"
    BY <1>5 DEF PreviousDisks, Turn
  <2>2. one \in Seq(Disks) /\ Len(one) = 1 /\ one[1] = System /\ DOMAIN one = {1} /\ one # << >>
    BY DEF Disks
  <2>3. Parts(f, form.id, form.details, form.source, one, {}, form.os_disk)
    BY <1>1, <2>2, WithDisksInvalid
  <2> HIDE DEF f, one
  <2>4. Sound(f, marked') /\ f.id = form.id
    BY <1>1, <2>1, <2>2, <2>3 DEF Sound, Parts, IsInjective, Disks
  <2>5. PageFits("config", f)
    BY <1>1, <2>1, <2>3 DEF PageFits, Parts
  <2>6. QED
    BY <1>2, <2>1, <2>4, <2>5 DEF Page
<1>6. QED
  BY <1>3, <1>4, <1>5 DEF Turns


\* The form is left as it is, and no page of it is open: what is listed and what waits
\* for an answer is all there is to look at.
LEMMA ClosedKeeps ==
    ASSUME FormsInv, page' = "none", UNCHANGED <<form, marked, host>>,
           {shown', support'} \subseteq BOOLEAN, support' => shown', group' \in Group,
           closing' \in BOOLEAN, clicks' \in 0 .. MaxClicks, closing' => clicks' # 0 /\ Valid(form),
           ListFits(machines', posted', form.id, clicks'), SentFits(requests', posted', form.id, clicks'),
           host = "single" =>
               /\ ~support' /\ machines' = << >> /\ group' = NoGroup
               /\ (\A t \in posted' : t[2] = 1) =>
                      Len(requests') <= 1 /\ (requests' # << >> => shown')
    PROVE  FormsInv'
<1>1. Sound(form', marked')
  BY FormIsSound
<1>2. PageFits(page', form')
  BY DEF PageFits
<1>3. Shape'
  BY RestIsTyped DEF Shape, Page, Valid
<1>4. Waiting'
  BY DEF Waiting, NoGroup
<1>5. QED
  BY <1>1, <1>2, <1>3, <1>4 DEF FormsInv

\* The form is reset, and opened over what there is.
LEMMA OpensKeeps ==
    ASSUME FormsInv, Opens, ~closing, UNCHANGED <<host, bulk, requests, posted>>,
           {shown', support'} \subseteq BOOLEAN, support' => shown', Opened',
           host = "single" => ~support' /\ ((\A t \in posted : t[2] = 1) => requests = << >>)
    PROVE  FormsInv'
<1>1. /\ form.id < MaxForms /\ form' = Fresh(form.id + 1) /\ marked' = System /\ page' = "details"
      /\ clicks' = 0 /\ ~closing' /\ UNCHANGED <<machines, group, closing>>
  BY DEF Opens, bulk
<1>2. form.id \in Nat /\ form.id + 1 \in Forms /\ form.id + 1 \in Nat
  BY <1>1, FormIsSound, FormsAssumption DEF Forms
<1>3. Sound(form', marked') /\ form'.id = form.id + 1 /\ form'.details
  BY <1>1, <1>2, FreshIsSound
<1>4. PageFits(page', form')
  BY <1>1, <1>3 DEF PageFits
<1>5. Shape'
  BY <1>1, RestIsTyped, FormsAssumption DEF Shape, Page
<1>6. ListFits(machines, posted, form.id + 1, 0) /\ SentFits(requests, posted, form.id + 1, 0)
  BY <1>2, RestIsTyped, ListLater, SentLater
<1>7. ListFits(machines', posted', form'.id, clicks') /\ SentFits(requests', posted', form'.id, clicks')
  BY <1>1, <1>3, <1>6
<1>8. Waiting'
  <2>1. requests = << >> => Len(requests) <= 1
    BY RestIsTyped
  <2>2. QED
    BY <1>1, <2>1 DEF FormsInv, Waiting
<1>9. QED
  BY <1>3, <1>4, <1>5, <1>7, <1>8 DEF FormsInv

LEMMA OpenKeeps ==
    ASSUME FormsInv, Open \/ CreateEntry
    PROVE  FormsInv'
<1>1. CASE Open /\ host = "single"
  <2>1. /\ ~shown /\ ~closing /\ shown' = TRUE /\ Opens
        /\ UNCHANGED <<host, support, bulk, requests, posted>>
    BY <1>1 DEF Open
  <2>2. ~support' /\ Opened' /\ support' \in BOOLEAN /\ ((\A t \in posted : t[2] = 1) => requests = << >>)
    BY <1>1, <2>1, RestIsTyped DEF FormsInv, Waiting, Opened
  <2>3. QED
    BY <2>1, <2>2, OpensKeeps
<1>2. CASE Open /\ host = "bulk"
  <2>1. /\ ~shown /\ shown' = TRUE
        /\ UNCHANGED <<host, support, page, form, marked, machines, group, closing, clicks, requests, posted>>
    BY <1>2 DEF Open, bulk, last
  <2>2. page = "none"
    BY <1>2, <2>1, RestIsTyped DEF Opened
  <2>3. ListFits(machines', posted', form.id, clicks') /\ SentFits(requests', posted', form.id, clicks')
    BY <2>1, RestIsTyped
  <2>4. QED
    BY <1>2, <2>1, <2>2, <2>3, RestIsTyped, ClosedKeeps
<1>3. CASE CreateEntry
  <2>1. /\ host = "bulk" /\ shown /\ ~closing /\ support' = TRUE /\ Opens
        /\ UNCHANGED <<host, shown, bulk, requests, posted>>
    BY <1>3 DEF CreateEntry, OnList
  <2>2. Opened' /\ shown'
    BY <2>1 DEF Opened
  <2>3. QED
    BY <2>1, <2>2, OpensKeeps
<1>4. QED
  BY <1>1, <1>2, <1>3, RestIsTyped

LEMMA CloseKeeps ==
    ASSUME FormsInv, CloseForm \/ PageGone \/ \E reset \in BOOLEAN : CloseBulk(reset)
    PROVE  FormsInv'
<1>1. CASE CloseForm
  <2>1. /\ page # "none" /\ page' = "none"
        /\ UNCHANGED <<host, form, marked, machines, group, closing, clicks, requests, posted>>
    BY <1>1 DEF CloseForm, bulk, last
  <2>2. (shown' = FALSE /\ UNCHANGED support /\ host = "single") \/ (support' = FALSE /\ UNCHANGED shown)
    BY <1>1 DEF CloseForm
  <2>3. host = "single" =>
           /\ ~support' /\ machines = << >> /\ group = NoGroup
           /\ (\A t \in posted : t[2] = 1) => requests = << >>
    BY <2>1, <2>2 DEF FormsInv, Waiting
  <2>4. {shown', support'} \subseteq BOOLEAN /\ (support' => shown')
    <3>1. CASE support' = FALSE
      BY <2>2, <3>1, RestIsTyped
    <3>2. CASE shown' = FALSE /\ UNCHANGED support /\ host = "single"
      <4>1. ~support
        BY <2>1, <3>2 DEF FormsInv, Waiting
      <4>2. QED
        BY <3>2, <4>1, RestIsTyped
    <3>3. QED
      BY <2>2, <3>1, <3>2
  <2>5. ListFits(machines', posted', form.id, clicks') /\ SentFits(requests', posted', form.id, clicks')
    BY <2>1, RestIsTyped
  <2>6. requests' = << >> => Len(requests') <= 1
    BY <2>1, RestIsTyped
  <2>7. QED
    BY <2>1, <2>3, <2>4, <2>5, <2>6, RestIsTyped, ClosedKeeps
<1>2. CASE PageGone
  <2>1. /\ closing /\ ~closing' /\ closing' \in BOOLEAN
        /\ UNCHANGED <<host, shown, support, page, clicks, form, marked, machines, group, requests, posted>>
    BY <1>2 DEF PageGone, bulk
  <2>2. ListFits(machines', posted', form.id, clicks') /\ SentFits(requests', posted', form.id, clicks')
    BY <2>1, RestIsTyped
  <2>3. host = "single" =>
           /\ ~support' /\ machines' = << >> /\ group' = NoGroup
           /\ (\A t \in posted' : t[2] = 1) => Len(requests') <= 1 /\ (requests' # << >> => shown')
    BY <2>1 DEF FormsInv, Waiting
  <2>4. QED
    BY <2>1, <2>2, <2>3, RestIsTyped, ClosedKeeps
<1>3. ASSUME NEW reset \in BOOLEAN, CloseBulk(reset)
      PROVE  FormsInv'
  <2>1. /\ host = "bulk" /\ ~support /\ shown' = FALSE
        /\ UNCHANGED <<host, support, page, form, marked, closing, clicks, requests, posted>>
    BY <1>3 DEF CloseBulk, OnList, last
  <2>2. (machines' = << >> /\ group' = NoGroup) \/ UNCHANGED <<machines, group>>
    BY <1>3 DEF CloseBulk, bulk
  <2>3. page' = "none"
    BY <2>1, RestIsTyped DEF Opened
  <2>4. group' \in Group /\ ListFits(machines', posted', form.id, clicks')
    <3>1. CASE machines' = << >> /\ group' = NoGroup
      <4>1. ListFits(<< >>, posted', form.id, clicks')
        BY DEF ListFits
      <4>2. QED
        BY <3>1, <4>1, RestIsTyped
    <3>2. CASE UNCHANGED <<machines, group>>
      BY <2>1, <3>2, RestIsTyped
    <3>3. QED
      BY <2>2, <3>1, <3>2
  <2>5. SentFits(requests', posted', form.id, clicks')
    BY <2>1, RestIsTyped
  <2>6. QED
    BY <2>1, <2>3, <2>4, <2>5, RestIsTyped, ClosedKeeps
<1>4. QED
  BY <1>1, <1>2, <1>3


\* A click on the last button submits a machine that is valid, with a ticket of its own.
LEMMA ClickFits ==
    ASSUME FormsInv, Click
    PROVE  /\ Entry \in Machine /\ Valid(Entry) /\ Valid(form)
           /\ Ticket(Entry) = <<form.id, clicks + 1>> /\ Ticket(Entry) \notin posted
           /\ Spent(Ticket(Entry), form.id, clicks + 1)
           /\ closing' = TRUE /\ clicks' = clicks + 1 /\ clicks' \in 0 .. MaxClicks /\ clicks' # 0
           /\ page' = "none" /\ (page # "disks" => clicks # 0)
           /\ SentFits(requests, posted, form.id, clicks + 1)
<1>1. /\ clicks < MaxClicks /\ clicks' = clicks + 1 /\ page' = "none" /\ closing' = TRUE
      /\ (page = "disks" \/ closing) /\ form.invalid = {}
  BY DEF Click, Complete
<1>2. clicks \in Nat /\ clicks + 1 \in 1 .. MaxClicks
  BY <1>1, RestIsTyped, FormsAssumption
<1>3. Valid(form) /\ (page # "disks" => clicks # 0)
  <2>1. CASE page = "disks"
    <3>1. form.details /\ form.source /\ form.invalid = {}
      BY <2>1, FormIsSound DEF PageFits, Click, Complete
    <3>2. QED
      BY <2>1, <3>1 DEF Valid
  <2>2. CASE closing
    BY <2>2, RestIsTyped
  <2>3. QED
    BY <1>1, <2>1, <2>2
<1>4. /\ Entry \in Machine /\ Entry.id = form.id /\ Entry.click = clicks + 1
      /\ Entry.details = form.details /\ Entry.source = form.source /\ Entry.invalid = form.invalid
  BY <1>2, FormIsSound DEF Entry, Machine
<1>5. Valid(Entry)
  BY <1>3, <1>4 DEF Valid
<1>6. Ticket(Entry) = <<form.id, clicks + 1>>
  BY <1>4 DEF Ticket
<1>7. Spent(<<form.id, clicks + 1>>, form.id, clicks + 1) /\ ~Spent(<<form.id, clicks + 1>>, form.id, clicks)
  BY <1>2, FormIsSound DEF Spent
<1>8. Ticket(Entry) \notin posted
  BY <1>6, <1>7, RestIsTyped DEF SentFits
<1>9. SentFits(requests, posted, form.id, clicks + 1)
  BY <1>2, FormIsSound, RestIsTyped, SentLater
<1>10. clicks' \in 0 .. MaxClicks /\ clicks' # 0
  BY <1>1, <1>2
<1>11. QED
  BY <1>1, <1>3, <1>4, <1>5, <1>6, <1>7, <1>8, <1>9, <1>10

LEMMA SubmitMachineKeeps ==
    ASSUME FormsInv, SubmitMachine
    PROVE  FormsInv'
<1> DEFINE one == <<Entry>>
           new == [entries |-> one, group |-> group]
<1>1. /\ host = "single" /\ Click /\ Len(requests) < MaxRequests
      /\ requests' = Append(requests, new) /\ posted' = posted \cup {Ticket(one[i]) : i \in DOMAIN one}
      /\ UNCHANGED <<host, shown, support, form, marked, machines, group>>
  BY DEF SubmitMachine, bulk, Send
<1>2. /\ Entry \in Machine /\ Valid(Entry) /\ Ticket(Entry) \notin posted
      /\ Spent(Ticket(Entry), form.id, clicks + 1) /\ SentFits(requests, posted, form.id, clicks + 1)
      /\ Ticket(Entry) = <<form.id, clicks + 1>> /\ (page # "disks" => clicks # 0)
      /\ page' = "none" /\ closing' = TRUE /\ clicks' = clicks + 1
      /\ clicks' \in 0 .. MaxClicks /\ clicks' # 0 /\ Valid(form)
  BY <1>1, ClickFits
<1>3. one \in Seq(Machine) /\ DOMAIN one = {1} /\ one[1] = Entry
  BY <1>2
<1> HIDE DEF one
<1>4. ~support /\ machines = << >> /\ group = NoGroup
  BY <1>1 DEF FormsInv, Waiting
<1>5. group.mode => group.chosen
  BY <1>4 DEF NoGroup
<1>6. SentFits(requests', posted', form.id, clicks') /\ Len(requests') = Len(requests) + 1
  <2>1. \A j \in DOMAIN one : /\ Valid(one[j]) /\ Spent(Ticket(one[j]), form.id, clicks + 1)
                              /\ Ticket(one[j]) \notin posted
    BY <1>2, <1>3
  <2>2. /\ SentFits(Append(requests, new), posted \cup {Ticket(one[i]) : i \in DOMAIN one},
                    form.id, clicks + 1)
        /\ Len(Append(requests, new)) = Len(requests) + 1
    BY <1>1, <1>2, <1>3, <1>5, <2>1, RestIsTyped, SendFits
  <2>3. QED
    BY <1>1, <1>2, <2>2
<1>7. ListFits(machines', posted', form.id, clicks')
  BY <1>1, <1>4 DEF ListFits
<1>8. ASSUME \A t \in posted' : t[2] = 1
      PROVE  Len(requests') <= 1 /\ shown'
  <2>1. Ticket(Entry) \in posted' /\ posted \subseteq posted'
    BY <1>1, <1>3
  <2>2. clicks = 0
    BY <1>2, <1>8, <2>1, RestIsTyped
  <2>3. page = "disks"
    BY <1>2, <2>2
  <2>4. shown
    BY <1>1, <2>3, RestIsTyped DEF Opened
  <2>5. requests = << >>
    BY <1>1, <1>8, <2>1, <2>3 DEF FormsInv, Waiting
  <2>6. QED
    BY <1>1, <1>6, <2>4, <2>5
<1>9. {shown', support'} \subseteq BOOLEAN /\ (support' => shown') /\ group' \in Group
  BY <1>1, RestIsTyped
<1> HIDE DEF new
<1>10. QED
  BY <1>1, <1>2, <1>4, <1>6, <1>7, <1>8, <1>9, ClosedKeeps

LEMMA ListKeeps ==
    ASSUME FormsInv, \/ AddMachine \/ Submit \/ \E i \in DOMAIN machines : RemoveMachine(i)
                     \/ \E g \in Group : SetGroup(g)
    PROVE  FormsInv'
<1>1. CASE AddMachine
  <2>1. /\ host = "bulk" /\ Click /\ support' = FALSE
        /\ machines' = Append(machines, Entry)
        /\ UNCHANGED <<host, shown, form, marked, group, requests, posted>>
    BY <1>1 DEF AddMachine
  <2>2. /\ Entry \in Machine /\ Valid(Entry) /\ Ticket(Entry) \notin posted
        /\ SentFits(requests, posted, form.id, clicks + 1)
        /\ Ticket(Entry) = <<form.id, clicks + 1>>
        /\ page' = "none" /\ closing' = TRUE /\ clicks' = clicks + 1
        /\ clicks' \in 0 .. MaxClicks /\ clicks' # 0 /\ Valid(form)
    BY <2>1, ClickFits
  <2>3. ListFits(Append(machines, Entry), posted, form.id, clicks + 1)
    BY <2>2, FormIsSound, RestIsTyped, ListedFits
  <2>4. ListFits(machines', posted', form.id, clicks') /\ SentFits(requests', posted', form.id, clicks')
    BY <2>1, <2>2, <2>3
  <2>5. QED
    BY <2>1, <2>2, <2>4, RestIsTyped, ClosedKeeps
<1>2. CASE Submit
  <2> DEFINE new == [entries |-> machines, group |-> group]
  <2>1. /\ host = "bulk" /\ ~support /\ (group.mode => group.chosen)
        /\ shown' = FALSE /\ machines' = << >> /\ group' = NoGroup
        /\ Len(requests) < MaxRequests /\ requests' = Append(requests, new)
        /\ posted' = posted \cup {Ticket(machines[i]) : i \in DOMAIN machines}
        /\ UNCHANGED <<host, support, page, closing, clicks, form, marked>>
    BY <1>2 DEF Submit, OnList, Send, last
  <2>2. page' = "none"
    BY <2>1, RestIsTyped DEF Opened
  <2>3. \A j \in DOMAIN machines : /\ Valid(machines[j]) /\ Spent(Ticket(machines[j]), form.id, clicks)
                                   /\ Ticket(machines[j]) \notin posted
    BY RestIsTyped DEF ListFits
  <2>4. SentFits(requests', posted', form.id, clicks')
    BY <2>1, <2>3, RestIsTyped, SendFits
  <2>5. ListFits(machines', posted', form.id, clicks')
    BY <2>1 DEF ListFits
  <2> HIDE DEF new
  <2>6. QED
    BY <2>1, <2>2, <2>4, <2>5, RestIsTyped, ClosedKeeps
<1>3. ASSUME NEW i \in DOMAIN machines, RemoveMachine(i)
      PROVE  FormsInv'
  <2>1. /\ host = "bulk" /\ ~support /\ machines' = RemoveAt(machines, i)
        /\ UNCHANGED <<host, shown, support, page, closing, clicks, form, marked, group, requests, posted>>
    BY <1>3 DEF RemoveMachine, OnList, last
  <2>2. page' = "none"
    BY <2>1, RestIsTyped DEF Opened
  <2>3. ListFits(machines', posted', form.id, clicks') /\ SentFits(requests', posted', form.id, clicks')
    BY <2>1, RestIsTyped, RemovedFits
  <2>4. QED
    BY <2>1, <2>2, <2>3, RestIsTyped, ClosedKeeps
<1>4. ASSUME NEW g \in Group, SetGroup(g)
      PROVE  FormsInv'
  <2>1. /\ host = "bulk" /\ ~support /\ group' = g
        /\ UNCHANGED <<host, shown, support, page, closing, clicks, form, marked, machines, requests, posted>>
    BY <1>4 DEF SetGroup, OnList, last
  <2>2. page' = "none"
    BY <2>1, RestIsTyped DEF Opened
  <2>3. ListFits(machines', posted', form.id, clicks') /\ SentFits(requests', posted', form.id, clicks')
    BY <2>1, RestIsTyped
  <2>4. QED
    BY <2>1, <2>2, <2>3, RestIsTyped, ClosedKeeps
<1>5. QED
  BY <1>1, <1>2, <1>3, <1>4

LEMMA AnswerKeeps ==
    ASSUME FormsInv, NEW i \in DOMAIN requests, Answer(i)
    PROVE  FormsInv'
<1>1. /\ requests' = RemoveAt(requests, i)
      /\ UNCHANGED <<host, support, form, marked, machines, group, closing, clicks, posted>>
  BY DEF Answer, bulk, last
<1>2. SentFits(requests', posted', form.id, clicks') /\ Len(requests') = Len(requests) - 1
  BY <1>1, RestIsTyped, AnsweredFits
<1>3. ListFits(machines', posted', form.id, clicks')
  BY <1>1, RestIsTyped
<1>4. CASE host = "single"
  <2>1. shown' = FALSE /\ page' = "none" /\ UNCHANGED support
    BY <1>1, <1>4 DEF Answer
  <2>2. ~support /\ machines = << >> /\ group = NoGroup
    BY <1>4 DEF FormsInv, Waiting
  <2>3. (\A t \in posted' : t[2] = 1) => Len(requests') <= 1 /\ requests' = << >>
    <3> SUFFICES ASSUME \A t \in posted : t[2] = 1
                 PROVE  Len(requests') <= 1 /\ requests' = << >>
      BY <1>1
    <3>1. Len(requests) <= 1
      BY <1>4 DEF FormsInv, Waiting
    <3>2. Len(requests) = 1
      <4>1. requests \in Seq(Sent)
        BY RestIsTyped
      <4>2. Len(requests) \in Nat /\ i \in 1 .. Len(requests)
        BY <4>1
      <4>3. QED
        BY <3>1, <4>2
    <3>3. requests' \in Seq(Sent) /\ Len(requests') = 0
      BY <1>2, <3>2 DEF SentFits
    <3>4. QED
      BY <3>3, EmptySeq
  <2>4. {shown', support'} \subseteq BOOLEAN /\ (support' => shown')
    BY <2>1, <2>2, RestIsTyped
  <2>5. QED
    BY <1>1, <1>2, <1>3, <2>1, <2>2, <2>3, <2>4, RestIsTyped, ClosedKeeps
<1>5. CASE host = "bulk"
  <2>1. UNCHANGED <<shown, page>>
    BY <1>5 DEF Answer
  <2>2. Sound(form', marked') /\ PageFits(page', form')
    BY <1>1, <2>1, FormIsSound
  <2>3. Shape'
    BY <1>1, <2>1, RestIsTyped DEF Shape, Opened
  <2>4. Waiting'
    BY <1>1, <1>5 DEF Waiting
  <2>5. QED
    BY <1>1, <1>2, <1>3, <2>2, <2>3, <2>4 DEF FormsInv
<1>6. QED
  BY <1>4, <1>5, RestIsTyped

LEMMA FormsNext == FormsInv /\ [Next]_vars => FormsInv'
<1> SUFFICES ASSUME FormsInv, [Next]_vars PROVE FormsInv'
  OBVIOUS
<1>1. CASE Open \/ CloseForm \/ PageGone
  BY <1>1, OpenKeeps, CloseKeeps
<1>2. CASE Fill
  BY <1>2, FillKeeps
<1>3. CASE Turns
  BY <1>3, TurnsKeep
<1>4. CASE SubmitMachine
  BY <1>4, SubmitMachineKeeps
<1>5. CASE List
  BY <1>5, OpenKeeps, CloseKeeps, ListKeeps DEF List
<1>6. CASE \E i \in DOMAIN requests : Answer(i)
  BY <1>6, AnswerKeeps
<1>7. CASE UNCHANGED vars
  <2>1. /\ UNCHANGED <<host, shown, support, page, closing, clicks, form, marked>>
        /\ UNCHANGED <<machines, group, requests, posted>>
    BY <1>7 DEF vars, bulk, last
  <2>2. Shape' /\ Waiting'
    BY <2>1 DEF FormsInv, Shape, Opened, Valid, Waiting
  <2>3. QED
    BY <2>1, <2>2 DEF FormsInv
<1>8. QED
  BY <1>1, <1>2, <1>3, <1>4, <1>5, <1>6, <1>7 DEF Next

-----------------------------------------------------------------------------
\* The inductive invariant holds however the forms are turned, sent and answered.
THEOREM FormsAlways == Spec => []FormsInv
  BY FormsInit, FormsNext, PTL DEF Spec

\* The state has the shape FormsTypeOK gives it; in particular a form has a disk, and
\* each of its disks once.
THEOREM FormsTypeCorrect == Spec => []FormsTypeOK
<1>1. FormsInv => FormsTypeOK
  <2> SUFFICES ASSUME FormsInv PROVE FormsTypeOK
    OBVIOUS
  <2>1. posted \subseteq Forms \X (1 .. MaxClicks)
    BY RestIsTyped DEF SentFits, Spent
  <2>2. requests \in Seq([entries : Seq(Machine), group : Group])
    BY RestIsTyped DEF Sent
  <2>3. QED
    BY <2>1, <2>2, FormIsSound, RestIsTyped DEF FormsTypeOK, Sound
<1>2. QED
  BY FormsAlways, <1>1, PTL

\* os_disk is the index of the disk the user marked, whatever createNewDisk and removeDisk
\* (MachineDisksFieldset) did since, unless resetDisksPage may have taken it away.
THEOREM SystemDiskMarked == Spec => []SystemDiskIsMarked
<1>1. FormsInv => SystemDiskIsMarked
  BY DEF FormsInv, Sound, SystemDiskIsMarked
<1>2. QED
  BY FormsAlways, <1>1, PTL

\* A request for machines passes the checks of every page, though each is made when its
\* page is left and the pages can be gone back to.
THEOREM SentAreValid == Spec => []SentIsValid
<1>1. FormsInv => SentIsValid
  BY DEF FormsInv, SentFits, Asked, SentIsValid
<1>2. QED
  BY FormsAlways, <1>1, PTL

\* Where no last button was clicked again, no form is open while the one machine that was
\* sent waits for its answer, which closes the modal (CreateMachineModal).
THEOREM AnswersCloseTheirForm == Spec => []AnswerClosesItsForm
<1>1. FormsInv => AnswerClosesItsForm
  BY DEF FormsInv, Waiting, AnswerClosesItsForm
<1>2. QED
  BY FormsAlways, <1>1, PTL

\* Each click on the last button, also one on a page that is going, is one machine: it is
\* listed once, or sent once and listed no more, and is in no form that is open.
THEOREM OneMachineForEachClick == Spec => []OneClickOneMachine
<1>1. FormsInv => OneClickOneMachine
  <2> SUFFICES ASSUME FormsInv PROVE OneClickOneMachine
    OBVIOUS
  <2>1. /\ \A i, j \in DOMAIN machines : i # j => Ticket(machines[i]) # Ticket(machines[j])
        /\ \A i \in DOMAIN machines : Ticket(machines[i]) \notin posted
    BY RestIsTyped DEF ListFits
  <2>2. Apart(requests)
    BY RestIsTyped DEF SentFits
  <2>3. ASSUME NEW t \in posted \cup {Ticket(m) : m \in ToSet(machines)}
        PROVE  Spent(t, form.id, clicks)
    <3>1. CASE t \in posted
      BY <3>1, RestIsTyped DEF SentFits
    <3>2. CASE t \in {Ticket(m) : m \in ToSet(machines)}
      BY <3>2, RestIsTyped DEF ListFits, ToSet
    <3>3. QED
      BY <3>1, <3>2
  <2>4. ASSUME page # "none", NEW t \in posted \cup {Ticket(m) : m \in ToSet(machines)}
        PROVE  t[1] # form.id
    <3>1. t \in Forms \X (1 .. MaxClicks) /\ (t[1] = form.id => t[2] <= clicks)
      BY <2>3 DEF Spent
    <3>2. clicks = 0
      BY <2>4, RestIsTyped
    <3>3. QED
      BY <3>1, <3>2
  <2>5. QED
    BY <2>1, <2>2, <2>4 DEF OneClickOneMachine, Apart
<1>2. QED
  BY FormsAlways, <1>1, PTL

-----------------------------------------------------------------------------
(* The import of accounts: the modal, its table and the import it submits.  *)

\* The steps: what is handed over was parsed, and without a quote error.
StepsFit ==
    /\ step \in {"closed", "upload", "parse", "assign", "verify"} /\ parses \in 0 .. MaxParses
    /\ parse \in [data : Parsed, errors : BOOLEAN, critical : BOOLEAN]
    /\ loaded \in Parsed /\ loaded # "quotes" /\ (step \in {"assign", "verify"} => loaded # "null")
    /\ parse.data = "quotes" => parse.critical

\* The table that is verified, its errors and its throttles.
VerifyFits ==
    /\ table \in Table /\ users \in {"loading", "failed", "loaded"} /\ known \subseteq Typed
    /\ errors \in [Column -> SUBSET Row] /\ wait \in Wait /\ wait.column # "username"

\* The import, its notice and its job.
ImportFits ==
    /\ import \in [stage : {"no", "posting", "polling"},
                   notice : {"none", "loading", "success", "error"}, failure : Failures]
    /\ (import.stage # "no" => import.notice = "loading" /\ step = "closed")
    /\ job \in {"none", "pending", "success", "error", "lost"} /\ created \in BOOLEAN
    /\ (step # "closed" \/ import.stage = "posting" => job = "none")
    /\ (import.stage = "polling" => job # "none")
    /\ job = "success" => created

\* What is behind the types: only a parse without a quote error is handed over; no
\* update of the usernames is ever the one that waits; and a job stands behind an import
\* that is polled, none behind a modal that is open or an import that is not posted yet.
ImportInv ==
    /\ accounts \subseteq Typed
    /\ StepsFit /\ VerifyFits /\ ImportFits
    /\ EmailErrorsSettle
    /\ ReportIsTrue

\* The invariant has the types.
LEMMA ImportInvTypes == ImportInv => ImportTypeOK
  BY DEF ImportInv, StepsFit, VerifyFits, ImportFits, ImportTypeOK

\* What is there before a table is verified.
LEMMA NothingVerified == NoErrors \in [Column -> SUBSET Row] /\ Empty \in Table /\ Idle \in Wait
  BY DEF NoErrors, Empty, Idle, Table, Username, Email, Wait, Column

\* It holds before the modal is opened.
LEMMA ImportStarts == ASSUME ImportInit PROVE ImportInv
<1>1. accounts \subseteq Typed /\ StepsFit
  BY ImportAssumption DEF ImportInit, StepsFit, NoParse, Parsed
<1>2. VerifyFits
  BY NothingVerified DEF ImportInit, VerifyFits, Idle
<1>3. ImportFits
  BY DEF ImportInit, ImportFits, NoImport, Failures
<1> QED
  BY <1>1, <1>2, <1>3 DEF ImportInv, ImportInit, NoImport, EmailErrorsSettle, ReportIsTrue

-----------------------------------------------------------------------------
(* The validators of emails.                                                *)

\* Where an email is to be marked.
EmailErrors(t, loadedUsers) ==
    {r \in Row : LET m == t[r].email IN
        \/ m = "taken" /\ loadedUsers
        \/ m # "" /\ \E q \in Row \ {r} : t[q].email = m}

\* A value is there more than once when two rows have it.
LEMMA Counted ==
    ASSUME NEW P \in SUBSET Row, NEW r \in P
    PROVE  /\ Cardinality(P) \in Nat /\ Cardinality(P) >= 1
           /\ Cardinality(P) > 1 <=> \E q \in Row \ {r} : q \in P
<1>1. IsFiniteSet(P) /\ IsFiniteSet(P \ {r})
  BY ImportAssumption, FS_Subset
<1>2. /\ Cardinality(P) \in Nat /\ Cardinality(P \ {r}) \in Nat
      /\ Cardinality(P \ {r}) = Cardinality(P) - 1
  BY <1>1, FS_CardinalityType, FS_RemoveElement
<1>3. Cardinality(P \ {r}) = 0 <=> P \ {r} = {}
  BY <1>1, FS_EmptySet
<1> QED
  BY <1>2, <1>3

\* The validators of emails mark the rows they should: duplicates, and, once the users are
\* loaded, the email of an existing account.
LEMMA EmailWrong ==
    ASSUME NEW t \in Table, NEW who, NEW r \in Row
    PROVE  Wrong(t, t, who, "email", r) <=> r \in EmailErrors(t, users' = "loaded")
<1> DEFINE m == t[r].email
           P == {q \in Row : t[q].email = m}
<1>1. m \in {"", "taken", "other"}
  BY DEF Table, Email
<1>2. TimesIn(t, "email", m) = Cardinality(P)
  BY DEF TimesIn
<1>3. /\ Cardinality(P) \in Nat /\ Cardinality(P) >= 1
      /\ Cardinality(P) > 1 <=> \E q \in Row \ {r} : t[q].email = m
  <2>1. r \in P /\ P \subseteq Row
    OBVIOUS
  <2> HIDE DEF P
  <2>2. /\ Cardinality(P) \in Nat /\ Cardinality(P) >= 1
        /\ Cardinality(P) > 1 <=> \E q \in Row \ {r} : q \in P
    BY <2>1, Counted
  <2> QED
    BY <2>2 DEF P
<1>4. KnownAs(who, "email", m) <=> m = "taken" /\ users' = "loaded"
  BY DEF KnownAs
<1>5. MoreThanOnce(t, who, "email", m) <=>
          (m = "taken" /\ users' = "loaded") \/ \E q \in Row \ {r} : t[q].email = m
  BY <1>2, <1>3, <1>4 DEF MoreThanOnce
<1>6. Wrong(t, t, who, "email", r) <=> m # "" /\ MoreThanOnce(t, who, "email", m)
  BY <1>1 DEF Wrong
<1> QED
  BY <1>1, <1>5, <1>6 DEF EmailErrors

\* So do the updates of the errors that look at emails, if they are not late.
LEMMA EmailsChecked ==
    ASSUME NEW t \in Table, NEW e \in [Column -> SUBSET Row], users' \in {"loading", "failed", "loaded"}
    PROVE  /\ InAll(t) \in [Column -> SUBSET Row]
           /\ InAll(t)["email"] = EmailErrors(t, users' = "loaded")
           /\ \A c \in Column : InColumn(e, t, c) \in [Column -> SUBSET Row]
           /\ InColumn(e, t, "email")["email"] = EmailErrors(t, users' = "loaded")
<1>1. WrongIn(t, known', "email") = EmailErrors(t, users' = "loaded")
  BY EmailWrong DEF WrongIn, EmailErrors
<1>2. \A c \in Column : WrongIn(t, known', c) \subseteq Row
  BY DEF WrongIn
<1> QED
  BY <1>1, <1>2 DEF InAll, InColumn, Column

\* The update of one row checks its email, and leaves those of the other rows.
LEMMA RowChecked ==
    ASSUME NEW t \in Table, NEW d, NEW e \in [Column -> SUBSET Row], NEW r \in Row
    PROVE  /\ InRow(e, t, d, r) \in [Column -> SUBSET Row]
           /\ e["email"] = EmailErrors(t, users' = "loaded") =>
                  InRow(e, t, t, r)["email"] = EmailErrors(t, users' = "loaded")
<1>1. InRow(e, t, d, r) \in [Column -> SUBSET Row]
  BY DEF InRow, Column
<1>2. ASSUME e["email"] = EmailErrors(t, users' = "loaded")
      PROVE  InRow(e, t, t, r)["email"] = EmailErrors(t, users' = "loaded")
  <2>1. Wrong(t, t, known', "email", r) <=> r \in EmailErrors(t, users' = "loaded")
    BY EmailWrong
  <2>2. InRow(e, t, t, r)["email"] = (e["email"] \ {r}) \cup (IF Wrong(t, t, known', "email", r) THEN {r} ELSE {})
    BY DEF InRow, Column
  <2> QED
    BY <2>1, <2>2, <1>2
<1> QED
  BY <1>1, <1>2

\* What EmailErrorsSettle says, by that name.
LEMMA SettledEmails ==
    EmailErrorsSettle <=>
        (step = "verify" /\ wait.column \in {"idle", "none"} =>
            errors["email"] = EmailErrors(table, users = "loaded"))
  BY DEF EmailErrorsSettle, EmailErrors

-----------------------------------------------------------------------------
(* The steps of the modal before the last keep what was checked and sent.   *)

\* A step that does not come to the verification keeps it.
LEMMA VerifyStays ==
    ASSUME VerifyFits, EmailErrorsSettle, UNCHANGED verify, step' = "verify" => step = "verify"
    PROVE  VerifyFits' /\ EmailErrorsSettle'
  BY DEF VerifyFits, EmailErrorsSettle, verify

\* One that leaves it forgets it.
LEMMA VerifyGoes ==
    ASSUME UnmountVerify, step' # "verify"
    PROVE  VerifyFits' /\ EmailErrorsSettle'
  BY NothingVerified DEF UnmountVerify, VerifyFits, EmailErrorsSettle, Idle

\* One that does not open the modal keeps the import.
LEMMA ImportStays ==
    ASSUME ImportInv, UNCHANGED <<accounts, running>>, step' # "closed" => step # "closed"
    PROVE  accounts' \subseteq Typed /\ ImportFits' /\ ReportIsTrue'
  BY DEF ImportInv, ImportFits, ReportIsTrue, running

\* The steps back and forth, and the parses in any number and order.
LEMMA ModalSteps ==
    ASSUME ImportInv, NEW result \in Parsed \ {"null"},
           \/ Close \/ Upload \/ Reparse \/ ParseCompletes(result) \/ IgnoreErrors \/ ParseNext
           \/ ParseCancel \/ AssignCancel \/ VerifyCancel
    PROVE  ImportInv'
<1>0. /\ StepsFit /\ VerifyFits /\ EmailErrorsSettle
      /\ MaxParses \in Nat /\ 1 \in 0 .. MaxParses /\ 0 \in 0 .. MaxParses
  BY ImportAssumption DEF ImportInv
<1>1. StepsFit'
  <2>1. CASE Close
    BY <1>0, <2>1 DEF Close, StepsFit, NoParse, Parsed
  <2>2. CASE Upload \/ AssignCancel
    <3>1. step' = "parse" /\ parses' = 1 /\ parse' = NoParse /\ loaded' = loaded
      BY <2>2 DEF Upload, AssignCancel, MountParse
    <3> QED
      BY <1>0, <3>1 DEF StepsFit, NoParse, Parsed
  <2>3. CASE Reparse
    BY <1>0, <2>3 DEF Reparse, StepsFit, Parsed
  <2>4. CASE ParseCompletes(result)
    <3>1. /\ step = "parse" /\ parses' \in 0 .. MaxParses /\ loaded' = loaded /\ step' = step
          /\ parse' = [data |-> result, errors |-> result # "clean",
                       critical |-> parse.critical \/ result = "quotes"]
      BY <1>0, <2>4 DEF ParseCompletes, StepsFit
    <3>2. /\ parse' \in [data : Parsed, errors : BOOLEAN, critical : BOOLEAN]
          /\ parse'.data = "quotes" => parse'.critical
      BY <3>1, Zenon
    <3> QED
      BY <1>0, <3>1, <3>2 DEF StepsFit
  <2>5. CASE IgnoreErrors
    BY <1>0, <2>5 DEF IgnoreErrors, StepsFit, Parsed
  <2>6. CASE ParseNext
    BY <1>0, <2>6 DEF ParseNext, StepsFit, Parsed
  <2>7. CASE ParseCancel
    BY <1>0, <2>7 DEF ParseCancel, StepsFit, NoParse, Parsed
  <2>8. CASE VerifyCancel
    BY <1>0, <2>8 DEF VerifyCancel, StepsFit
  <2> QED
    BY <2>1, <2>2, <2>3, <2>4, <2>5, <2>6, <2>7, <2>8
<1>2. UNCHANGED <<accounts, running>> /\ (step' # "closed" => step # "closed")
  BY DEF Close, Upload, MountParse, Reparse, ParseCompletes, IgnoreErrors, ParseNext, ParseCancel,
     AssignCancel, VerifyCancel
<1>3. step' # "verify" /\ (UnmountVerify \/ UNCHANGED verify)
  BY DEF Close, Upload, MountParse, Reparse, ParseCompletes, IgnoreErrors, ParseNext, ParseCancel,
     AssignCancel, VerifyCancel
<1>4. VerifyFits' /\ EmailErrorsSettle'
  BY <1>0, <1>3, VerifyStays, VerifyGoes
<1>5. accounts' \subseteq Typed /\ ImportFits' /\ ReportIsTrue'
  BY <1>2, ImportStays
<1> QED
  BY <1>1, <1>4, <1>5 DEF ImportInv

\* The modal is opened when the import before was reported, and forgets that.
LEMMA Opening == ASSUME ImportInv, OpenImport PROVE ImportInv'
<1>1. StepsFit'
  BY ImportAssumption DEF ImportInv, OpenImport, StepsFit, NoParse, Parsed
<1>2. VerifyFits' /\ EmailErrorsSettle'
  BY VerifyStays DEF ImportInv, OpenImport
<1>3. ImportFits' /\ ReportIsTrue' /\ accounts' \subseteq Typed
  BY DEF ImportInv, OpenImport, ImportFits, ReportIsTrue, NoImport, Failures
<1> QED
  BY <1>1, <1>2, <1>3 DEF ImportInv

-----------------------------------------------------------------------------
(* The last step of the modal: whatever changes the table or what is known   *)
(* leaves an update of the emails waiting.                                   *)

\* A change behind the throttles that fits, and leaves an update of the emails waiting.
LEMMA UpdateWaits ==
    ASSUME ImportInv, UNCHANGED <<accounts, steps, running>>,
           VerifyFits', wait'.column = "email"
    PROVE  ImportInv'
<1>1. StepsFit'
  BY DEF ImportInv, StepsFit, steps
<1>2. EmailErrorsSettle'
  BY DEF EmailErrorsSettle
<1>3. accounts' \subseteq Typed /\ ImportFits' /\ ReportIsTrue'
  BY ImportStays DEF steps
<1> QED
  BY <1>1, <1>2, <1>3 DEF ImportInv

\* The users are loaded, or their request fails.
LEMMA UserAnswers == ASSUME ImportInv, UsersAnswered \/ UsersFail PROVE ImportInv'
<1>0. VerifyFits /\ accounts \subseteq Typed /\ "username" \in Column
  BY DEF ImportInv, Column
<1>1. CASE UsersAnswered
  <2>1. wait' \in Wait /\ wait'.column = "email"
    BY <1>0, <1>1 DEF UsersAnswered, CheckColumns, VerifyFits, Wait, Column
  <2>2. InColumn(errors, table, "username") \in [Column -> SUBSET Row]
    BY <1>0, <1>1, EmailsChecked DEF UsersAnswered, VerifyFits
  <2>3. VerifyFits'
    BY <1>0, <1>1, <2>1, <2>2 DEF UsersAnswered, CheckColumns, VerifyFits
  <2> QED
    BY <1>1, <2>1, <2>3, UpdateWaits DEF UsersAnswered
<1>2. CASE UsersFail
  <2>1. VerifyFits'
    BY <1>0, <1>2 DEF UsersFail, VerifyFits
  <2>2. StepsFit' /\ EmailErrorsSettle'
    BY <1>2 DEF ImportInv, UsersFail, StepsFit, steps, EmailErrorsSettle
  <2>3. accounts' \subseteq Typed /\ ImportFits' /\ ReportIsTrue'
    BY <1>2, ImportStays DEF UsersFail, steps
  <2> QED
    BY <2>1, <2>2, <2>3 DEF ImportInv
<1> QED
  BY <1>1, <1>2

\* A cell that is typed.
LEMMA CellUpdated ==
    ASSUME ImportInv, NEW r \in Row, NEW column \in Column, NEW value,
           column = "username" => value \in Typed \cup {"bad"}, column = "email" => value \in Email,
           UpdateCell(r, column, value)
    PROVE  ImportInv'
<1> DEFINE e == IF wait.row = "idle" THEN InRow(errors, table', table, r) ELSE errors
<1>0. VerifyFits /\ users' = users
  BY DEF ImportInv, UpdateCell
<1>1. table' \in Table
  BY <1>0 DEF UpdateCell, VerifyFits, Table, Username, Column
<1>2. e \in [Column -> SUBSET Row]
  BY <1>0, <1>1, RowChecked DEF VerifyFits
<1>3. errors' \in [Column -> SUBSET Row]
  <2> HIDE DEF e
  <2>1. InColumn(e, table', "username") \in [Column -> SUBSET Row]
    BY <1>0, <1>1, <1>2, EmailsChecked DEF Column, VerifyFits
  <2>2. errors' = IF wait.column = "idle" THEN InColumn(e, table', "username") ELSE e
    BY DEF UpdateCell, e
  <2> QED
    BY <1>2, <2>1, <2>2
<1>4. wait' \in Wait /\ wait'.column = "email"
  BY <1>0 DEF UpdateCell, VerifyFits, Wait, Column
<1>5. VerifyFits'
  BY <1>0, <1>1, <1>3, <1>4 DEF UpdateCell, VerifyFits
<1> QED
  BY <1>4, <1>5, UpdateWaits DEF UpdateCell

\* The autofix of some rows of a column.
LEMMA ColumnFixed ==
    ASSUME ImportInv, NEW column \in Column, NEW rows \in SUBSET errors[column], Autofix(column, rows)
    PROVE  ImportInv'
<1> DEFINE e == IF wait.all = "idle" THEN InAll(table') ELSE errors
<1>0. VerifyFits /\ users' = users
  BY DEF ImportInv, Autofix
<1>1. table' \in Table
  BY <1>0 DEF Autofix, Fixed, Autofixed, VerifyFits, Table, Username, Email, Column
<1>2. e \in [Column -> SUBSET Row]
  BY <1>0, <1>1, EmailsChecked DEF VerifyFits
<1>3. errors' \in [Column -> SUBSET Row]
  <2> HIDE DEF e
  <2>1. InColumn(e, table', "username") \in [Column -> SUBSET Row]
    BY <1>0, <1>1, <1>2, EmailsChecked DEF Column, VerifyFits
  <2>2. errors' = IF wait.column = "idle" THEN InColumn(e, table', "username") ELSE e
    BY DEF Autofix, e
  <2> QED
    BY <1>2, <2>1, <2>2
<1>4. wait' \in Wait /\ wait'.column = "email"
  BY <1>0 DEF Autofix, VerifyFits, Wait, Column
<1>5. VerifyFits'
  BY <1>0, <1>1, <1>3, <1>4 DEF Autofix, VerifyFits
<1> QED
  BY <1>4, <1>5, UpdateWaits DEF Autofix

\* A throttle runs: the emails are right already, or it is what makes them right.
LEMMA TimerRuns ==
    ASSUME ImportInv, NEW throttle \in {"row", "column", "all"}, Timer(throttle)
    PROVE  ImportInv'
<1>0. /\ VerifyFits /\ step = "verify" /\ step' = step /\ table' = table /\ users' = users
      /\ known' = known /\ "email" \in Column
  BY DEF ImportInv, Timer, steps, Column
<1>1. /\ wait' \in Wait /\ wait'.column # "username"
      /\ wait'.column \in {"idle", "none"} =>
            \/ wait.column \in {"idle", "none"}
            \/ throttle = "column" /\ wait.column = "email"
  BY <1>0 DEF Timer, VerifyFits, Wait, Column
<1>2. \/ errors' = errors /\ wait[throttle] = "none"
      \/ throttle = "all" /\ errors' = InAll(table)
      \/ throttle = "row" /\ wait.row \in Row /\ errors' = InRow(errors, table, table, wait.row)
      \/ throttle = "column" /\ wait.column = "email" /\ errors' = InColumn(errors, table, "email")
  BY <1>0 DEF Timer, VerifyFits, Wait, Column
<1>3. /\ errors' \in [Column -> SUBSET Row]
      /\ wait'.column \in {"idle", "none"} => errors'["email"] = EmailErrors(table', users' = "loaded")
  <2>1. wait.column \in {"idle", "none"} => errors["email"] = EmailErrors(table, users' = "loaded")
    BY <1>0, SettledEmails DEF ImportInv
  <2>2. CASE errors' = errors /\ wait[throttle] = "none"
    BY <1>0, <1>1, <2>1, <2>2 DEF VerifyFits
  <2>3. CASE throttle = "all" /\ errors' = InAll(table)
    BY <1>0, <2>3, EmailsChecked DEF VerifyFits
  <2>4. CASE throttle = "row" /\ wait.row \in Row /\ errors' = InRow(errors, table, table, wait.row)
    BY <1>0, <1>1, <2>1, <2>4, RowChecked DEF VerifyFits
  <2>5. CASE throttle = "column" /\ wait.column = "email" /\ errors' = InColumn(errors, table, "email")
    BY <1>0, <2>5, EmailsChecked DEF VerifyFits
  <2> QED
    BY <1>2, <2>2, <2>3, <2>4, <2>5
<1>4. EmailErrorsSettle'
  BY <1>3 DEF EmailErrorsSettle, EmailErrors
<1>5. VerifyFits' /\ StepsFit'
  BY <1>0, <1>1, <1>3 DEF ImportInv, VerifyFits, StepsFit, Timer, steps
<1>6. accounts' \subseteq Typed /\ ImportFits' /\ ReportIsTrue'
  BY ImportStays DEF Timer, steps
<1> QED
  BY <1>4, <1>5, <1>6 DEF ImportInv

\* The table is prepared and verified for the first time.
LEMMA Assigned == ASSUME ImportInv, AssignNext PROVE ImportInv'
<1>1. PICK t \in Table :
        /\ step = "assign" /\ step' = "verify" /\ table' = t /\ users' = "loading" /\ known' = {}
        /\ wait' = [Idle EXCEPT !.all = "none", !.column = "email"] /\ errors' = InAll(t)
        /\ UNCHANGED <<accounts, parses, parse, loaded, running>>
  BY DEF AssignNext
<1>2. errors' \in [Column -> SUBSET Row]
  BY <1>1, EmailsChecked, NothingVerified
<1>3. wait' \in Wait /\ wait'.column = "email"
  BY <1>1 DEF Idle, Wait, Column
<1>4. VerifyFits' /\ EmailErrorsSettle'
  BY <1>1, <1>2, <1>3 DEF VerifyFits, EmailErrorsSettle
<1>5. StepsFit'
  BY <1>1 DEF ImportInv, StepsFit
<1>6. accounts' \subseteq Typed /\ ImportFits' /\ ReportIsTrue'
  BY <1>1, ImportStays
<1> QED
  BY <1>4, <1>5, <1>6 DEF ImportInv

-----------------------------------------------------------------------------
(* The import itself.                                                       *)

\* The table that is submitted closes the modal.
LEMMA Submitting == ASSUME ImportInv, SubmitImport PROVE ImportInv'
<1>1. StepsFit'
  BY ImportAssumption DEF ImportInv, SubmitImport, StepsFit, NoParse, Parsed
<1>2. VerifyFits' /\ EmailErrorsSettle'
  BY VerifyStays DEF ImportInv, SubmitImport
<1>3. accounts' \subseteq Typed /\ ImportFits' /\ ReportIsTrue'
  BY DEF ImportInv, SubmitImport, Submittable, ImportFits, ReportIsTrue, Notice, Failures
<1> QED
  BY <1>1, <1>2, <1>3 DEF ImportInv

\* What happens to an import that is posted touches neither the modal nor the table.
LEMMA ImportSteps ==
    ASSUME ImportInv,
           \/ PostAccepted \/ PostRefused \/ PostTimesOut \/ JobFails \/ Restart \/ Poll
           \/ \E status \in {"success", "error"} : JobCreates(status)
           \/ \E failure \in {"answered", "silent"} : PollFails(failure)
           \/ \E name \in Typed : CreateElsewhere(name)
    PROVE  ImportInv'
<1>1. UNCHANGED <<steps, verify>>
  BY DEF PostAccepted, PostRefused, PostTimesOut, JobCreates, JobFails, Restart, Poll, PollFails,
     CreateElsewhere, Notice
<1>2. StepsFit' /\ VerifyFits' /\ EmailErrorsSettle'
  BY <1>1, VerifyStays DEF ImportInv, StepsFit, steps
<1>3. step' = step /\ ImportFits /\ ReportIsTrue /\ accounts \subseteq Typed
  BY <1>1 DEF ImportInv, steps
<1>4. accounts' \subseteq Typed
  BY <1>3 DEF PostAccepted, PostRefused, PostTimesOut, JobCreates, JobFails, Restart, Poll, PollFails,
     CreateElsewhere, Notice
<1>5. ImportFits' /\ ReportIsTrue'
  <2>1. CASE PostAccepted
    BY <1>3, <2>1 DEF PostAccepted, ImportFits, ReportIsTrue
  <2>2. CASE PostRefused
    BY <1>3, <2>2 DEF PostRefused, Notice, Failures, ImportFits, ReportIsTrue
  <2>3. CASE PostTimesOut
    BY <1>3, <2>3 DEF PostTimesOut, Notice, Failures, ImportFits, ReportIsTrue
  <2>4. CASE JobFails \/ Restart \/ \E status \in {"success", "error"} : JobCreates(status)
    BY <1>3, <2>4 DEF JobCreates, JobFails, Restart, ImportFits, ReportIsTrue
  <2>5. CASE Poll
    BY <1>3, <2>5 DEF Poll, Notice, Failures, ImportFits, ReportIsTrue
  <2>6. CASE \E failure \in {"answered", "silent"} : PollFails(failure)
    <3>1. \/ import' = [stage |-> "no", notice |-> "success", failure |-> "answered"]
          \/ import' = [stage |-> "no", notice |-> "error", failure |-> "silent"]
      BY <2>6 DEF PollFails, Notice
    <3>2. import.stage = "polling" /\ job' = job /\ created' = created
      BY <2>6 DEF PollFails
    <3> QED
      BY <1>3, <3>1, <3>2 DEF ImportFits, ReportIsTrue, Failures
  <2>7. CASE \E name \in Typed : CreateElsewhere(name)
    BY <1>3, <2>7 DEF CreateElsewhere, running, ImportFits, ReportIsTrue
  <2> QED
    BY <2>1, <2>2, <2>3, <2>4, <2>5, <2>6, <2>7
<1> QED
  BY <1>2, <1>4, <1>5 DEF ImportInv

-----------------------------------------------------------------------------
\* Every step keeps the invariant.
LEMMA ImportKept == ASSUME ImportInv, [ImportNext]_importVars PROVE ImportInv'
<1>1. CASE OpenImport
  BY <1>1, Opening
<1>2. CASE Close \/ Upload \/ Reparse \/ IgnoreErrors \/ ParseNext \/ ParseCancel \/ AssignCancel \/ VerifyCancel
  BY <1>2, ModalSteps DEF Parsed
<1>3. CASE \E result \in Parsed \ {"null"} : ParseCompletes(result)
  BY <1>3, ModalSteps
<1>4. CASE AssignNext
  BY <1>4, Assigned
<1>5. CASE UsersAnswered \/ UsersFail
  BY <1>5, UserAnswers
<1>6. CASE \E r \in Row : \/ \E name \in Typed \cup {"bad"} : UpdateCell(r, "username", name)
                          \/ \E mail \in Email : UpdateCell(r, "email", mail)
  BY <1>6, CellUpdated DEF Column
<1>7. CASE \E c \in Column : \E rows \in SUBSET errors[c] : Autofix(c, rows)
  BY <1>7, ColumnFixed
<1>8. CASE \E throttle \in {"row", "column", "all"} : Timer(throttle)
  BY <1>8, TimerRuns
<1>9. CASE SubmitImport
  BY <1>9, Submitting
<1>10. CASE \/ PostAccepted \/ PostRefused \/ PostTimesOut \/ JobFails \/ Restart \/ Poll
            \/ \E status \in {"success", "error"} : JobCreates(status)
            \/ \E failure \in {"answered", "silent"} : PollFails(failure)
  BY <1>10, ImportSteps
<1>11. CASE \E name \in Typed : CreateElsewhere(name)
  BY <1>11, ImportSteps
<1>12. CASE UNCHANGED importVars
  <2>1. UNCHANGED <<accounts, steps, verify, running>>
    BY <1>12 DEF importVars
  <2>2. StepsFit' /\ VerifyFits' /\ EmailErrorsSettle'
    BY <2>1, VerifyStays DEF ImportInv, StepsFit, steps
  <2>3. accounts' \subseteq Typed /\ ImportFits' /\ ReportIsTrue'
    BY <2>1, ImportStays DEF steps
  <2> QED
    BY <2>2, <2>3 DEF ImportInv
<1> QED
  BY <1>1, <1>2, <1>3, <1>4, <1>5, <1>6, <1>7, <1>8, <1>9, <1>10, <1>11, <1>12 DEF ImportNext

\* So it always holds.
LEMMA ImportHolds == ImportSpec => []ImportInv
<1>1. ImportInit => ImportInv
  BY ImportStarts
<1>2. ImportInv /\ [ImportNext]_importVars => ImportInv'
  BY ImportKept
<1> QED
  BY <1>1, <1>2, PTL DEF ImportSpec

\* Every state of the modal, of its validators and of the import has its type: what is
\* handed over to the assignment of columns is never a file with a quote error, and an
\* import that is under way is shown as loading, with the modal closed.
THEOREM ImportTypeCorrect == ImportSpec => []ImportTypeOK
<1>1. ImportInv => ImportTypeOK
  BY ImportInvTypes
<1> QED
  BY <1>1, ImportHolds, PTL

\* However changes of the table, the answer for the users and the throttles of the
\* validators interleave: once no update of a column waits, exactly the rows with an email
\* that another row or an account has are marked.
THEOREM EmailErrorsAreRight == ImportSpec => []EmailErrorsSettle
<1>1. ImportInv => EmailErrorsSettle
  BY DEF ImportInv
<1> QED
  BY <1>1, ImportHolds, PTL

\* The notice of an import is false in known ways only: a success, where the API has lost
\* the job or has answered a poll with an error; an error, where a request had no answer.
THEOREM ReportsAreTrue == ImportSpec => []ReportIsTrue
<1>1. ImportInv => ReportIsTrue
  BY DEF ImportInv
<1> QED
  BY <1>1, ImportHolds, PTL
================================================================================
