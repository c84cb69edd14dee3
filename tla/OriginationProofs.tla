-------------------------- MODULE OriginationProofs --------------------------
(***************************************************************************)
(* The catalogue, and over it applications, decisions and contracts, for   *)
(* any number of applications, people, versions and days.  What makes at   *)
(* most one version of a product be in force is an order: of two versions  *)
(* issued, one has an end and it is before the first day of the other.     *)
(* What a command read under the locks it shares is still so when it       *)
(* commits, and what is decided stays what it was decided on.              *)
(***************************************************************************)
EXTENDS Origination, SequenceTheorems, TLAPS

-----------------------------------------------------------------------------
(* The windows of the versions of a product (CreditProducts).              *)

Before(v, w) == version[v].to # None /\ version[v].to < version[w].from

WindowsApart ==
  /\ \A v \in Version : version[v].state = "retired" => version[v].to # None
  /\ \A v, w \in Issued : v # w => Before(v, w) \/ Before(w, v)

\* What the one who publishes read is the draft as it was at that row_version.
LookIsHonest ==
  look.of # None =>
    /\ version[look.of].state # "none"
    /\ look.row <= version[look.of].row
    /\ look.row = version[look.of].row => look.content = version[look.of].content

ProductsInv == ProductsTypeOK /\ WindowsApart /\ LookIsHonest

-----------------------------------------------------------------------------
(* What each command leaves in the rows, field by field.                   *)

LEMMA DaysAreNat == Day \subseteq Nat
BY DaysAreBounded DEF Day

LEMMA IssuedWindows ==
  ASSUME ProductsTypeOK
  PROVE  /\ \A v \in Issued : /\ version[v].from \in Nat
                              /\ version[v].to # None =>
                                   version[v].to \in Int /\ version[v].from <= version[v].to
         /\ \A v \in Version \ Issued :
              version[v].hash = None /\ version[v].from = None /\ version[v].to = None
BY NoneIsNoDay DEF ProductsTypeOK, RowChecks, VersionRow, NoneOr, Issued

LEMMA LaterOf ==
  ASSUME NEW a \in Int, NEW b \in Int
  PROVE  Max({a, b}) \in Int /\ Max({a, b}) >= a /\ Max({a, b}) >= b
<1>1. \E x \in {a, b} : \A y \in {a, b} : x >= y
  <2>1. CASE a >= b
    BY <2>1
  <2>2. CASE b >= a
    BY <2>2
  <2> QED BY <2>1, <2>2
<1>2. Max({a, b}) \in {a, b} /\ \A y \in {a, b} : Max({a, b}) >= y
  BY <1>1 DEF Max
<1> QED BY <1>2

LEMMA NoVersionOK == NoVersion \in VersionRow /\ RowChecks(NoVersion)
BY NoneIsNoDay DEF NoVersion, VersionRow, NoneOr, RowChecks

LEMMA CreatedFields ==
  ASSUME NEW content \in Content
  PROVE  LET new == [NoVersion EXCEPT !.state = "draft", !.content = content, !.row = 1]
         IN new \in VersionRow /\ RowChecks(new) /\ new.state = "draft"
BY NoneIsNoDay DEF NoVersion, VersionRow, NoneOr, RowChecks

LEMMA EditedFields ==
  ASSUME NEW row \in VersionRow, RowChecks(row), row.state = "draft", NEW content \in Content
  PROVE  /\ Edited(row, content) \in VersionRow /\ RowChecks(Edited(row, content))
         /\ Edited(row, content).state = "draft" /\ Edited(row, content).row = row.row + 1
<1> DEFINE new == Edited(row, content)
<1>1. row.row + 1 \in Nat
  BY DEF VersionRow
<1>2. new \in VersionRow
  BY <1>1 DEF Edited, VersionRow, NoneOr
<1>3. /\ new.state = row.state /\ new.hash = row.hash /\ new.from = row.from /\ new.to = row.to
      /\ new.row = row.row + 1
  BY DEF Edited, VersionRow
<1> HIDE DEF new
<1>4. RowChecks(new)
  BY <1>3 DEF RowChecks
<1> QED BY <1>2, <1>3, <1>4 DEF new

LEMMA ValidatedFields ==
  ASSUME NEW row \in VersionRow, RowChecks(row), NEW content \in NoneOr(Content)
  PROVE  LET new == [row EXCEPT !.validated = content]
         IN /\ new \in VersionRow /\ RowChecks(new) /\ new.state = row.state
            /\ new.row = row.row /\ new.content = row.content
BY NoneIsNoDay DEF VersionRow, NoneOr, RowChecks

LEMMA EndedFields ==
  ASSUME NEW row \in VersionRow, RowChecks(row), row.state = "published", NEW day \in Int,
         row.from <= day
  PROVE  LET new == [row EXCEPT !.to = day]
         IN /\ new \in VersionRow /\ RowChecks(new)
            /\ new.state = "published" /\ new.from = row.from /\ new.to = day
            /\ new.row = row.row /\ new.content = row.content /\ new.hash = row.hash
BY NoneIsNoDay DEF VersionRow, NoneOr, RowChecks

LEMMA PublishedFields ==
  ASSUME NEW row \in VersionRow, RowChecks(row), row.state = "draft", row.content \in Content,
         NEW day \in Nat
  PROVE  LET new == [row EXCEPT !.state = "published", !.hash = row.content, !.from = day,
                                !.row = @ + 1]
         IN /\ new \in VersionRow /\ RowChecks(new)
            /\ new.state = "published" /\ new.from = day /\ new.to = None
            /\ new.content = row.content /\ new.hash = row.content
<1> DEFINE new == [row EXCEPT !.state = "published", !.hash = row.content, !.from = day, !.row = @ + 1]
<1>1. row.row + 1 \in Nat
  BY DEF VersionRow
<1>2. new \in VersionRow
  BY <1>1 DEF VersionRow, NoneOr
<1>3. /\ new.state = "published" /\ new.from = day /\ new.to = row.to
      /\ new.content = row.content /\ new.hash = row.content
  BY DEF VersionRow
<1>4. row.to = None
  BY DEF RowChecks
<1>5. day # None /\ row.content # None
  <2>1. \A n \in Nat : n # None
    BY NoneIsNoDay
  <2> QED BY <2>1, ContentIsAmount
<1> HIDE DEF new
<1>6. RowChecks(new)
  BY <1>3, <1>4, <1>5 DEF RowChecks
<1> QED BY <1>2, <1>3, <1>4, <1>6 DEF new

LEMMA RetiredFields ==
  ASSUME NEW row \in VersionRow, RowChecks(row), row.state = "published", NEW day \in Int,
         row.from <= day
  PROVE  LET new == [row EXCEPT !.state = "retired", !.to = day, !.row = @ + 1]
         IN /\ new \in VersionRow /\ RowChecks(new)
            /\ new.state = "retired" /\ new.from = row.from /\ new.to = day
            /\ new.row = row.row + 1 /\ new.content = row.content /\ new.hash = row.hash
<1> DEFINE new == [row EXCEPT !.state = "retired", !.to = day, !.row = @ + 1]
<1>1. row.row + 1 \in Nat
  BY DEF VersionRow
<1>2. new \in VersionRow
  BY <1>1 DEF VersionRow, NoneOr
<1>3. /\ new.state = "retired" /\ new.from = row.from /\ new.to = day
      /\ new.row = row.row + 1 /\ new.content = row.content /\ new.hash = row.hash
  BY DEF VersionRow
<1>4. row.hash # None /\ row.from # None
  BY DEF RowChecks
<1> HIDE DEF new
<1>5. RowChecks(new)
  BY <1>3, <1>4 DEF RowChecks
<1> QED BY <1>2, <1>3, <1>5 DEF new

-----------------------------------------------------------------------------
(* The commands, as far as versions are concerned.                         *)

LEMMA ProductsInitially == ProductsInit => ProductsInv
<1> SUFFICES ASSUME ProductsInit PROVE ProductsInv
  OBVIOUS
<1>1. ProductsTypeOK
  BY NoVersionOK, DaysAreBounded DEF ProductsInit, ProductsTypeOK, Day, ProductStatus, Look, NoLook, NoneOr
<1>2. WindowsApart
  BY DEF ProductsInit, WindowsApart, Issued, NoVersion
<1>3. LookIsHonest
  BY DEF ProductsInit, LookIsHonest, NoLook
<1> QED BY <1>1, <1>2, <1>3 DEF ProductsInv

\* Only one row changed, of a version that is not issued and stays so.
LEMMA DraftWritten ==
  ASSUME ProductsInv, NEW v \in Version, NEW row \in VersionRow, RowChecks(row),
         v \notin Issued, row.state = "draft",
         version' = [version EXCEPT ![v] = row],
         UNCHANGED <<today, enabled, product, look>>,
         look.of = v => /\ version[v].state # "none"
                        /\ version[v].row <= row.row
                        /\ version[v].row = row.row => version[v].content = row.content
  PROVE  ProductsInv' /\ \A day \in Day : InForce(day)' = InForce(day)
<1>1. version'[v] = row /\ \A w \in Version \ {v} : version'[w] = version[w]
  BY DEF ProductsInv, ProductsTypeOK
<1>2. ProductsTypeOK'
  BY <1>1 DEF ProductsInv, ProductsTypeOK
<1>3. Issued' = Issued /\ \A w \in Issued : version'[w] = version[w]
  BY <1>1 DEF Issued
<1>4. WindowsApart'
  BY <1>1, <1>3 DEF ProductsInv, WindowsApart, Before
<1>5. LookIsHonest'
  <2> SUFFICES ASSUME look.of # None
               PROVE  /\ version'[look.of].state # "none"
                      /\ look.row <= version'[look.of].row
                      /\ look.row = version'[look.of].row => look.content = version'[look.of].content
    BY DEF LookIsHonest
  <2>1. look.of \in Version /\ look.row \in Nat
    BY DEF ProductsInv, ProductsTypeOK, Look, NoneOr
  <2>2. version[look.of].row \in Nat /\ version'[look.of].row \in Nat
    BY <2>1, <1>2 DEF ProductsInv, ProductsTypeOK, VersionRow
  <2>3. CASE look.of = v
    BY <2>1, <2>2, <2>3, <1>1 DEF ProductsInv, LookIsHonest
  <2>4. CASE look.of # v
    BY <2>1, <2>4, <1>1 DEF ProductsInv, LookIsHonest
  <2> QED BY <2>3, <2>4
<1>6. \A day \in Day : InForce(day)' = InForce(day)
  BY <1>3 DEF InForce, Covers
<1> QED BY <1>2, <1>4, <1>5, <1>6 DEF ProductsInv

\* A publication: the windows before it end, and its own begins after them and not before today.
LEMMA Published ==
  ASSUME ProductsInv, NEW v \in Version, NEW from \in Day, PublishVersion(v, from)
  PROVE  /\ ProductsInv' /\ \A day \in Day : day < today => InForce(day)' = InForce(day)
         /\ version'[v].hash = look.content
         /\ \A o \in Version : ~VersionGuardRefuses(version[o], version'[o])
<1> DEFINE new == [version[v] EXCEPT !.state = "published", !.hash = version[v].content,
                                     !.from = from, !.row = @ + 1]
<1>1. /\ v \notin Issued /\ version[v].state = "draft"
      /\ from \in Nat /\ today \in Nat /\ from >= today
      /\ version \in [Version -> VersionRow] /\ \A o \in Version : RowChecks(version[o])
  BY DaysAreNat DEF ProductsInv, ProductsTypeOK, PublishVersion, Publishable, IsDraft, Issued
<1>2. /\ version'[v] = new
      /\ \A o \in OpenEnded : version'[o] = [version[o] EXCEPT !.to = from - 1]
      /\ \A o \in Version \ ({v} \cup OpenEnded) : version'[o] = version[o]
      /\ version' = [o \in Version |-> version'[o]]
  BY <1>1 DEF PublishVersion, Superseded, OpenEnded, IsPublished
<1>3. \A o \in Issued : /\ version[o].from < from
                        /\ version[o].to # None => version[o].to < from
  <2> SUFFICES ASSUME NEW o \in Issued
               PROVE  version[o].from < from /\ (version[o].to # None => version[o].to < from)
    OBVIOUS
  <2>1. (IF version[o].to = None THEN version[o].from ELSE version[o].to) < from
    BY DEF PublishVersion, Publishable, Reach
  <2> QED BY <2>1, <1>1, IssuedWindows DEF ProductsInv
<1>4. version[v].content \in Content
  BY ContentIsAmount DEF PublishVersion, Publishable, IsValid
<1>5. /\ new \in VersionRow /\ RowChecks(new) /\ new.state = "published" /\ new.from = from
      /\ new.to = None /\ new.content = version[v].content /\ new.hash = version[v].content
  BY <1>1, <1>4, PublishedFields
<1> HIDE DEF new
<1>6. \A o \in OpenEnded :
        /\ version'[o] \in VersionRow /\ RowChecks(version'[o])
        /\ version'[o].state = "published" /\ version'[o].from = version[o].from
        /\ version'[o].to = from - 1 /\ version'[o].content = version[o].content
        /\ version'[o].hash = version[o].hash
  <2> SUFFICES ASSUME NEW o \in OpenEnded
               PROVE  LET row == [version[o] EXCEPT !.to = from - 1]
                      IN /\ row \in VersionRow /\ RowChecks(row)
                         /\ row.state = "published" /\ row.from = version[o].from
                         /\ row.to = from - 1 /\ row.content = version[o].content
                         /\ row.hash = version[o].hash
    BY <1>2
  <2>1. o \in Issued /\ version[o].state = "published"
    BY DEF OpenEnded, IsPublished, Issued
  <2>2. version[o].from \in Nat /\ version[o].from <= from - 1 /\ from - 1 \in Int
    BY <2>1, <1>1, <1>3, IssuedWindows DEF ProductsInv
  <2> QED BY <2>1, <2>2, <1>1, EndedFields DEF Issued
<1>7. ProductsTypeOK'
  <2>1. version' \in [Version -> VersionRow] /\ \A o \in Version : RowChecks(version'[o])
    <3>1. \A o \in Version : version'[o] \in VersionRow /\ RowChecks(version'[o])
      BY <1>1, <1>2, <1>5, <1>6
    <3> QED BY <3>1, <1>2
  <2> QED BY <2>1 DEF ProductsInv, ProductsTypeOK, PublishVersion, ProductStatus, Look, NoLook, NoneOr
<1>8. /\ Issued' = Issued \cup {v}
      /\ \A o \in Issued : version'[o].from = version[o].from
      /\ \A o \in Issued \ OpenEnded : version'[o] = version[o]
  <2>1. \A o \in Issued \ OpenEnded : version'[o] = version[o]
    BY <1>1, <1>2 DEF Issued
  <2>2. \A o \in Issued : version'[o].from = version[o].from
    BY <1>6, <2>1
  <2>3. \A o \in Version \ {v} : version'[o].state = version[o].state
    BY <1>2, <1>6 DEF OpenEnded, IsPublished
  <2> QED BY <1>2, <1>5, <2>1, <2>2, <2>3 DEF Issued
<1>9. \A o \in Issued : version[o].to = None => o \in OpenEnded
  BY DEF ProductsInv, WindowsApart, Issued, OpenEnded, IsPublished
<1>10. from - 1 # None /\ from - 1 < from
  BY <1>1, NoneIsNoDay
<1>11. WindowsApart'
  <2>1. \A o \in Version : version'[o].state = "retired" => version'[o].to # None
    BY <1>2, <1>5, <1>6 DEF ProductsInv, WindowsApart
  <2>2. \A o \in Issued : version'[o].to # None /\ version'[o].to < version'[v].from
    BY <1>2, <1>3, <1>5, <1>6, <1>8, <1>9, <1>10
  <2>3. \A o, p \in Issued : Before(o, p) => Before(o, p)'
    BY <1>8 DEF Before, OpenEnded
  <2>4. \A o, p \in Issued : o # p => Before(o, p)' \/ Before(p, o)'
    BY <2>3 DEF ProductsInv, WindowsApart
  <2> QED BY <1>8, <2>1, <2>2, <2>4 DEF WindowsApart, Before
<1>12. LookIsHonest'
  BY DEF PublishVersion, LookIsHonest, NoLook
<1>13. ASSUME NEW day \in Day, day < today
       PROVE  InForce(day)' = InForce(day)
  <2>1. day \in Nat /\ day < from /\ day <= from - 1
    BY <1>1, <1>13, DaysAreNat
  <2>2. ~Covers(v, day)'
    BY <1>1, <1>2, <1>5, <2>1 DEF Covers
  <2>3. \A o \in Issued : Covers(o, day)' <=> Covers(o, day)
    BY <1>6, <1>8, <2>1 DEF Covers, OpenEnded
  <2> QED BY <1>1, <1>8, <2>2, <2>3 DEF InForce
<1>14. version'[v].hash = look.content
  BY <1>2, <1>5, NoneIsNoDay DEF ProductsInv, LookIsHonest, PublishVersion, Publishable
<1>15. \A o \in Version : ~VersionGuardRefuses(version[o], version'[o])
  BY <1>1, <1>2, <1>5, <1>6 DEF VersionGuardRefuses, OpenEnded, IsPublished
<1> QED BY <1>7, <1>11, <1>12, <1>13, <1>14, <1>15 DEF ProductsInv

\* A retirement: the window keeps its end, or ends today, or on its first day if that is to come.
LEMMA Retired ==
  ASSUME ProductsInv, NEW v \in Version, RetireVersion(v)
  PROVE  /\ ProductsInv' /\ \A day \in Day : day < today => InForce(day)' = InForce(day)
         /\ ~VersionGuardRefuses(version[v], version'[v])
         /\ \A o \in Version \ {v} : version'[o] = version[o]
         /\ version'[v].state = "retired"
<1> DEFINE new == [version[v] EXCEPT !.state = "retired", !.to = RetiredEnd(v), !.row = @ + 1]
<1>1. /\ v \in Issued /\ version[v].state = "published" /\ today \in Nat
      /\ version \in [Version -> VersionRow] /\ \A o \in Version : RowChecks(version[o])
  BY DaysAreNat DEF ProductsInv, ProductsTypeOK, RetireVersion, IsPublished, Issued
<1>2. /\ version'[v] = new
      /\ \A o \in Version \ {v} : version'[o] = version[o]
      /\ version' = [o \in Version |-> version'[o]]
  BY <1>1 DEF RetireVersion
<1>3. /\ version[v].from \in Nat
      /\ version[v].to # None => version[v].to \in Int /\ version[v].from <= version[v].to
  BY <1>1, IssuedWindows DEF ProductsInv
<1>4. /\ RetiredEnd(v) \in Int /\ version[v].from <= RetiredEnd(v)
      /\ version[v].to # None => RetiredEnd(v) = version[v].to
      /\ version[v].to = None => today <= RetiredEnd(v)
  <2> DEFINE later == Max({version[v].from, today})
  <2>1. later \in Int /\ later >= version[v].from /\ later >= today
    <3>1. version[v].from \in Int /\ today \in Int
      BY <1>1, <1>3
    <3> QED BY <3>1, LaterOf, Zenon
  <2> HIDE DEF later
  <2>2. CASE version[v].to = None
    <3>1. RetiredEnd(v) = later
      BY <2>2 DEF RetiredEnd, later
    <3> QED BY <3>1, <2>1, <2>2, <1>1, <1>3
  <2>3. CASE version[v].to # None
    BY <2>3, <1>3 DEF RetiredEnd
  <2> QED BY <2>2, <2>3
<1>5. /\ new \in VersionRow /\ RowChecks(new) /\ new.state = "retired"
      /\ new.from = version[v].from /\ new.to = RetiredEnd(v) /\ new.row = version[v].row + 1
      /\ new.content = version[v].content /\ new.hash = version[v].hash
  <2> DEFINE day == RetiredEnd(v)
  <2>1. version[v] \in VersionRow /\ RowChecks(version[v]) /\ version[v].state = "published"
    BY <1>1
  <2>2. day \in Int /\ version[v].from <= day
    BY <1>4
  <2> HIDE DEF day
  <2>3. LET row == [version[v] EXCEPT !.state = "retired", !.to = day, !.row = @ + 1]
        IN /\ row \in VersionRow /\ RowChecks(row)
           /\ row.state = "retired" /\ row.from = version[v].from /\ row.to = day
           /\ row.row = version[v].row + 1 /\ row.content = version[v].content
           /\ row.hash = version[v].hash
    BY <2>1, <2>2, RetiredFields
  <2> QED BY <2>3 DEF day
<1> HIDE DEF new
<1>6. ProductsTypeOK'
  <2>1. version' \in [Version -> VersionRow] /\ \A o \in Version : RowChecks(version'[o])
    <3>1. \A o \in Version : version'[o] \in VersionRow /\ RowChecks(version'[o])
      BY <1>1, <1>2, <1>5
    <3> QED BY <3>1, <1>2
  <2> QED BY <2>1 DEF ProductsInv, ProductsTypeOK, RetireVersion
<1>7. Issued' = Issued
  BY <1>1, <1>2, <1>5 DEF Issued
<1>8. RetiredEnd(v) # None
  BY <1>4, NoneIsNoDay
<1>9. \A o, p \in Issued : o # p /\ Before(o, p) => Before(o, p)'
  BY <1>2, <1>4, <1>5 DEF Before, Issued
<1>10. WindowsApart'
  <2>1. \A o \in Version : version'[o].state = "retired" => version'[o].to # None
    BY <1>2, <1>5, <1>8 DEF ProductsInv, WindowsApart
  <2>2. \A o, p \in Issued : o # p => Before(o, p)' \/ Before(p, o)'
    BY <1>9 DEF ProductsInv, WindowsApart
  <2> QED BY <1>7, <2>1, <2>2 DEF WindowsApart
<1>11. LookIsHonest'
  <2> SUFFICES ASSUME look.of # None
               PROVE  /\ version'[look.of].state # "none"
                      /\ look.row <= version'[look.of].row
                      /\ look.row = version'[look.of].row => look.content = version'[look.of].content
    BY DEF LookIsHonest, RetireVersion
  <2>1. look.of \in Version /\ look.row \in Nat
    BY DEF ProductsInv, ProductsTypeOK, Look, NoneOr
  <2>2. version[look.of].row \in Nat
    BY <2>1, <1>1 DEF VersionRow
  <2>3. CASE look.of = v
    BY <2>1, <2>2, <2>3, <1>2, <1>5 DEF ProductsInv, LookIsHonest
  <2>4. CASE look.of # v
    BY <2>1, <2>4, <1>2 DEF ProductsInv, LookIsHonest
  <2> QED BY <2>3, <2>4
<1>12. ASSUME NEW day \in Day, day < today
       PROVE  InForce(day)' = InForce(day)
  <2>1. day \in Nat
    BY DaysAreNat
  <2>2. Covers(v, day)' <=> Covers(v, day)
    BY <1>1, <1>2, <1>4, <1>5, <1>8, <1>12, <2>1 DEF Covers
  <2>3. \A o \in Issued \ {v} : Covers(o, day)' <=> Covers(o, day)
    BY <1>2 DEF Covers, Issued
  <2> QED BY <1>7, <2>2, <2>3 DEF InForce
<1>13. ~VersionGuardRefuses(version[v], version'[v])
  BY <1>1, <1>2, <1>4, <1>5 DEF VersionGuardRefuses
<1> QED BY <1>2, <1>5, <1>6, <1>10, <1>11, <1>12, <1>13 DEF ProductsInv

\* What a step of the catalogue keeps, and what it may do to the versions.
StepIsSound ==
  /\ \A day \in Day : day < today => InForce(day)' = InForce(day)
  /\ \A v \in Version :
       /\ IsDraft(v) /\ version'[v].state = "published" => version'[v].hash = look.content
       /\ ~VersionGuardRefuses(version[v], version'[v])

\* The versions did not change.
LEMMA VersionsStand ==
  ASSUME UNCHANGED version
  PROVE  StepIsSound
BY DEF StepIsSound, InForce, Issued, Covers, IsDraft, VersionGuardRefuses

\* A draft was written.
LEMMA DraftIsSound ==
  ASSUME NEW v \in Version, \A o \in Version \ {v} : version'[o] = version[o],
         v \notin Issued, version'[v].state = "draft",
         \A day \in Day : InForce(day)' = InForce(day)
  PROVE  StepIsSound
BY DEF StepIsSound, IsDraft, VersionGuardRefuses, Issued

LEMMA ProductsPreserved == ProductsInv /\ [ProductsNext]_catalogue => ProductsInv' /\ (StepIsSound \/ UNCHANGED catalogue)
<1> SUFFICES ASSUME ProductsInv, [ProductsNext]_catalogue PROVE ProductsInv' /\ StepIsSound
  OBVIOUS
<1> USE DEF ProductsInv
<1>1. ASSUME NEW v \in Version, NEW content \in Content, UpdateVersion(v, content)
      PROVE  ProductsInv' /\ StepIsSound
  <2>1. /\ version[v] \in VersionRow /\ RowChecks(version[v]) /\ version[v].state = "draft"
        /\ version[v].row \in Nat /\ v \notin Issued
    BY <1>1 DEF ProductsTypeOK, UpdateVersion, IsDraft, VersionRow, Issued
  <2> DEFINE new == Edited(version[v], content)
  <2>2. /\ new \in VersionRow /\ RowChecks(new) /\ new.state = "draft" /\ new.row = version[v].row + 1
    BY <2>1, EditedFields
  <2>3. /\ version' = [version EXCEPT ![v] = new]
        /\ UNCHANGED <<today, enabled, product, look>>
    BY <1>1 DEF UpdateVersion
  <2> HIDE DEF new
  <2>4. version[v].row <= new.row /\ version[v].row # new.row
    BY <2>1, <2>2
  <2>5. ProductsInv' /\ \A day \in Day : InForce(day)' = InForce(day)
    BY <2>1, <2>2, <2>3, <2>4, DraftWritten
  <2>6. version'[v] = new /\ \A o \in Version \ {v} : version'[o] = version[o]
    BY <2>3 DEF ProductsTypeOK
  <2> QED BY <2>1, <2>2, <2>5, <2>6, DraftIsSound
<1>2. ASSUME NEW v \in Version, ValidateVersion(v)
      PROVE  ProductsInv' /\ StepIsSound
  <2> DEFINE verdict == IF IsValid(version[v].content) THEN version[v].content ELSE None
             new == [version[v] EXCEPT !.validated = verdict]
  <2>1. /\ version[v] \in VersionRow /\ RowChecks(version[v]) /\ version[v].state = "draft"
        /\ version[v].row \in Nat /\ v \notin Issued /\ verdict \in NoneOr(Content)
    BY <1>2, ContentIsAmount DEF ProductsTypeOK, ValidateVersion, IsDraft, VersionRow, Issued, NoneOr
  <2>2. /\ version' = [version EXCEPT ![v] = new]
        /\ UNCHANGED <<today, enabled, product, look>>
    BY <1>2 DEF ValidateVersion
  <2> HIDE DEF verdict
  <2>3. /\ new \in VersionRow /\ RowChecks(new) /\ new.state = version[v].state
        /\ new.row = version[v].row /\ new.content = version[v].content
    BY <2>1, ValidatedFields
  <2> HIDE DEF new
  <2>4. version[v].row <= new.row
    BY <2>1, <2>3
  <2>5. ProductsInv' /\ \A day \in Day : InForce(day)' = InForce(day)
    BY <2>1, <2>2, <2>3, <2>4, DraftWritten
  <2>6. version'[v] = new /\ \A o \in Version \ {v} : version'[o] = version[o]
    BY <2>2 DEF ProductsTypeOK
  <2> QED BY <2>1, <2>3, <2>5, <2>6, DraftIsSound
<1>3. ASSUME NEW v \in Version, NEW content \in Content, CreateVersion(v, content)
      PROVE  ProductsInv' /\ StepIsSound
  <2> DEFINE new == [NoVersion EXCEPT !.state = "draft", !.content = content, !.row = 1]
  <2>1. v \notin Issued /\ look.of # v
    BY <1>3, NoneIsNoDay DEF CreateVersion, Issued, LookIsHonest
  <2>2. /\ version' = [version EXCEPT ![v] = new]
        /\ UNCHANGED <<today, enabled, product, look>>
    BY <1>3 DEF CreateVersion
  <2>3. new \in VersionRow /\ RowChecks(new) /\ new.state = "draft"
    BY CreatedFields
  <2> HIDE DEF new
  <2>4. ProductsInv' /\ \A day \in Day : InForce(day)' = InForce(day)
    BY <2>1, <2>2, <2>3, DraftWritten
  <2>5. version'[v] = new /\ \A o \in Version \ {v} : version'[o] = version[o]
    BY <2>2 DEF ProductsTypeOK
  <2> QED BY <2>1, <2>3, <2>4, <2>5, DraftIsSound
<1>4. ASSUME NEW v \in Version, NEW from \in Day, PublishVersion(v, from)
      PROVE  ProductsInv' /\ StepIsSound
  <2>1. \A o \in Version \ {v} : IsDraft(o) => version'[o].state # "published"
    BY <1>4 DEF PublishVersion, Superseded, OpenEnded, IsPublished, IsDraft, ProductsTypeOK
  <2> QED BY <1>4, <2>1, Published DEF StepIsSound
<1>5. ASSUME NEW v \in Version, RetireVersion(v)
      PROVE  ProductsInv' /\ StepIsSound
  <2>1. \A o \in Version \ {v} : ~VersionGuardRefuses(version[o], version[o])
    BY DEF VersionGuardRefuses
  <2> QED BY <1>5, <2>1, Retired DEF StepIsSound, IsDraft
<1>6. ASSUME NEW v \in Version, ReadVersion(v)
      PROVE  ProductsInv' /\ StepIsSound
  <2>1. look' = [of |-> v, row |-> version[v].row, content |-> version[v].content]
        /\ UNCHANGED <<today, enabled, product, version>> /\ version[v].state = "draft"
        /\ version[v] \in VersionRow
    BY <1>6 DEF ReadVersion, IsDraft, ProductsTypeOK
  <2>2. ProductsTypeOK'
    BY <2>1 DEF ProductsTypeOK, Look, NoneOr, VersionRow
  <2>3. WindowsApart'
    BY <2>1 DEF WindowsApart, Before, Issued
  <2>4. LookIsHonest'
    BY <2>1 DEF LookIsHonest, VersionRow
  <2> QED BY <2>1, <2>2, <2>3, <2>4, VersionsStand
<1>7. ASSUME UNCHANGED <<version, look>>, product' \in ProductStatus, enabled' \in BOOLEAN,
             today' \in Day
      PROVE  ProductsInv' /\ StepIsSound
  <2>1. ProductsInv'
    BY <1>7 DEF ProductsTypeOK, WindowsApart, LookIsHonest, Before, Issued
  <2> QED BY <2>1, <1>7, VersionsStand
<1>8. ASSUME NEW active \in BOOLEAN, SetProductActive(active)
      PROVE  ProductsInv' /\ StepIsSound
  BY <1>7, <1>8 DEF SetProductActive, ProductStatus, ProductsTypeOK
<1>9. CASE SetCurrency
  BY <1>7, <1>9 DEF SetCurrency, ProductsTypeOK
<1>10. CASE NextDay
  <2>1. today' \in Day
    BY <1>10, DaysAreBounded DEF NextDay, ProductsTypeOK, Day
  <2> QED BY <2>1, <1>7, <1>10 DEF NextDay, ProductsTypeOK
<1>11. CASE UNCHANGED catalogue
  BY <1>7, <1>11 DEF catalogue, ProductsTypeOK
<1> QED BY <1>1, <1>2, <1>3, <1>4, <1>5, <1>6, <1>8, <1>9, <1>10, <1>11
        DEF ProductsNext, WriteVersion, AroundVersions

-----------------------------------------------------------------------------
\* Every reachable state of the catalogue satisfies the invariant.
THEOREM ProductsInductive == ProductsSpec => []ProductsInv
BY ProductsInitially, ProductsPreserved, PTL DEF ProductsSpec

\* The rows of a product are rows of its tables, and pass their checks.
THEOREM ProductsTypeCorrect == ProductsSpec => []ProductsTypeOK
<1>1. ProductsInv => ProductsTypeOK
  BY DEF ProductsInv
<1> QED BY <1>1, ProductsInductive, PTL

\* Of two issued versions one ends before the other starts: no day belongs to both.
LEMMA WindowsDoNotMeet == ProductsInv => OneVersionInForce
<1> SUFFICES ASSUME ProductsInv, NEW day \in Day, NEW v \in InForce(day), NEW w \in InForce(day), v # w
             PROVE  FALSE
  BY DEF OneVersionInForce
<1>1. /\ v \in Issued /\ w \in Issued /\ day \in Nat
      /\ version[v].from <= day /\ version[w].from <= day
      /\ version[v].to = None \/ day <= version[v].to
      /\ version[w].to = None \/ day <= version[w].to
  BY DaysAreNat DEF InForce, Covers
<1>2. /\ version[v].from \in Nat /\ version[w].from \in Nat
      /\ version[v].to # None => version[v].to \in Int
      /\ version[w].to # None => version[w].to \in Int
  BY <1>1, IssuedWindows DEF ProductsInv
<1>3. CASE Before(v, w)
  BY <1>1, <1>2, <1>3 DEF Before
<1>4. CASE Before(w, v)
  BY <1>1, <1>2, <1>4 DEF Before
<1> QED BY <1>1, <1>3, <1>4 DEF ProductsInv, WindowsApart

\* However far ahead versions are published, superseded and retired, one at most is in force on a day.
THEOREM OneInForce == ProductsSpec => []OneVersionInForce
BY WindowsDoNotMeet, ProductsInductive, PTL

\* No command changes what was in force on a day gone by.
THEOREM PastStands == ProductsSpec => PastVigencyStands
<1> DEFINE Past == \A day \in Day : day < today => InForce(day)' = InForce(day)
<1>1. ProductsInv /\ [ProductsNext]_catalogue => [Past]_catalogue
  BY ProductsPreserved DEF StepIsSound
<1> QED BY <1>1, ProductsInductive, PTL DEF PastVigencyStands, ProductsSpec

\* What is published is what its author last read, and no trigger refuses a step of the service.
THEOREM PublishedAsRead == ProductsSpec => IssuedAsRead
<1> DEFINE Sound ==
      \A v \in Version :
        /\ IsDraft(v) /\ version'[v].state = "published" => version'[v].hash = look.content
        /\ ~VersionGuardRefuses(version[v], version'[v])
<1>1. ProductsInv /\ [ProductsNext]_catalogue => [Sound]_catalogue
  BY ProductsPreserved DEF StepIsSound
<1> QED BY <1>1, ProductsInductive, PTL DEF IssuedAsRead, ProductsSpec

-----------------------------------------------------------------------------
(* Applications, decisions and contracts (Origination).                    *)

RowsOK ==
  /\ app \in [Application -> AppRow]
  /\ submission \in [Application -> Seq(Submission)]
  /\ DOMAIN evaluated = Application /\ DOMAIN decision = Application
  /\ DOMAIN condition = Application /\ DOMAIN contract = Application
  /\ DOMAIN documents = Application /\ DOMAIN desk = Application
  /\ policy \in Policies \cup {None}
  /\ \A a \in Application : app[a].status # "none" =>
       app[a].pinned \in Version /\ app[a].amount \in Amount

\* What the one who decides read is the request as it was at that row_version.
SeenIsHonest ==
  seen.of # None =>
    /\ seen.of \in Application /\ app[seen.of].status # "none"
    /\ seen.row \in Nat /\ seen.row <= app[seen.of].row
    /\ seen.row = app[seen.of].row => seen.amount = app[seen.of].amount

\* Who made the request did not decide where the policy asks for that, within the authority.
WithinAuthority(by, amount, rules, limit, asked, makers, wasEvaluated) ==
  /\ rules # None
  /\ rules.maker_checker => by \notin makers
  /\ rules.limits => amount <= limit
  /\ ~rules.may_exceed => amount <= asked
  /\ rules.evaluation => wasEvaluated

\* What the command that holds the row of the application looked at still holds.
Held(a) ==
  /\ desk[a].kind \in {"none", "approve", "formalize"}
  /\ desk[a].kind = "none" => desk[a] = NoTask
  /\ desk[a].kind = "approve" =>
       /\ app[a].status = "under_review" /\ decision[a] = Undecided
       /\ Usable(app[a].pinned)
       /\ seen.of = a => seen.row = app[a].row
       /\ WithinAuthority(desk[a].by, desk[a].amount, desk[a].policy, desk[a].limit, app[a].amount,
                          Makers(a), evaluated[a])
  /\ desk[a].kind = "formalize" =>
       /\ app[a].status = "approved" /\ contract[a] = NoContract /\ condition[a] # "pending"
       /\ Usable(decision[a].pinned)
       /\ version[decision[a].pinned].hash = decision[a].hash

\* The request is the one that its last submission froze.
AsSubmitted(a) ==
  /\ app[a].status = "none" => submission[a] = <<>>
  /\ app[a].status = "draft" => \A i \in 1 .. Len(submission[a]) : submission[a][i].reopened
  /\ app[a].status \in {"submitted", "under_review", "approved", "rejected", "formalized"} =>
       LET last == Last(submission[a])
       IN /\ submission[a] # <<>>
          /\ last.amount = app[a].amount /\ last.pinned = app[a].pinned
          /\ last.by = app[a].submitter /\ ~last.reopened
          /\ \A i \in 1 .. Len(submission[a]) - 1 : submission[a][i].reopened

\* The decision is about that request, by somebody with the authority.
AsDecided(a) ==
  LET made == decision[a]
  IN /\ made.outcome \in {"none", "approved", "rejected"}
     /\ made.outcome = "none" => made = Undecided /\ condition[a] = "none"
     /\ made.outcome = "approved" <=> made.policy # None
     /\ app[a].status \in {"approved", "formalized"} => made.outcome = "approved"
     /\ app[a].status = "rejected" <=> made.outcome = "rejected"
     /\ made.outcome = "approved" =>
          /\ app[a].status \in {"approved", "formalized", "cancelled"}
          /\ made.pinned = app[a].pinned /\ made.row \in Nat /\ made.row < app[a].row
          /\ WithinAuthority(made.by, made.amount, made.policy, made.limit,
                             Last(submission[a]).amount,
                             {app[a].creator, Last(submission[a]).by}, evaluated[a])

\* The contract is of the decision, and of rules that are issued and stay what they are.
AsFormalized(a) ==
  /\ app[a].status = "formalized" <=> contract[a] # NoContract
  /\ contract[a] # NoContract =>
       /\ contract[a].amount = decision[a].amount /\ contract[a].pinned = decision[a].pinned
       /\ contract[a].hash = decision[a].hash
       /\ condition[a] # "pending"
       /\ contract[a].pinned \in Issued
       /\ version[contract[a].pinned].hash = contract[a].hash
       /\ version[contract[a].pinned].content = contract[a].hash
       /\ contract[a].snapshot = contract[a].hash /\ contract[a].hash # None

AppInv(a) == Held(a) /\ AsSubmitted(a) /\ AsDecided(a) /\ AsFormalized(a)
OriginationInv ==
  ProductsInv /\ RowsOK /\ SeenIsHonest /\ \A a \in Application : AppInv(a)

\* What a step may do to an application: the bodies of NothingWithdrawnIsPromised and DecidedAsRead.
PromisedAsUsable(a) ==
  app'[a].status # app[a].status /\ app'[a].status \in {"approved", "formalized"} =>
    Usable(app[a].pinned)
StaysDecided(a) ==
  /\ decision[a] = Undecided /\ decision'[a] # Undecided /\ seen.of = a => seen.amount = app[a].amount
  /\ app[a].status \in Closed =>
       UNCHANGED <<app[a], submission[a], evaluated[a], decision[a], condition[a], documents[a]>>
  /\ ~SubmissionGuardRefuses(submission[a], submission'[a])
  /\ ~AppendOnlyRefuses(decision[a], decision'[a])
  /\ ~ConditionGuardRefuses(condition[a], condition'[a])
  /\ ~FormalizationGuardRefuses(contract[a], contract'[a])
StepOK(a) == PromisedAsUsable(a) /\ StaysDecided(a)

-----------------------------------------------------------------------------
(* The catalogue under the applications.                                   *)

LEMMA IssuedStands ==
  ASSUME ProductsInv, [ProductsNext]_catalogue, NEW v \in Issued
  PROVE  /\ v \in Issued' /\ version'[v].content = version[v].content
         /\ version'[v].hash = version[v].hash
<1>1. CASE UNCHANGED version
  BY <1>1 DEF Issued
<1>2. CASE StepIsSound
  <2>1. ~VersionGuardRefuses(version[v], version'[v]) /\ version[v].state \in {"published", "retired"}
    BY <1>2 DEF StepIsSound, Issued
  <2> QED BY <2>1 DEF VersionGuardRefuses, Issued
<1> QED BY <1>1, <1>2, ProductsPreserved DEF catalogue

LEMMA UsableIsIssued ==
  ASSUME NEW v \in Version, Usable(v)
  PROVE  /\ v \in Issued /\ version[v].content = version[v].hash /\ version[v].hash # None
BY DEF Usable, IsPublished, Verified, Issued

\* What does not take the row of the product leaves what was usable so.
LEMMA UsableStands ==
  ASSUME ProductsInv, AroundVersions, NEW v \in Version, Usable(v)
  PROVE  Usable(v)' /\ version'[v] = version[v]
<1>1. ASSUME NEW w \in Version, NEW content \in Content, CreateVersion(w, content)
      PROVE  version'[v] = version[v] /\ product' = product
  BY <1>1 DEF CreateVersion, Usable, IsPublished, ProductsInv, ProductsTypeOK
<1>2. version'[v] = version[v] /\ product' = product
  BY <1>1 DEF AroundVersions, ReadVersion, SetCurrency, NextDay
<1> QED BY <1>2 DEF Usable, IsPublished, Verified

LEMMA CatalogueStutters ==
  ASSUME ProductsInv, UNCHANGED catalogue
  PROVE  ProductsInv'
BY ProductsPreserved

-----------------------------------------------------------------------------
LEMMA NoAppOK == NoApp \in AppRow
BY DEF NoApp, AppRow, Statuses, NoneOr

LEMMA OriginationInitially == Init => OriginationInv
<1> SUFFICES ASSUME Init PROVE OriginationInv
  OBVIOUS
<1>1. ProductsInv
  BY ProductsInitially DEF Init
<1>2. RowsOK
  BY NoAppOK DEF Init, RowsOK, NoApp
<1>3. SeenIsHonest
  BY DEF Init, SeenIsHonest, NotSeen
<1>4. ASSUME NEW a \in Application
      PROVE  AppInv(a)
  BY DEF Init, AppInv, Held, AsSubmitted, AsDecided, AsFormalized, NoApp, NoTask, Undecided
<1> QED BY <1>1, <1>2, <1>3, <1>4 DEF OriginationInv

\* The rows of application b did not change, nor what was read of it, nor the versions.
Same(b) ==
  /\ app'[b] = app[b] /\ submission'[b] = submission[b] /\ evaluated'[b] = evaluated[b]
  /\ decision'[b] = decision[b] /\ condition'[b] = condition[b] /\ contract'[b] = contract[b]
  /\ documents'[b] = documents[b] /\ desk'[b] = desk[b]

LEMMA OthersStand ==
  ASSUME OriginationInv, UNCHANGED catalogue, NEW b \in Application, Same(b),
         seen' = seen \/ seen'.of # b
  PROVE  AppInv(b)' /\ StepOK(b)
<1>1. AppInv(b)
  BY DEF OriginationInv
<1>2. Held(b)'
  BY <1>1 DEF AppInv, Held, Same, Usable, IsPublished, Verified, Makers, catalogue
<1>3. AsSubmitted(b)' /\ AsDecided(b)'
  BY <1>1 DEF AppInv, AsSubmitted, AsDecided, Same
<1>4. AsFormalized(b)'
  BY <1>1 DEF AppInv, AsFormalized, Same, Issued, catalogue
<1>5. StepOK(b)
  BY DEF StepOK, PromisedAsUsable, StaysDecided, Same, SubmissionGuardRefuses, AppendOnlyRefuses,
         ConditionGuardRefuses, FormalizationGuardRefuses
<1> QED BY <1>2, <1>3, <1>4, <1>5 DEF AppInv

\* A command on one application.
LEMMA OneApplication ==
  ASSUME OriginationInv, UNCHANGED catalogue, NEW a \in Application,
         \A b \in Application \ {a} : Same(b),
         seen' = seen \/ seen'.of \in {a, None},
         RowsOK', SeenIsHonest', AppInv(a)', StepOK(a)
  PROVE  OriginationInv' /\ \A b \in Application : StepOK(b)
<1>1. \A b \in Application \ {a} : AppInv(b)' /\ StepOK(b)
  BY OthersStand, NobodyIsNone DEF OriginationInv
<1>2. ProductsInv'
  BY CatalogueStutters DEF OriginationInv
<1> QED BY <1>1, <1>2 DEF OriginationInv

-----------------------------------------------------------------------------
(* The commands on a request.                                              *)

Good == OriginationInv' /\ \A b \in Application : StepOK(b)

\* What a command leaves in the row of an application.
Rewritten(a, row) ==
  /\ app' \in [Application -> AppRow] /\ app'[a] = row
  /\ \A b \in Application \ {a} : app'[b] = app[b]

LEMMA MovedFields ==
  ASSUME RowsOK, NEW a \in Application, NEW status \in Statuses, Moved(a, status)
  PROVE  /\ Rewritten(a, app'[a])
         /\ app'[a].status = status /\ app'[a].row = app[a].row + 1
         /\ app[a].row \in Nat /\ app'[a].row \in Nat
         /\ app'[a].amount = app[a].amount /\ app'[a].pinned = app[a].pinned
         /\ app'[a].creator = app[a].creator /\ app'[a].submitter = app[a].submitter
<1> DEFINE new == [app[a] EXCEPT !.status = status, !.row = @ + 1]
<1>1. app[a] \in AppRow /\ app[a].row \in Nat /\ app[a].row + 1 \in Nat
  BY DEF RowsOK, AppRow
<1>2. /\ new \in AppRow /\ new.status = status /\ new.row = app[a].row + 1
      /\ new.amount = app[a].amount /\ new.pinned = app[a].pinned
      /\ new.creator = app[a].creator /\ new.submitter = app[a].submitter
  BY <1>1 DEF AppRow
<1>3. app' = [app EXCEPT ![a] = new]
  BY DEF Moved, RowsOK
<1> HIDE DEF new
<1>4. app'[a] = new /\ app' \in [Application -> AppRow] /\ \A b \in Application \ {a} : app'[b] = app[b]
  BY <1>2, <1>3 DEF RowsOK
<1> QED BY <1>1, <1>2, <1>4 DEF Rewritten

\* A row whose number grew and whose reader is honest keeps it so.
LEMMA SeenStands ==
  ASSUME RowsOK, SeenIsHonest, NEW a \in Application, Rewritten(a, app'[a]),
         app'[a].status # "none", app[a].status # "none" => app[a].row < app'[a].row,
         seen' = seen
  PROVE  SeenIsHonest'
<1> SUFFICES ASSUME seen.of # None
             PROVE  /\ seen.of \in Application /\ app'[seen.of].status # "none"
                    /\ seen.row \in Nat /\ seen.row <= app'[seen.of].row
                    /\ seen.row = app'[seen.of].row => seen.amount = app'[seen.of].amount
  BY DEF SeenIsHonest
<1>1. CASE seen.of = a
  <2>1. app[a].row \in Nat /\ app'[a].row \in Nat
    BY DEF RowsOK, AppRow, Rewritten
  <2> QED BY <1>1, <2>1 DEF SeenIsHonest
<1>2. CASE seen.of # a
  BY <1>2 DEF SeenIsHonest, Rewritten
<1> QED BY <1>1, <1>2

LEMMA CreateIsGood ==
  ASSUME OriginationInv, NEW a \in Application, NEW u \in User, NEW amount \in Amount,
         CreateApplication(a, u, amount)
  PROVE  Good
<1> USE DEF OriginationInv
<1>1. PICK v \in Version :
        app' = [app EXCEPT ![a] = [NoApp EXCEPT !.status = "draft", !.amount = amount,
                                     !.pinned = v, !.creator = u, !.row = 1]]
  BY DEF CreateApplication, EffectiveVersion, InForce, Issued
<1> DEFINE new == [NoApp EXCEPT !.status = "draft", !.amount = amount, !.pinned = v, !.creator = u,
                                !.row = 1]
<1>2. /\ new \in AppRow /\ new.status = "draft" /\ new.row = 1 /\ new.pinned = v
      /\ new.amount = amount
  BY DEF AppRow, NoApp, NoneOr, Statuses
<1>3. app' = [app EXCEPT ![a] = new] /\ app[a].status = "none"
  <2>1. app' = [app EXCEPT ![a] = new]
    BY <1>1
  <2>2. app[a].status = "none"
    BY DEF CreateApplication, NoApp
  <2> QED BY <2>1, <2>2
<1> HIDE DEF new
<1>4. Rewritten(a, app'[a]) /\ app'[a] = new
  BY <1>2, <1>3 DEF Rewritten, RowsOK
<1>5. /\ UNCHANGED catalogue /\ seen' = seen /\ policy' = policy
      /\ UNCHANGED <<submission, evaluated, decision, condition, contract, documents, desk>>
  BY DEF CreateApplication, outcomes, authority, around
<1>6. RowsOK'
  BY <1>2, <1>4, <1>5 DEF RowsOK, Rewritten
<1>7. SeenIsHonest'
  BY <1>2, <1>3, <1>4, <1>5, SeenStands
<1>8. AppInv(a)'
  <2>1. /\ desk[a] = NoTask /\ submission[a] = <<>> /\ decision[a].outcome = "none"
        /\ contract[a] = NoContract
    BY <1>3 DEF AppInv, Held, AsSubmitted, AsDecided, AsFormalized, Usable
  <2>2. Held(a)'
    BY <2>1, <1>5 DEF Held, NoTask
  <2>3. AsSubmitted(a)'
    BY <2>1, <1>2, <1>4, <1>5 DEF AsSubmitted
  <2>4. AsDecided(a)' /\ AsFormalized(a)'
    BY <2>1, <1>2, <1>4, <1>5 DEF AppInv, AsDecided, AsFormalized
  <2> QED BY <2>2, <2>3, <2>4 DEF AppInv
<1>9. StepOK(a)
  BY <1>2, <1>3, <1>4, <1>5 DEF StepOK, PromisedAsUsable, StaysDecided, Closed, SubmissionGuardRefuses,
     AppendOnlyRefuses, ConditionGuardRefuses, FormalizationGuardRefuses
<1>10. \A b \in Application \ {a} : Same(b)
  BY <1>4, <1>5 DEF Same, Rewritten
<1> QED BY <1>5, <1>6, <1>7, <1>8, <1>9, <1>10, OneApplication DEF Good

\* An application at rest, and what follows where it is not decided.
LEMMA AtRest ==
  ASSUME OriginationInv, NEW a \in Application, app[a].status \in {"draft", "submitted"}
  PROVE  /\ decision[a] = Undecided /\ decision[a].outcome = "none" /\ condition[a] = "none"
         /\ contract[a] = NoContract
BY DEF OriginationInv, AppInv, AsDecided, AsFormalized, Undecided

LEMMA UpdateIsGood ==
  ASSUME OriginationInv, NEW a \in Application, NEW amount \in Amount, NEW repin \in BOOLEAN,
         UpdateDraft(a, amount, repin)
  PROVE  Good
<1> USE DEF OriginationInv
<1>1. PICK v \in Version : app' = [app EXCEPT ![a] = Revised(@, amount, v)]
  <2>1. app[a].pinned \in Version
    BY DEF UpdateDraft, Editable, RowsOK
  <2> QED BY <2>1 DEF UpdateDraft, EffectiveVersion, InForce, Issued
<1> DEFINE new == Revised(app[a], amount, v)
<1>2. app[a] \in AppRow /\ app[a].row \in Nat /\ app[a].row + 1 \in Nat /\ app[a].status = "draft"
  BY DEF RowsOK, AppRow, UpdateDraft, Editable
<1>3. new \in AppRow /\ new.status = "draft" /\ new.row = app[a].row + 1 /\ new.pinned = v
      /\ new.amount = amount
  BY <1>2 DEF Revised, AppRow, NoneOr
<1>4. app' = [app EXCEPT ![a] = new]
  BY <1>1
<1> HIDE DEF new
<1>5. Rewritten(a, app'[a]) /\ app'[a] = new
  BY <1>3, <1>4 DEF Rewritten, RowsOK
<1>6. /\ UNCHANGED catalogue /\ seen' = seen /\ policy' = policy /\ desk[a] = NoTask
      /\ UNCHANGED <<submission, evaluated, decision, condition, contract, documents, desk>>
  BY DEF UpdateDraft, outcomes, authority, around, Idle
<1>7. RowsOK'
  BY <1>3, <1>5, <1>6 DEF RowsOK, Rewritten
<1>8. SeenIsHonest'
  BY <1>2, <1>3, <1>5, <1>6, SeenStands
<1>9. AppInv(a)'
  <2>1. decision[a].outcome = "none" /\ contract[a] = NoContract
    BY <1>2, AtRest
  <2>2. Held(a)'
    BY <1>6 DEF Held, NoTask
  <2>3. AsSubmitted(a)'
    BY <1>2, <1>3, <1>5, <1>6 DEF AppInv, AsSubmitted
  <2>4. AsDecided(a)' /\ AsFormalized(a)'
    BY <2>1, <1>2, <1>3, <1>5, <1>6 DEF AppInv, AsDecided, AsFormalized
  <2> QED BY <2>2, <2>3, <2>4 DEF AppInv
<1>10. StepOK(a)
  BY <1>2, <1>3, <1>5, <1>6 DEF StepOK, PromisedAsUsable, StaysDecided, Closed, SubmissionGuardRefuses,
     AppendOnlyRefuses, ConditionGuardRefuses, FormalizationGuardRefuses
<1>11. \A b \in Application \ {a} : Same(b)
  BY <1>5, <1>6 DEF Same, Rewritten
<1> QED BY <1>6, <1>7, <1>8, <1>9, <1>10, <1>11, OneApplication DEF Good

\* The submissions of an application, one more, or the last of them reopened.
LEMMA Appended ==
  ASSUME NEW s \in Seq(Submission), NEW x \in Submission
  PROVE  LET t == Append(s, x)
         IN /\ t \in Seq(Submission) /\ t # <<>> /\ Last(t) = x /\ Len(t) = Len(s) + 1
            /\ Len(s) \in Nat
            /\ \A i \in 1 .. Len(s) : t[i] = s[i]
BY DEF Last

LEMMA Reopened ==
  ASSUME NEW s \in Seq(Submission), s # <<>>
  PROVE  LET t == [s EXCEPT ![Len(s)].reopened = TRUE]
         IN /\ t \in Seq(Submission) /\ Len(t) = Len(s) /\ Len(s) \in Nat
            /\ \A i \in 1 .. Len(s) - 1 : t[i] = s[i]
            /\ t[Len(s)].reopened
            /\ \A i \in DOMAIN s : [t[i] EXCEPT !.reopened = FALSE] = [s[i] EXCEPT !.reopened = FALSE]
<1>1. Len(s) \in 1 .. Len(s) /\ DOMAIN s = 1 .. Len(s) /\ s \in [1 .. Len(s) -> Submission]
  OBVIOUS
<1> DEFINE x == [s[Len(s)] EXCEPT !.reopened = TRUE]
           t == [s EXCEPT ![Len(s)] = x]
<1>2. s[Len(s)] \in Submission
  BY <1>1
<1>3. x \in Submission /\ x.reopened = TRUE /\ [x EXCEPT !.reopened = FALSE] = [s[Len(s)] EXCEPT !.reopened = FALSE]
  BY <1>2 DEF Submission
<1> HIDE DEF x
<1>4. t \in Seq(Submission) /\ Len(t) = Len(s) /\ \A i \in 1 .. Len(s) : t[i] = IF i = Len(s) THEN x ELSE s[i]
  BY <1>1, <1>3, ExceptSeq
<1>5. t[Len(s)] = x
  BY <1>1, <1>4
<1>6. \A i \in 1 .. Len(s) - 1 : i \in 1 .. Len(s) /\ i # Len(s)
  OBVIOUS
<1>7. \A i \in DOMAIN s : [t[i] EXCEPT !.reopened = FALSE] = [s[i] EXCEPT !.reopened = FALSE]
  BY <1>1, <1>3, <1>4
<1> QED BY <1>1, <1>3, <1>4, <1>5, <1>6, <1>7 DEF x

LEMMA SubmitIsGood ==
  ASSUME OriginationInv, NEW a \in Application, NEW u \in User, Submit(a, u)
  PROVE  Good
<1> USE DEF OriginationInv
<1> DEFINE x == [amount |-> app[a].amount, pinned |-> app[a].pinned, by |-> u, reopened |-> FALSE]
           new == Append(submission[a], x)
           row == [app[a] EXCEPT !.status = "submitted", !.submitter = u, !.row = @ + 1]
<1>1. /\ app[a] \in AppRow /\ app[a].row \in Nat /\ app[a].row + 1 \in Nat /\ app[a].status = "draft"
      /\ app[a].pinned \in Version /\ app[a].amount \in Amount /\ submission[a] \in Seq(Submission)
  BY DEF RowsOK, AppRow, Submit
<1>2. x \in Submission
  BY <1>1 DEF Submission
<1>3. /\ x.amount = app[a].amount /\ x.pinned = app[a].pinned /\ x.by = u /\ x.reopened = FALSE
  OBVIOUS
<1>4. /\ row \in AppRow /\ row.status = "submitted" /\ row.submitter = u /\ row.row = app[a].row + 1
      /\ row.amount = app[a].amount /\ row.pinned = app[a].pinned
  BY <1>1 DEF AppRow, Statuses, NoneOr
<1>5. app' = [app EXCEPT ![a] = row] /\ submission' = [submission EXCEPT ![a] = new]
  BY DEF Submit, RowsOK
<1> HIDE DEF x, row
<1>6. /\ new \in Seq(Submission) /\ new # <<>> /\ Last(new) = x /\ Len(new) = Len(submission[a]) + 1
      /\ Len(submission[a]) \in Nat
      /\ \A i \in 1 .. Len(submission[a]) : new[i] = submission[a][i]
  BY <1>1, <1>2, Appended
<1> HIDE DEF new
<1>7. /\ Rewritten(a, app'[a]) /\ app'[a] = row
      /\ submission'[a] = new /\ submission' \in [Application -> Seq(Submission)]
      /\ \A b \in Application \ {a} : submission'[b] = submission[b]
  BY <1>4, <1>5, <1>6 DEF Rewritten, RowsOK
<1>8. /\ UNCHANGED catalogue /\ seen' = seen /\ policy' = policy /\ desk[a] = NoTask
      /\ UNCHANGED <<evaluated, decision, condition, contract, documents, desk>>
  BY DEF Submit, outcomes, authority, around, Idle
<1>9. RowsOK'
  BY <1>1, <1>4, <1>7, <1>8 DEF RowsOK, Rewritten
<1>10. SeenIsHonest'
  BY <1>1, <1>4, <1>7, <1>8, SeenStands
<1>11. AppInv(a)'
  <2>1. decision[a].outcome = "none" /\ contract[a] = NoContract
    BY <1>1, AtRest
  <2>2. Held(a)'
    BY <1>8 DEF Held, NoTask
  <2>3. \A i \in 1 .. Len(new) - 1 : new[i].reopened
    <3>1. \A i \in 1 .. Len(submission[a]) : submission[a][i].reopened
      BY <1>1 DEF AppInv, AsSubmitted
    <3> QED BY <3>1, <1>6
  <2>4. AsSubmitted(a)'
    BY <2>3, <1>3, <1>4, <1>6, <1>7 DEF AsSubmitted
  <2>5. AsDecided(a)' /\ AsFormalized(a)'
    BY <2>1, <1>1, <1>4, <1>7, <1>8 DEF AppInv, AsDecided, AsFormalized
  <2> QED BY <2>2, <2>4, <2>5 DEF AppInv
<1>12. StepOK(a)
  <2>1. ~SubmissionGuardRefuses(submission[a], submission'[a])
    <3>1. DOMAIN submission[a] = 1 .. Len(submission[a])
      BY <1>1
    <3>2. ~(Len(new) < Len(submission[a]))
      BY <1>6
    <3>3. \A i \in DOMAIN submission[a] : new[i] = submission[a][i]
      BY <3>1, <1>6
    <3> QED BY <3>2, <3>3, <1>7, Zenon DEF SubmissionGuardRefuses
  <2>2. PromisedAsUsable(a)
    BY <1>4, <1>7 DEF PromisedAsUsable
  <2> QED BY <2>1, <2>2, <1>1, <1>8 DEF StepOK, StaysDecided, Closed, AppendOnlyRefuses,
             ConditionGuardRefuses, FormalizationGuardRefuses
<1>13. \A b \in Application \ {a} : Same(b)
  BY <1>7, <1>8 DEF Same, Rewritten
<1> QED BY <1>8, <1>9, <1>10, <1>11, <1>12, <1>13, OneApplication DEF Good

LEMMA ReopenIsGood ==
  ASSUME OriginationInv, NEW a \in Application, Reopen(a)
  PROVE  Good
<1> USE DEF OriginationInv
<1> DEFINE old == submission[a]
           new == [old EXCEPT ![Len(old)].reopened = TRUE]
<1>1. app[a].status = "submitted" /\ old \in Seq(Submission) /\ old # <<>>
      /\ \A i \in 1 .. Len(old) - 1 : old[i].reopened
  BY DEF Reopen, RowsOK, AppInv, AsSubmitted
<1>2. /\ Rewritten(a, app'[a]) /\ app'[a].status = "draft" /\ app'[a].row = app[a].row + 1
      /\ app[a].row \in Nat
      /\ app'[a].amount = app[a].amount /\ app'[a].pinned = app[a].pinned
  BY MovedFields DEF Reopen, Statuses
<1>3. submission' = [submission EXCEPT ![a] = new]
  BY DEF Reopen, RowsOK
<1>4. /\ new \in Seq(Submission) /\ Len(new) = Len(old) /\ Len(old) \in Nat
      /\ \A i \in 1 .. Len(old) - 1 : new[i] = old[i]
      /\ new[Len(old)].reopened
      /\ \A i \in DOMAIN old : [new[i] EXCEPT !.reopened = FALSE] = [old[i] EXCEPT !.reopened = FALSE]
  BY <1>1, Reopened
<1> HIDE DEF new
<1>5. /\ submission'[a] = new /\ submission' \in [Application -> Seq(Submission)]
      /\ \A b \in Application \ {a} : submission'[b] = submission[b]
  BY <1>3, <1>4 DEF RowsOK
<1>6. /\ UNCHANGED catalogue /\ seen' = seen /\ policy' = policy /\ desk[a] = NoTask
      /\ UNCHANGED <<evaluated, decision, condition, contract, documents, desk>>
  BY DEF Reopen, outcomes, authority, around, Idle
<1>7. RowsOK'
  BY <1>1, <1>2, <1>5, <1>6 DEF RowsOK, Rewritten
<1>8. SeenIsHonest'
  BY <1>1, <1>2, <1>6, SeenStands
<1>9. AppInv(a)'
  <2>1. decision[a].outcome = "none" /\ contract[a] = NoContract
    BY <1>1, AtRest
  <2>2. Held(a)'
    BY <1>6 DEF Held, NoTask
  <2>3. \A i \in 1 .. Len(new) : new[i].reopened
    <3>1. \A i \in 1 .. Len(new) : i \in 1 .. Len(old) - 1 \/ i = Len(old)
      BY <1>4
    <3> QED BY <3>1, <1>1, <1>4
  <2>4. AsSubmitted(a)'
    BY <2>3, <1>2, <1>5 DEF AsSubmitted
  <2>5. AsDecided(a)' /\ AsFormalized(a)'
    BY <2>1, <1>1, <1>2, <1>5, <1>6 DEF AppInv, AsDecided, AsFormalized
  <2> QED BY <2>2, <2>4, <2>5 DEF AppInv
<1>10. StepOK(a)
  <2>1. ~SubmissionGuardRefuses(submission[a], submission'[a])
    <3>1. ~(Len(new) < Len(old))
      BY <1>4
    <3>2. ~ \E i \in DOMAIN old : [new[i] EXCEPT !.reopened = FALSE] # [old[i] EXCEPT !.reopened = FALSE]
      BY <1>4, Zenon
    <3> QED BY <3>1, <3>2, <1>5, Zenon DEF SubmissionGuardRefuses
  <2> QED BY <2>1, <1>1, <1>2, <1>6 DEF StepOK, PromisedAsUsable, StaysDecided, Closed,
             AppendOnlyRefuses, ConditionGuardRefuses, FormalizationGuardRefuses
<1>11. \A b \in Application \ {a} : Same(b)
  BY <1>2, <1>5, <1>6 DEF Same, Rewritten
<1> QED BY <1>6, <1>7, <1>8, <1>9, <1>10, <1>11, OneApplication DEF Good

LEMMA ReviewIsGood ==
  ASSUME OriginationInv, NEW a \in Application, StartReview(a)
  PROVE  Good
<1> USE DEF OriginationInv
<1>1. app[a].status = "submitted"
  BY DEF StartReview
<1>2. /\ Rewritten(a, app'[a]) /\ app'[a].status = "under_review" /\ app'[a].row = app[a].row + 1
      /\ app[a].row \in Nat /\ app'[a].submitter = app[a].submitter
      /\ app'[a].amount = app[a].amount /\ app'[a].pinned = app[a].pinned
  BY MovedFields DEF StartReview, Statuses
<1>3. /\ UNCHANGED catalogue /\ seen' = seen /\ policy' = policy /\ desk[a] = NoTask
      /\ UNCHANGED <<submission, evaluated, decision, condition, contract, documents, desk>>
  BY DEF StartReview, outcomes, authority, around, Idle
<1>4. RowsOK'
  BY <1>1, <1>2, <1>3 DEF RowsOK, Rewritten
<1>5. SeenIsHonest'
  BY <1>1, <1>2, <1>3, SeenStands
<1>6. AppInv(a)'
  <2>1. decision[a].outcome = "none" /\ contract[a] = NoContract
    BY <1>1, AtRest
  <2>2. Held(a)'
    BY <1>3 DEF Held, NoTask
  <2>3. AsSubmitted(a)'
    BY <1>1, <1>2, <1>3 DEF AppInv, AsSubmitted
  <2>4. AsDecided(a)' /\ AsFormalized(a)'
    BY <2>1, <1>1, <1>2, <1>3 DEF AppInv, AsDecided, AsFormalized
  <2> QED BY <2>2, <2>3, <2>4 DEF AppInv
<1>7. StepOK(a)
  BY <1>1, <1>2, <1>3 DEF StepOK, PromisedAsUsable, StaysDecided, Closed, SubmissionGuardRefuses,
     AppendOnlyRefuses, ConditionGuardRefuses, FormalizationGuardRefuses
<1>8. \A b \in Application \ {a} : Same(b)
  BY <1>2, <1>3 DEF Same, Rewritten
<1> QED BY <1>3, <1>4, <1>5, <1>6, <1>7, <1>8, OneApplication DEF Good

LEMMA EvaluationIsGood ==
  ASSUME OriginationInv, NEW a \in Application, AddEvaluation(a)
  PROVE  Good
<1> USE DEF OriginationInv
<1>1. /\ app[a].status = "under_review" /\ desk[a] = NoTask
      /\ UNCHANGED catalogue /\ seen' = seen /\ policy' = policy /\ DOMAIN evaluated' = Application
      /\ \A b \in Application \ {a} : evaluated'[b] = evaluated[b]
      /\ UNCHANGED <<app, submission, decision, condition, contract, documents, desk>>
  BY DEF AddEvaluation, outcomes, authority, around, Idle, RowsOK
<1>2. RowsOK' /\ SeenIsHonest'
  BY <1>1 DEF RowsOK, SeenIsHonest
<1>3. AppInv(a)'
  <2>1. Held(a)'
    BY <1>1 DEF Held, NoTask
  <2>2. AsSubmitted(a)' /\ AsDecided(a)' /\ AsFormalized(a)'
    BY <1>1 DEF AppInv, AsSubmitted, AsDecided, AsFormalized, Issued, catalogue
  <2> QED BY <2>1, <2>2 DEF AppInv
<1>4. StepOK(a)
  BY <1>1 DEF StepOK, PromisedAsUsable, StaysDecided, Closed, SubmissionGuardRefuses,
     AppendOnlyRefuses, ConditionGuardRefuses, FormalizationGuardRefuses
<1>5. \A b \in Application \ {a} : Same(b)
  BY <1>1 DEF Same
<1> QED BY <1>1, <1>2, <1>3, <1>4, <1>5, OneApplication DEF Good

LEMMA CancelIsGood ==
  ASSUME OriginationInv, NEW a \in Application, Cancel(a)
  PROVE  Good
<1> USE DEF OriginationInv
<1>1. app[a].status \in {"draft", "submitted", "under_review", "approved"}
  BY DEF Cancel
<1>2. /\ Rewritten(a, app'[a]) /\ app'[a].status = "cancelled" /\ app'[a].row = app[a].row + 1
      /\ app[a].row \in Nat /\ app'[a].creator = app[a].creator
      /\ app'[a].amount = app[a].amount /\ app'[a].pinned = app[a].pinned
  BY MovedFields DEF Cancel, Statuses
<1>3. /\ UNCHANGED catalogue /\ seen' = seen /\ policy' = policy /\ desk[a] = NoTask
      /\ UNCHANGED <<submission, evaluated, decision, condition, contract, documents, desk>>
  BY DEF Cancel, outcomes, authority, around, Idle
<1>4. RowsOK'
  BY <1>1, <1>2, <1>3 DEF RowsOK, Rewritten
<1>5. SeenIsHonest'
  BY <1>1, <1>2, <1>3, SeenStands
<1>6. AppInv(a)'
  <2>1. contract[a] = NoContract
    BY <1>1 DEF AppInv, AsFormalized
  <2>2. Held(a)'
    BY <1>3 DEF Held, NoTask
  <2>3. AsSubmitted(a)' /\ AsFormalized(a)'
    BY <2>1, <1>2, <1>3 DEF AsSubmitted, AsFormalized
  <2>4. decision[a].outcome = "approved" => decision[a].row \in Nat /\ decision[a].row < app[a].row + 1
    <3>1. AsDecided(a)
      BY DEF AppInv
    <3>2. decision[a].outcome = "approved" => decision[a].row \in Nat /\ decision[a].row < app[a].row
      BY <3>1, Zenon DEF AsDecided
    <3> QED BY <3>2, <1>2
  <2>5. AsDecided(a)'
    BY <2>4, <1>1, <1>2, <1>3 DEF AppInv, AsDecided
  <2> QED BY <2>2, <2>3, <2>5 DEF AppInv
<1>7. StepOK(a)
  BY <1>1, <1>2, <1>3 DEF StepOK, PromisedAsUsable, StaysDecided, Closed, SubmissionGuardRefuses,
     AppendOnlyRefuses, ConditionGuardRefuses, FormalizationGuardRefuses
<1>8. \A b \in Application \ {a} : Same(b)
  BY <1>2, <1>3 DEF Same, Rewritten
<1> QED BY <1>3, <1>4, <1>5, <1>6, <1>7, <1>8, OneApplication DEF Good

\* What a command leaves alone when it writes only the documents of an application.
LEMMA DocumentsAreGood ==
  ASSUME OriginationInv, NEW a \in Application, app[a].status \notin Closed,
         DOMAIN documents' = Application,
         \A b \in Application \ {a} : documents'[b] = documents[b],
         UNCHANGED <<catalogue, requests, outcomes, authority, desk>>
  PROVE  Good
<1> USE DEF OriginationInv
<1>1. /\ UNCHANGED catalogue /\ seen' = seen /\ policy' = policy
      /\ UNCHANGED <<app, submission, evaluated, decision, condition, contract, desk>>
  BY DEF requests, outcomes, authority
<1>2. RowsOK' /\ SeenIsHonest'
  BY <1>1 DEF RowsOK, SeenIsHonest
<1>3. Held(a)'
  BY <1>1 DEF AppInv, Held, Usable, IsPublished, Verified, Makers, catalogue
<1>4. AsSubmitted(a)' /\ AsDecided(a)' /\ AsFormalized(a)'
  <2>1. AsSubmitted(a)' /\ AsDecided(a)'
    BY <1>1 DEF AppInv, AsSubmitted, AsDecided
  <2>2. AsFormalized(a)'
    BY <1>1 DEF AppInv, AsFormalized, Issued, catalogue
  <2> QED BY <2>1, <2>2
<1>5. StepOK(a)
  BY <1>1 DEF StepOK, PromisedAsUsable, StaysDecided, SubmissionGuardRefuses,
     AppendOnlyRefuses, ConditionGuardRefuses, FormalizationGuardRefuses
<1>6. \A b \in Application \ {a} : Same(b)
  BY <1>1 DEF Same
<1> QED BY <1>1, <1>2, <1>3, <1>4, <1>5, <1>6, OneApplication DEF Good, AppInv

LEMMA RequestIsGood ==
  ASSUME OriginationInv, NEW a \in Application, Request(a)
  PROVE  Good
<1>1. ASSUME NEW d \in Document, AddDocumentLink(a, d)
      PROVE  Good
  BY <1>1, DocumentsAreGood DEF AddDocumentLink, OriginationInv, RowsOK
<1>2. ASSUME NEW d \in Document, NEW status, SetDocumentStatus(a, d, status)
      PROVE  Good
  BY <1>2, DocumentsAreGood DEF SetDocumentStatus, DocumentsAreOpen, OriginationInv, RowsOK
<1> QED BY <1>1, <1>2, CreateIsGood, UpdateIsGood, SubmitIsGood, ReopenIsGood, ReviewIsGood,
        EvaluationIsGood, CancelIsGood DEF Request

\* Who reads, who grants, and who steps aside: no row of an application moves.
LEMMA RowsStand ==
  ASSUME OriginationInv,
         UNCHANGED <<catalogue, app, submission, evaluated, outcomes, documents, desk>>,
         policy' \in Policies \cup {None},
         seen' = seen \/ \E a \in Application :
           /\ app[a].status # "none"
           /\ seen' = [of |-> a, row |-> app[a].row, amount |-> app[a].amount]
  PROVE  Good
<1> USE DEF OriginationInv
<1>1. UNCHANGED <<decision, condition, contract>> /\ ProductsInv'
  BY CatalogueStutters DEF outcomes
<1>2. RowsOK'
  BY <1>1 DEF RowsOK
<1>3. SeenIsHonest'
  BY DEF SeenIsHonest, RowsOK, AppRow
<1>4. ASSUME NEW b \in Application
      PROVE  AppInv(b)' /\ StepOK(b)
  <2>1. Held(b)'
    BY <1>1 DEF AppInv, Held, Usable, IsPublished, Verified, Makers, catalogue
  <2>2. AsSubmitted(b)' /\ AsDecided(b)' /\ AsFormalized(b)'
    BY <1>1 DEF AppInv, AsSubmitted, AsDecided, AsFormalized, Issued, catalogue
  <2>3. StepOK(b)
    BY <1>1 DEF StepOK, PromisedAsUsable, StaysDecided, SubmissionGuardRefuses,
       AppendOnlyRefuses, ConditionGuardRefuses, FormalizationGuardRefuses
  <2> QED BY <2>1, <2>2, <2>3 DEF AppInv
<1> QED BY <1>1, <1>2, <1>3, <1>4 DEF Good

-----------------------------------------------------------------------------
(* The commands that decide and formalize.                                 *)

\* A command that only takes or gives up the row of an application.
LEMMA DeskIsGood ==
  ASSUME OriginationInv, NEW a \in Application, NEW task,
         desk' = [desk EXCEPT ![a] = task],
         UNCHANGED <<catalogue, requests, outcomes, authority, around>>,
         Held(a)'
  PROVE  Good
<1> USE DEF OriginationInv
<1>1. /\ UNCHANGED catalogue /\ seen' = seen /\ policy' = policy /\ DOMAIN desk' = Application
      /\ \A b \in Application \ {a} : desk'[b] = desk[b]
      /\ UNCHANGED <<app, submission, evaluated, decision, condition, contract, documents>>
  BY DEF requests, outcomes, authority, around, RowsOK
<1>2. RowsOK' /\ SeenIsHonest'
  BY <1>1 DEF RowsOK, SeenIsHonest
<1>3. AsSubmitted(a)' /\ AsDecided(a)'
  BY <1>1 DEF AppInv, AsSubmitted, AsDecided
<1>4. AsFormalized(a)'
  BY <1>1 DEF AppInv, AsFormalized, Issued, catalogue
<1>5. StepOK(a)
  BY <1>1 DEF StepOK, PromisedAsUsable, StaysDecided, SubmissionGuardRefuses,
     AppendOnlyRefuses, ConditionGuardRefuses, FormalizationGuardRefuses
<1>6. \A b \in Application \ {a} : Same(b)
  BY <1>1 DEF Same
<1> QED BY <1>1, <1>2, <1>3, <1>4, <1>5, <1>6, OneApplication DEF Good, AppInv

\* Whoever may approve holds, from then on, a task within the authority that was read.
LEMMA ApprovalLocks ==
  ASSUME OriginationInv, NEW a \in Application, NEW u \in User, NEW amount \in Amount,
         NEW conditioned \in BOOLEAN, LockToApprove(a, u, amount, conditioned)
  PROVE  Good
<1> USE DEF OriginationInv
<1> DEFINE limit == IF policy.limits THEN MatchingLimit(u) ELSE 0
           task == [kind |-> "approve", by |-> u, amount |-> amount, conditioned |-> conditioned,
                    policy |-> policy, limit |-> limit]
<1>1. /\ desk' = [desk EXCEPT ![a] = task]
      /\ UNCHANGED <<catalogue, requests, outcomes, authority, around>>
      /\ Decidable(a) /\ Usable(app[a].pinned) /\ Authorized(a, u, amount)
  BY DEF LockToApprove
<1>2. /\ task.kind = "approve" /\ task.by = u /\ task.amount = amount
      /\ task.policy = policy /\ task.limit = limit
  OBVIOUS
<1>3. policy.limits => limit = MatchingLimit(u)
  OBVIOUS
<1> HIDE DEF task, limit
<1>4. /\ desk'[a] = task /\ UNCHANGED <<app, decision, evaluated, version, product, seen>>
  BY <1>1 DEF RowsOK, requests, outcomes, catalogue
<1>5. app[a].amount \in Nat /\ amount \in Nat
  BY <1>1, AmountsArePositive DEF Decidable, RowsOK
<1>6. WithinAuthority(u, amount, policy, limit, app[a].amount, Makers(a), evaluated[a])
  BY <1>1, <1>3, <1>5 DEF Authorized, WithinAuthority
<1>7. Held(a)'
  <2>1. /\ desk'[a].kind = "approve" /\ desk'[a].by = u /\ desk'[a].amount = amount
        /\ desk'[a].policy = policy /\ desk'[a].limit = limit
    BY <1>2, <1>4
  <2>2. /\ app'[a].status = "under_review" /\ decision'[a] = Undecided /\ Usable(app[a].pinned)'
        /\ seen'.of = a => seen'.row = app'[a].row
    BY <1>1, <1>4 DEF Decidable, Usable, IsPublished, Verified
  <2>3. WithinAuthority(desk[a].by, desk[a].amount, desk[a].policy, desk[a].limit, app[a].amount,
                        Makers(a), evaluated[a])'
    BY <1>4, <1>6, <2>1 DEF Makers, WithinAuthority
  <2> QED BY <2>1, <2>2, <2>3 DEF Held
<1> QED BY <1>1, <1>7, DeskIsGood

LEMMA FormalizationLocks ==
  ASSUME OriginationInv, NEW a \in Application, NEW u \in User, LockToFormalize(a, u)
  PROVE  Good
<1> USE DEF OriginationInv
<1> DEFINE task == [NoTask EXCEPT !.kind = "formalize", !.by = u]
<1>1. /\ desk' = [desk EXCEPT ![a] = task] /\ task.kind = "formalize"
      /\ UNCHANGED <<catalogue, requests, outcomes, authority, around>> /\ Formalizable(a)
  BY DEF LockToFormalize, NoTask
<1> HIDE DEF task
<1>2. /\ desk'[a] = task
      /\ UNCHANGED <<app, decision, contract, condition, version, product>>
  BY <1>1 DEF RowsOK, requests, outcomes, catalogue
<1>3. Held(a)'
  BY <1>1, <1>2 DEF Held, Formalizable, Usable, IsPublished, Verified
<1> QED BY <1>1, <1>3, DeskIsGood

LEMMA GivenUpIsGood ==
  ASSUME OriginationInv, NEW a \in Application, GiveUp(a)
  PROVE  Good
<1>1. Held(a)'
  BY DEF GiveUp, OriginationInv, RowsOK, Held, NoTask
<1> QED BY <1>1, DeskIsGood DEF GiveUp

\* The approval says what was held since the rows were read.
LEMMA ApprovalIsGood ==
  ASSUME OriginationInv, NEW a \in Application, CommitApproval(a)
  PROVE  Good
<1> USE DEF OriginationInv
<1> DEFINE made == [outcome |-> "approved", by |-> desk[a].by, row |-> app[a].row,
                    amount |-> desk[a].amount, pinned |-> app[a].pinned,
                    hash |-> version[app[a].pinned].hash, policy |-> desk[a].policy,
                    limit |-> desk[a].limit]
<1>1. /\ app[a].status = "under_review" /\ decision[a] = Undecided /\ Usable(app[a].pinned)
      /\ seen.of = a => seen.row = app[a].row
      /\ WithinAuthority(desk[a].by, desk[a].amount, desk[a].policy, desk[a].limit, app[a].amount,
                         Makers(a), evaluated[a])
  BY DEF CommitApproval, AppInv, Held
<1>2. /\ Rewritten(a, app'[a]) /\ app'[a].status = "approved" /\ app'[a].row = app[a].row + 1
      /\ app[a].row \in Nat /\ app'[a].creator = app[a].creator
      /\ app'[a].submitter = app[a].submitter
      /\ app'[a].amount = app[a].amount /\ app'[a].pinned = app[a].pinned
  BY MovedFields DEF CommitApproval, Statuses
<1>3. /\ decision' = [decision EXCEPT ![a] = made]
      /\ condition' = [condition EXCEPT ![a] = IF desk[a].conditioned THEN "pending" ELSE "none"]
      /\ seen' = NotSeen /\ desk' = [desk EXCEPT ![a] = NoTask]
      /\ UNCHANGED <<catalogue, submission, evaluated, contract, policy, documents>>
  BY DEF CommitApproval, authority, around
<1>4. /\ made.outcome = "approved" /\ made.by = desk[a].by /\ made.row = app[a].row
      /\ made.amount = desk[a].amount /\ made.pinned = app[a].pinned
      /\ made.policy = desk[a].policy /\ made.limit = desk[a].limit
  OBVIOUS
<1> HIDE DEF made
<1>5. /\ decision'[a] = made /\ desk'[a] = NoTask
      /\ DOMAIN decision' = Application /\ DOMAIN desk' = Application /\ DOMAIN condition' = Application
      /\ \A b \in Application \ {a} :
           decision'[b] = decision[b] /\ desk'[b] = desk[b] /\ condition'[b] = condition[b]
  BY <1>3 DEF RowsOK
<1>6. RowsOK'
  BY <1>1, <1>2, <1>3, <1>5 DEF RowsOK, Rewritten
<1>7. SeenIsHonest'
  BY <1>3 DEF SeenIsHonest, NotSeen
<1>8. AppInv(a)'
  <2>1. Held(a)'
    BY <1>5 DEF Held, NoTask
  <2>2. AsSubmitted(a)'
    BY <1>1, <1>2, <1>3 DEF AppInv, AsSubmitted
  <2>3. /\ Last(submission[a]).amount = app[a].amount
        /\ Makers(a) = {app[a].creator, Last(submission[a]).by}
    BY <1>1 DEF AppInv, AsSubmitted, Makers
  <2>4. WithinAuthority(made.by, made.amount, made.policy, made.limit, Last(submission[a]).amount,
                        {app[a].creator, Last(submission[a]).by}, evaluated[a])
    BY <1>1, <1>4, <2>3
  <2>5. WithinAuthority(decision[a].by, decision[a].amount, decision[a].policy, decision[a].limit,
                        Last(submission[a]).amount,
                        {app[a].creator, Last(submission[a]).by}, evaluated[a])'
    BY <1>2, <1>3, <1>5, <2>4 DEF WithinAuthority
  <2>6. made.policy # None
    BY <2>4 DEF WithinAuthority
  <2>7. AsDecided(a)'
    BY <1>2, <1>4, <1>5, <2>5, <2>6 DEF AsDecided
  <2>8. contract[a] = NoContract
    BY <1>1 DEF AppInv, AsFormalized
  <2>9. AsFormalized(a)'
    BY <1>2, <1>3, <2>8 DEF AsFormalized
  <2> QED BY <2>1, <2>2, <2>7, <2>9 DEF AppInv
<1>9. StepOK(a)
  <2>1. condition[a] = "none"
    BY <1>1 DEF AppInv, AsDecided, Undecided
  <2>2. seen.of = a => seen.amount = app[a].amount
    BY <1>1, NobodyIsNone DEF SeenIsHonest
  <2>3. ~SubmissionGuardRefuses(submission[a], submission'[a])
    <3>1. ~(Len(submission[a]) < Len(submission[a]))
      BY DEF RowsOK
    <3> QED BY <3>1, <1>3 DEF SubmissionGuardRefuses
  <2> QED BY <2>1, <2>2, <2>3, <1>1, <1>2, <1>3 DEF StepOK, PromisedAsUsable, StaysDecided, Closed,
          AppendOnlyRefuses, ConditionGuardRefuses, FormalizationGuardRefuses
<1>10. \A b \in Application \ {a} : Same(b)
  BY <1>2, <1>3, <1>5 DEF Same, Rewritten
<1>11. seen'.of = None
  BY <1>3 DEF NotSeen
<1> QED BY <1>3, <1>6, <1>7, <1>8, <1>9, <1>10, <1>11, OneApplication DEF Good

LEMMA RejectIsGood ==
  ASSUME OriginationInv, NEW a \in Application, NEW u \in User, Reject(a, u)
  PROVE  Good
<1> USE DEF OriginationInv
<1> DEFINE made == [Undecided EXCEPT !.outcome = "rejected", !.by = u, !.row = app[a].row]
<1>1. /\ app[a].status = "under_review" /\ decision[a] = Undecided /\ desk[a] = NoTask
      /\ seen.of = a /\ seen.row = app[a].row
  BY DEF Reject, Decidable, Idle
<1>2. /\ Rewritten(a, app'[a]) /\ app'[a].status = "rejected" /\ app'[a].row = app[a].row + 1
      /\ app[a].row \in Nat /\ app'[a].creator = app[a].creator
      /\ app'[a].submitter = app[a].submitter
      /\ app'[a].amount = app[a].amount /\ app'[a].pinned = app[a].pinned
  BY MovedFields DEF Reject, Statuses
<1>3. /\ decision' = [decision EXCEPT ![a] = made] /\ seen' = NotSeen
      /\ UNCHANGED <<catalogue, submission, evaluated, condition, contract, policy, desk, documents>>
  BY DEF Reject, authority, around
<1>4. made.outcome = "rejected" /\ made.policy = None
  BY DEF Undecided
<1> HIDE DEF made
<1>5. /\ decision'[a] = made /\ DOMAIN decision' = Application
      /\ \A b \in Application \ {a} : decision'[b] = decision[b]
  BY <1>3 DEF RowsOK
<1>6. RowsOK'
  <2>1. \A b \in Application : app'[b].status # "none" =>
          app'[b].pinned \in Version /\ app'[b].amount \in Amount
    BY <1>1, <1>2 DEF RowsOK, Rewritten
  <2> QED BY <2>1, <1>2, <1>3, <1>5 DEF RowsOK, Rewritten
<1>7. SeenIsHonest'
  BY <1>3 DEF SeenIsHonest, NotSeen
<1>8. AppInv(a)'
  <2>1. Held(a)'
    BY <1>1, <1>3 DEF Held, NoTask
  <2>2. AsSubmitted(a)'
    BY <1>1, <1>2, <1>3 DEF AppInv, AsSubmitted
  <2>3. AsDecided(a)'
    BY <1>2, <1>4, <1>5 DEF AsDecided
  <2>4. contract[a] = NoContract
    BY <1>1 DEF AppInv, AsFormalized
  <2>5. AsFormalized(a)'
    BY <1>2, <1>3, <2>4 DEF AsFormalized
  <2> QED BY <2>1, <2>2, <2>3, <2>5 DEF AppInv
<1>9. StepOK(a)
  <2>1. seen.amount = app[a].amount
    BY <1>1, NobodyIsNone DEF SeenIsHonest
  <2>2. ~SubmissionGuardRefuses(submission[a], submission'[a])
    <3>1. ~(Len(submission[a]) < Len(submission[a]))
      BY DEF RowsOK
    <3> QED BY <3>1, <1>3 DEF SubmissionGuardRefuses
  <2> QED BY <2>1, <2>2, <1>1, <1>2, <1>3 DEF StepOK, PromisedAsUsable, StaysDecided, Closed,
          AppendOnlyRefuses, ConditionGuardRefuses, FormalizationGuardRefuses
<1>10. \A b \in Application \ {a} : Same(b)
  BY <1>2, <1>3, <1>5 DEF Same, Rewritten
<1>11. seen'.of = None
  BY <1>3 DEF NotSeen
<1> QED BY <1>3, <1>6, <1>7, <1>8, <1>9, <1>10, <1>11, OneApplication DEF Good

LEMMA ConditionIsGood ==
  ASSUME OriginationInv, NEW a \in Application, NEW status, ResolveCondition(a, status),
         status \in {"fulfilled", "waived"}
  PROVE  Good
<1> USE DEF OriginationInv
<1>1. /\ app[a].status = "approved" /\ desk[a] = NoTask /\ condition[a] = "pending"
      /\ UNCHANGED catalogue /\ seen' = seen /\ policy' = policy
      /\ DOMAIN condition' = Application /\ condition'[a] = status
      /\ \A b \in Application \ {a} : condition'[b] = condition[b]
      /\ UNCHANGED <<app, submission, evaluated, decision, contract, documents, desk>>
  BY DEF ResolveCondition, requests, authority, around, Idle, RowsOK
<1>2. RowsOK' /\ SeenIsHonest'
  BY <1>1 DEF RowsOK, SeenIsHonest
<1>3. AppInv(a)'
  <2>1. Held(a)'
    BY <1>1 DEF Held, NoTask
  <2>2. AsSubmitted(a)' /\ AsDecided(a)'
    BY <1>1 DEF AppInv, AsSubmitted, AsDecided
  <2>3. AsFormalized(a)'
    BY <1>1 DEF AppInv, AsFormalized
  <2> QED BY <2>1, <2>2, <2>3 DEF AppInv
<1>4. StepOK(a)
  BY <1>1 DEF StepOK, PromisedAsUsable, StaysDecided, Closed, SubmissionGuardRefuses,
     AppendOnlyRefuses, ConditionGuardRefuses, FormalizationGuardRefuses
<1>5. \A b \in Application \ {a} : Same(b)
  BY <1>1 DEF Same
<1> QED BY <1>1, <1>2, <1>3, <1>4, <1>5, OneApplication DEF Good

\* The contract is of the version that was usable when the rows were shared, and still is.
LEMMA FormalizationIsGood ==
  ASSUME OriginationInv, NEW a \in Application, CommitFormalization(a)
  PROVE  Good
<1> USE DEF OriginationInv
<1> DEFINE v == decision[a].pinned
<1>1. /\ app[a].status = "approved" /\ contract[a] = NoContract /\ condition[a] # "pending"
      /\ Usable(v) /\ version[v].hash = decision[a].hash
  BY DEF CommitFormalization, AppInv, Held
<1>2. v = app[a].pinned /\ v \in Version /\ decision[a].outcome = "approved"
  BY <1>1 DEF AppInv, AsDecided, RowsOK
<1>3. /\ Rewritten(a, app'[a]) /\ app'[a].status = "formalized" /\ app'[a].row = app[a].row + 1
      /\ app[a].row \in Nat /\ app'[a].creator = app[a].creator
      /\ app'[a].submitter = app[a].submitter
      /\ app'[a].amount = app[a].amount /\ app'[a].pinned = app[a].pinned
  BY MovedFields DEF CommitFormalization, Statuses
<1>4. /\ contract' = [contract EXCEPT ![a] = Frozen(a)] /\ desk' = [desk EXCEPT ![a] = NoTask]
      /\ UNCHANGED <<catalogue, submission, evaluated, seen, decision, condition, policy, documents>>
  BY DEF CommitFormalization, authority, around
<1>5. v \in Issued /\ version[v].content = version[v].hash /\ version[v].hash # None
  BY <1>1, <1>2, UsableIsIssued
<1>6. /\ Frozen(a).amount = decision[a].amount /\ Frozen(a).pinned = v
      /\ Frozen(a).hash = version[v].hash /\ Frozen(a).snapshot = version[v].content
  BY DEF Frozen
<1>7. Frozen(a) # NoContract
  BY <1>2, <1>6, NoneIsNoDay DEF NoContract
<1>8. /\ contract'[a] = Frozen(a) /\ desk'[a] = NoTask
      /\ DOMAIN contract' = Application /\ DOMAIN desk' = Application
      /\ \A b \in Application \ {a} : contract'[b] = contract[b] /\ desk'[b] = desk[b]
  BY <1>4 DEF RowsOK
<1>9. RowsOK'
  <2>1. \A b \in Application : app'[b].status # "none" =>
          app'[b].pinned \in Version /\ app'[b].amount \in Amount
    BY <1>1, <1>3 DEF RowsOK, Rewritten
  <2> QED BY <2>1, <1>3, <1>4, <1>8 DEF RowsOK, Rewritten
<1>10. SeenIsHonest'
  BY <1>1, <1>3, <1>4, SeenStands
<1>11. AppInv(a)'
  <2>1. Held(a)'
    BY <1>8 DEF Held, NoTask
  <2>2. AsSubmitted(a)'
    BY <1>1, <1>3, <1>4 DEF AppInv, AsSubmitted
  <2>3. decision[a].row \in Nat /\ decision[a].row < app[a].row + 1
    <3>1. AsDecided(a)
      BY DEF AppInv
    <3>2. decision[a].row \in Nat /\ decision[a].row < app[a].row
      BY <3>1, <1>2, Zenon DEF AsDecided
    <3> QED BY <3>2, <1>3
  <2>4. AsDecided(a)'
    BY <2>3, <1>1, <1>2, <1>3, <1>4 DEF AppInv, AsDecided
  <2>5. version' = version /\ Issued' = Issued
    BY <1>4 DEF catalogue, Issued
  <2>6. AsFormalized(a)'
    BY <1>1, <1>3, <1>4, <1>5, <1>6, <1>7, <1>8, <2>5 DEF AsFormalized
  <2> QED BY <2>1, <2>2, <2>4, <2>6 DEF AppInv
<1>12. StepOK(a)
  <2>1. ~SubmissionGuardRefuses(submission[a], submission'[a])
    <3>1. ~(Len(submission[a]) < Len(submission[a]))
      BY DEF RowsOK
    <3> QED BY <3>1, <1>4 DEF SubmissionGuardRefuses
  <2>2. PromisedAsUsable(a)
    BY <1>1, <1>2 DEF PromisedAsUsable
  <2> QED BY <2>1, <2>2, <1>1, <1>4 DEF StepOK, StaysDecided, Closed, AppendOnlyRefuses,
          ConditionGuardRefuses, FormalizationGuardRefuses
<1>13. \A b \in Application \ {a} : Same(b)
  BY <1>3, <1>4, <1>8 DEF Same, Rewritten
<1> QED BY <1>4, <1>9, <1>10, <1>11, <1>12, <1>13, OneApplication DEF Good

LEMMA DecideIsGood ==
  ASSUME OriginationInv, NEW a \in Application, Decide(a)
  PROVE  Good
<1>1. CASE ReadApplication(a)
  <2>1. policy' \in Policies \cup {None}
    BY <1>1 DEF ReadApplication, authority, OriginationInv, RowsOK
  <2> QED BY <1>1, <2>1, RowsStand DEF ReadApplication, around
<1>2. ASSUME NEW status \in {"fulfilled", "waived"}, ResolveCondition(a, status)
      PROVE  Good
  BY <1>2, ConditionIsGood
<1> QED BY <1>1, <1>2, ApprovalLocks, ApprovalIsGood, RejectIsGood, FormalizationLocks,
        FormalizationIsGood, GivenUpIsGood DEF Decide

-----------------------------------------------------------------------------
(* A step of the catalogue.                                                *)

LEMMA CatalogueIsGood ==
  ASSUME OriginationInv, Catalogue
  PROVE  Good
<1> USE DEF OriginationInv
<1>1. /\ UNCHANGED <<app, submission, evaluated, seen, decision, condition, contract, policy>>
      /\ UNCHANGED <<documents, desk>>
  BY DEF Catalogue, requests, outcomes, authority, around
<1>2. [ProductsNext]_catalogue
  BY DEF Catalogue, ProductsNext
<1>3. ProductsInv'
  BY <1>2, ProductsPreserved
<1>4. RowsOK' /\ SeenIsHonest'
  BY <1>1 DEF RowsOK, SeenIsHonest
<1>5. ASSUME NEW b \in Application
      PROVE  AppInv(b)' /\ StepOK(b)
  <2>1. Held(b)'
    <3>1. CASE desk[b] = NoTask
      BY <3>1, <1>1 DEF Held, NoTask
    <3>2. CASE desk[b] # NoTask
      <4>1. AroundVersions
        BY <3>2 DEF Catalogue, Shared, Idle
      <4>2. CASE desk[b].kind = "approve"
        <5>1. app[b].pinned \in Version /\ Usable(app[b].pinned)
          BY <4>2 DEF AppInv, Held, RowsOK
        <5>2. Usable(app[b].pinned)'
          BY <4>1, <5>1, <1>1, UsableStands DEF Usable, IsPublished, Verified
        <5> QED BY <4>2, <5>2, <1>1 DEF AppInv, Held, Makers
      <4>3. CASE desk[b].kind = "formalize"
        <5>1. decision[b].pinned \in Version /\ Usable(decision[b].pinned)
          BY <4>3 DEF AppInv, Held, AsDecided, RowsOK
        <5>2. Usable(decision[b].pinned)' /\ version'[decision[b].pinned] = version[decision[b].pinned]
          BY <4>1, <5>1, <1>1, UsableStands DEF Usable, IsPublished, Verified
        <5> QED BY <4>3, <5>2, <1>1 DEF AppInv, Held
      <4> QED BY <3>2, <4>2, <4>3 DEF AppInv, Held
    <3> QED BY <3>1, <3>2
  <2>2. AsSubmitted(b)' /\ AsDecided(b)'
    BY <1>1 DEF AppInv, AsSubmitted, AsDecided
  <2>3. AsFormalized(b)'
    <3>1. CASE contract[b] = NoContract
      BY <3>1, <1>1 DEF AppInv, AsFormalized
    <3>2. CASE contract[b] # NoContract
      <4>1. contract[b].pinned \in Issued
        BY <3>2 DEF AppInv, AsFormalized
      <4>2. /\ contract[b].pinned \in Issued'
            /\ version'[contract[b].pinned].content = version[contract[b].pinned].content
            /\ version'[contract[b].pinned].hash = version[contract[b].pinned].hash
        BY <4>1, <1>2, IssuedStands
      <4> QED BY <3>2, <4>2, <1>1 DEF AppInv, AsFormalized
    <3> QED BY <3>1, <3>2
  <2>4. StepOK(b)
    <3>1. ~SubmissionGuardRefuses(submission[b], submission'[b])
      <4>1. ~(Len(submission[b]) < Len(submission[b]))
        BY DEF RowsOK
      <4> QED BY <4>1, <1>1 DEF SubmissionGuardRefuses
    <3> QED BY <3>1, <1>1 DEF StepOK, PromisedAsUsable, StaysDecided, AppendOnlyRefuses,
            ConditionGuardRefuses, FormalizationGuardRefuses
  <2> QED BY <2>1, <2>2, <2>3, <2>4 DEF AppInv
<1> QED BY <1>3, <1>4, <1>5 DEF Good

-----------------------------------------------------------------------------
LEMMA OriginationPreserved == OriginationInv /\ [Next]_vars => Good
<1> SUFFICES ASSUME OriginationInv, [Next]_vars PROVE Good
  OBVIOUS
<1>1. policy \in Policies \cup {None}
  BY DEF OriginationInv, RowsOK
<1>2. CASE Authorize
  <2>1. /\ UNCHANGED <<catalogue, requests, outcomes, desk, around>>
        /\ policy' \in Policies \cup {None}
    BY <1>1, <1>2 DEF Authorize, SetPolicy, CreateLimit, RevokeLimit
  <2> QED BY <2>1, RowsStand DEF requests, around
<1>3. CASE SetParties
  BY <1>1, <1>3, RowsStand DEF SetParties, requests, authority
<1>4. CASE UNCHANGED vars
  BY <1>1, <1>4, RowsStand DEF vars, requests, authority, around
<1> QED BY <1>2, <1>3, <1>4, CatalogueIsGood, RequestIsGood, DecideIsGood DEF Next

\* No step but one of the catalogue touches it.
LEMMA CatalogueSteps == [Next]_vars => [ProductsNext]_catalogue
<1> SUFFICES ASSUME [Next]_vars, ~UNCHANGED catalogue PROVE ProductsNext
  OBVIOUS
<1>1. ASSUME NEW a \in Application, Request(a)
      PROVE  FALSE
  BY <1>1 DEF Request, CreateApplication, UpdateDraft, Submit, Reopen, StartReview, AddEvaluation,
     Cancel, AddDocumentLink, SetDocumentStatus
<1>2. ASSUME NEW a \in Application, Decide(a)
      PROVE  FALSE
  BY <1>2 DEF Decide, ReadApplication, LockToApprove, CommitApproval, Reject, ResolveCondition,
     LockToFormalize, CommitFormalization, GiveUp
<1>3. ~Authorize /\ ~SetParties /\ ~UNCHANGED vars
  BY DEF Authorize, SetPolicy, CreateLimit, RevokeLimit, SetParties, vars
<1> QED BY <1>1, <1>2, <1>3 DEF Next, Catalogue, ProductsNext

\* Every reachable state of applications and catalogue satisfies the invariant.
THEOREM OriginationInductive == Spec => []OriginationInv
<1>1. OriginationInv /\ [Next]_vars => OriginationInv'
  BY OriginationPreserved DEF Good
<1> QED BY <1>1, OriginationInitially, PTL DEF Spec

\* Applications hold on to the versions of a product, and still one at most is in force on a day.
THEOREM OneInForceUnderApplications == Spec => []OneVersionInForce
<1>1. OriginationInv => OneVersionInForce
  BY WindowsDoNotMeet DEF OriginationInv
<1> QED BY <1>1, OriginationInductive, PTL

\* The chain from the request that was submitted to the contract agrees: one decision, by somebody
\* with the authority that is stored beside it, about the request of the last submission, and a
\* contract of what was approved, which a disbursement and a reader verify without fail.
THEOREM TraceableContract == Spec => []ContractIsTraceable
<1>1. OriginationInv => ContractIsTraceable
  <2> SUFFICES ASSUME OriginationInv PROVE ContractIsTraceable
    OBVIOUS
  <2>1. \A a \in Application : AsSubmitted(a) /\ AsDecided(a) /\ AsFormalized(a)
    BY DEF OriginationInv, AppInv
  <2>2. WhatIsReviewedWasSubmitted
    BY <2>1 DEF WhatIsReviewedWasSubmitted, AsSubmitted
  <2>3. ASSUME NEW a \in Application, decision[a].outcome = "approved"
        PROVE  /\ app[a].status \in {"approved", "formalized", "cancelled"}
               /\ decision[a].pinned = app[a].pinned /\ decision[a].row < app[a].row
               /\ decision[a].policy.maker_checker =>
                    decision[a].by \notin {app[a].creator, Last(submission[a]).by}
               /\ decision[a].policy.limits => decision[a].amount <= decision[a].limit
               /\ ~decision[a].policy.may_exceed => decision[a].amount <= Last(submission[a]).amount
               /\ decision[a].policy.evaluation => evaluated[a]
    BY <2>1, <2>3, Zenon DEF AsDecided, WithinAuthority
  <2>4. ASSUME NEW a \in Application, contract[a] # NoContract
        PROVE  /\ contract[a].amount = decision[a].amount /\ contract[a].pinned = decision[a].pinned
               /\ contract[a].hash = decision[a].hash
               /\ ContractVerifies(a) /\ HashVerified(a)
               /\ condition[a] # "pending"
    BY <2>1, <2>4 DEF AsFormalized, ContractVerifies, HashVerified, Verified
  <2>5. ASSUME NEW a \in Application
        PROVE  /\ decision[a].outcome = "approved" <=> decision[a].policy # None
               /\ app[a].status \in {"approved", "formalized"} => decision[a].outcome = "approved"
               /\ app[a].status = "rejected" <=> decision[a].outcome = "rejected"
               /\ app[a].status = "formalized" <=> contract[a] # NoContract
    BY <2>1, Zenon DEF AsDecided, AsFormalized
  <2> QED BY <2>2, <2>3, <2>4, <2>5, Zenon DEF ContractIsTraceable
<1> QED BY <1>1, OriginationInductive, PTL

\* No approval and no contract commits over a version or a product that was withdrawn meanwhile.
THEOREM OnlyUsableIsPromised == Spec => NothingWithdrawnIsPromised
<1>1. OriginationInv /\ [Next]_vars =>
        [\A a \in Application :
           app'[a].status # app[a].status /\ app'[a].status \in {"approved", "formalized"} =>
             Usable(app[a].pinned)]_vars
  BY OriginationPreserved DEF Good, StepOK, PromisedAsUsable
<1> QED BY <1>1, OriginationInductive, PTL DEF NothingWithdrawnIsPromised, Spec

\* What was in force on a day gone by stays so, whoever applies meanwhile.
THEOREM PastStandsUnderApplications == Spec => PastVigencyStands
<1> DEFINE Past == \A day \in Day : day < today => InForce(day)' = InForce(day)
<1>1. OriginationInv /\ [Next]_vars => [Past]_catalogue
  BY CatalogueSteps, ProductsPreserved DEF StepIsSound, OriginationInv
<1> QED BY <1>1, OriginationInductive, PTL DEF PastVigencyStands, Spec

\* A version is published and an application decided as its author last read it; what is decided or
\* closed stands, and no trigger ever has to refuse a step of the service.
THEOREM DecidedAsSeen == Spec => DecidedAsRead
<1> DEFINE Sound ==
      \A v \in Version :
        /\ IsDraft(v) /\ version'[v].state = "published" => version'[v].hash = look.content
        /\ ~VersionGuardRefuses(version[v], version'[v])
<1>1. OriginationInv /\ [Next]_vars => [Sound]_catalogue
  BY CatalogueSteps, ProductsPreserved DEF StepIsSound, OriginationInv
<1>2. OriginationInv /\ [Next]_vars =>
        [\A a \in Application :
           /\ decision[a] = Undecided /\ decision'[a] # Undecided /\ seen.of = a =>
                seen.amount = app[a].amount
           /\ app[a].status \in Closed =>
                UNCHANGED <<app[a], submission[a], evaluated[a], decision[a], condition[a], documents[a]>>
           /\ ~SubmissionGuardRefuses(submission[a], submission'[a])
           /\ ~AppendOnlyRefuses(decision[a], decision'[a])
           /\ ~ConditionGuardRefuses(condition[a], condition'[a])
           /\ ~FormalizationGuardRefuses(contract[a], contract'[a])]_vars
  BY OriginationPreserved DEF Good, StepOK, StaysDecided
<1> QED BY <1>1, <1>2, OriginationInductive, PTL DEF DecidedAsRead, IssuedAsRead, Spec
=============================================================================
