--------------------------- MODULE Desktop_proofs ---------------------------
(* Proofs of the safety properties of Desktop, for any finite set of names, *)
(* any bounds, curves, intervals and defaults that satisfy the assumptions. *)
(*                                                                          *)
(* Every part keeps an invariant of its own, which the other parts' steps   *)
(* leave alone:                                                             *)
(*   AppInv     the types, with what is still to be written; until a        *)
(*              profile is renamed every name is there once, with Standard  *)
(*              and the current profile; the profile that the daemon was    *)
(*              given last is the current one; a file is torn only while it *)
(*              is written, and the profiles are the user's in memory and,  *)
(*              but for what waits to be written, in the file; the menu     *)
(*              shows the current profile, or what it compares is stale, or *)
(*              the event that explains the difference is its last;         *)
(*   CurveInv   the types, and a curve that Save checked gives every        *)
(*              temperature one speed;                                      *)
(*   RatesInv   the types; the coordinator sleeps no longer than any        *)
(*              component lets it; the last command for a component carries *)
(*              its rate; the last calls that wait carry the file and the   *)
(*              slider; the jobs follow what was stored or the slider.      *)
EXTENDS Desktop, FiniteSetTheorems, SequenceTheorems, WellFoundedInduction, TLAPS

-----------------------------------------------------------------------------
(* The files, the profiles page and the tray: GuiApp *)

Name == Names \cup {Standard}

\* Configurations within the bound, and what a file can hold.
Bounded == {conf \in Configs : Len(conf.profiles) <= MaxProfiles}
Stored == Bounded \cup {Absent, Torn}

FileTypes == [settings : {"settings", Absent, Torn}, profiles : Stored, legacy : Stored]

TrayTypes ==
    {menu \in [names : Seq(Name), selected : 1 .. MaxProfiles, events : Seq(1 .. MaxProfiles)] :
        Len(menu.names) <= MaxProfiles /\ Len(menu.events) <= MaxClicks}

LastTypes == [current : Name, count : Nat]

GhostTypes ==
    [owned : SUBSET Names, durable : SUBSET Names, harmed : BOOLEAN, renamed : BOOLEAN,
     dirty : BOOLEAN, switched : BOOLEAN, crossed : BOOLEAN]

Writes == {<<>>, <<"settings">>, <<"profiles">>, <<"settings", "profiles">>}

Types ==
    /\ GuiAppConstants
    /\ pc \in {"down", "frame", "draw", "write"}
    /\ config \in Bounded
    /\ applied \in Profiles \cup {<<>>}
    /\ files \in FileTypes
    /\ todo \in Writes /\ (pc = "write" <=> todo # <<>>)
    /\ tray \in TrayTypes
    /\ last \in LastTypes
    /\ ghost \in GhostTypes

Distinct(list) == \A i, j \in DOMAIN list : list[i].name = list[j].name => i = j

WellFormed(conf) ==
    /\ Distinct(conf.profiles)
    /\ Standard \in NamesIn(conf.profiles) /\ conf.current \in NamesIn(conf.profiles)

\* Until the tuning page renames a profile, every name is there once, and both
\* Standard and the current profile exist.
Formed ==
    ~ghost.renamed =>
        /\ WellFormed(config)
        /\ \A f \in {"profiles", "legacy"} : Readable(f) => WellFormed(files[f])

\* The daemon was given the current profile last.
Applied ==
    ~ghost.renamed /\ pc # "down" =>
        /\ applied.name = config.current
        /\ \E i \in DOMAIN config.profiles :
              /\ config.profiles[i].name = config.current
              /\ ghost.dirty \/ applied = config.profiles[i]

\* A file is torn while it is being written; the profiles are those of the user
\* in memory and, but for what waits to be written, in the file.
Kept ==
    /\ ~ghost.harmed =>
          \A f \in DOMAIN files : files[f] = Torn => pc = "write" /\ f = Head(todo)
    /\ ~ghost.harmed /\ ~ghost.renamed =>
          /\ pc # "down" => NamesIn(config.profiles) = ghost.owned \cup {Standard}
          /\ files.profiles # Torn => NamesOnDisk = ghost.durable \cup {Standard}
          /\ todo \in {<<>>, <<"settings">>} => ghost.owned = ghost.durable

Stale == CountChanged \/ CurrentChanged

\* The menu shows the current profile, or will when it is synchronised or has
\* handled its last event.
Menu ==
    pc # "down" /\ ~ghost.renamed =>
        /\ ~CountChanged => tray.names = NameSeq(config.profiles)
        /\ pc = "draw" => ~CountChanged /\ (~ghost.switched => ~CurrentChanged)
        /\ tray.selected <= Len(tray.names)
        /\ \/ ghost.crossed \/ Stale \/ Shows(tray)
           \/ tray.events # <<>> /\ tray.selected = tray.events[Len(tray.events)]

AppInv == Types /\ Formed /\ Applied /\ Kept /\ Menu

-----------------------------------------------------------------------------
(* Sequences *)

LEMMA LeastExists ==
    ASSUME NEW T, T \subseteq Nat, T # {}
    PROVE  \E k \in T : \A m \in T : k <= m
<1> DEFINE Less == {ss \in Nat \X Nat : ss[1] < ss[2]}
<1>1. \E k \in T : \A m \in T : <<m, k>> \notin Less
  <2>1. IsWellFoundedOn(Less, Nat)
    BY NatLessThanWellFounded DEF OpToRel
  <2> HIDE DEF Less
  <2> QED
    BY <2>1, WFMin
<1>2. PICK k \in T : \A m \in T : <<m, k>> \notin Less
  BY <1>1
<1>3. ASSUME NEW m \in T PROVE k <= m
  <2>1. m \in Nat /\ k \in Nat /\ <<m, k>> \notin Less
    BY <1>2
  <2>2. <<m, k>>[1] = m /\ <<m, k>>[2] = k
    OBVIOUS
  <2>3. ~(m < k)
    BY <2>1, <2>2
  <2> QED
    BY <2>1, <2>3
<1> QED
  BY <1>2, <1>3

LEMMA MinFacts ==
    ASSUME NEW T, T \subseteq Nat, T # {}
    PROVE  Min(T) \in T /\ \A m \in T : Min(T) <= m
BY LeastExists DEF Min

LEMMA ListFacts ==
    ASSUME NEW S, NEW s \in Seq(S)
    PROVE  /\ Len(s) \in Nat /\ DOMAIN s = 1 .. Len(s)
           /\ \A i \in DOMAIN s : s[i] \in S /\ i \in Nat /\ 1 <= i /\ i <= Len(s)
           /\ s = <<>> <=> Len(s) = 0
BY LenProperties, ElementOfSeq, EmptySeq

\* The place that set_current_profile looks for.
Place(names, name) == SelectInSeq(names, LAMBDA n : n = name)

LEMMA PositionFacts ==
    ASSUME NEW list \in Seq(Profiles), NEW name
    PROVE  /\ Position(list, name) \in 0 .. Len(list)
           /\ Position(list, name) = 0 <=> name \notin NamesIn(list)
           /\ Position(list, name) # 0 =>
                 /\ Position(list, name) \in DOMAIN list
                 /\ list[Position(list, name)].name = name
<1> DEFINE I == {i \in 1 .. Len(list) : list[i].name = name}
<1>1. Len(list) \in Nat /\ DOMAIN list = 1 .. Len(list)
  BY ListFacts
<1>2. Position(list, name) = IF I # {} THEN Min(I) ELSE 0
  BY DEF Position, SelectInSeq
<1>3. I \subseteq Nat /\ (I = {} <=> name \notin NamesIn(list))
  BY <1>1 DEF NamesIn
<1>4. I # {} => Min(I) \in I
  BY <1>3, MinFacts
<1> QED
  BY <1>1, <1>2, <1>3, <1>4

\* In a list without duplicates the position is that of the only profile.
LEMMA PositionOf ==
    ASSUME NEW list \in Seq(Profiles), Distinct(list), NEW i \in DOMAIN list
    PROVE  Position(list, list[i].name) = i
<1>1. list[i].name \in NamesIn(list)
  BY DEF NamesIn
<1> QED
  BY <1>1, PositionFacts DEF Distinct

\* The same of a list of names.
LEMMA SelectFacts ==
    ASSUME NEW names \in Seq(Name), NEW name
    PROVE  /\ Place(names, name) \in 0 .. Len(names)
           /\ Place(names, name) = 0 <=> \A i \in DOMAIN names : names[i] # name
           /\ Place(names, name) # 0 =>
                 Place(names, name) \in DOMAIN names /\ names[Place(names, name)] = name
<1> DEFINE I == {i \in 1 .. Len(names) : names[i] = name}
<1>1. Len(names) \in Nat /\ DOMAIN names = 1 .. Len(names)
  BY ListFacts
<1>2. Place(names, name) = IF I # {} THEN Min(I) ELSE 0
  BY DEF Place, SelectInSeq
<1>3. I \subseteq Nat /\ (I = {} <=> \A i \in DOMAIN names : names[i] # name)
  BY <1>1
<1>4. I # {} => Min(I) \in I
  BY <1>3, MinFacts
<1> QED
  BY <1>1, <1>2, <1>3, <1>4

LEMMA NameSeqFacts ==
    ASSUME NEW list \in Seq(Profiles)
    PROVE  /\ NameSeq(list) \in Seq(Name) /\ Len(NameSeq(list)) = Len(list)
           /\ DOMAIN NameSeq(list) = DOMAIN list
           /\ \A i \in DOMAIN list : NameSeq(list)[i] = list[i].name /\ list[i].name \in Name
           /\ NamesIn(list) \subseteq Name
<1>1. /\ Len(list) \in Nat /\ DOMAIN list = 1 .. Len(list)
      /\ \A i \in DOMAIN list : list[i] \in Profiles
  BY ListFacts
<1>2. \A i \in DOMAIN list : list[i].name \in Name
  BY <1>1 DEF Profiles, Name
<1> DEFINE n == Len(list)
           e(i) == list[i].name
<1>3. NameSeq(list) = [i \in 1 .. n |-> e(i)]
  BY <1>1 DEF NameSeq
<1>4. [i \in 1 .. n |-> e(i)] \in [1 .. n -> Name]
  BY <1>1, <1>2
<1> HIDE DEF n
<1>5. NameSeq(list) \in Seq(Name)
  BY <1>1, <1>3, <1>4, SeqDef DEF n
<1>6. DOMAIN NameSeq(list) = 1 .. n /\ Len(NameSeq(list)) = n
  BY <1>1, <1>3, <1>5, LenProperties DEF n
<1> QED
  BY <1>1, <1>2, <1>3, <1>5, <1>6 DEF n, NamesIn

\* A profile is replaced by one of the same name.
LEMMA ReplaceFacts ==
    ASSUME NEW list \in Seq(Profiles), NEW i \in DOMAIN list, NEW p \in Profiles,
           NEW new, new = [list EXCEPT ![i] = p]
    PROVE  /\ new \in Seq(Profiles) /\ Len(new) = Len(list) /\ DOMAIN new = DOMAIN list
           /\ new[i] = p /\ \A j \in DOMAIN list : j # i => new[j] = list[j]
           /\ p.name = list[i].name =>
                 /\ NamesIn(new) = NamesIn(list) /\ NameSeq(new) = NameSeq(list)
                 /\ Distinct(list) => Distinct(new)
<1>1. DOMAIN list = 1 .. Len(list) /\ Len(list) \in Nat
  BY ListFacts
<1>2. /\ new \in Seq(Profiles) /\ Len(new) = Len(list)
      /\ \A j \in 1 .. Len(list) : new[j] = IF j = i THEN p ELSE list[j]
  BY <1>1, ExceptSeq
<1>3. DOMAIN new = DOMAIN list
  BY <1>1, <1>2, ListFacts
<1>4. ASSUME p.name = list[i].name
      PROVE  \A j \in DOMAIN list : new[j].name = list[j].name
  BY <1>1, <1>2, <1>4
<1>5. ASSUME p.name = list[i].name
      PROVE  /\ NamesIn(new) = NamesIn(list) /\ NameSeq(new) = NameSeq(list)
             /\ Distinct(list) => Distinct(new)
  BY <1>3, <1>4, <1>5 DEF NamesIn, NameSeq, Distinct
<1> QED
  BY <1>1, <1>2, <1>3, <1>5

\* A profile with a new name is added.
LEMMA AddFacts ==
    ASSUME NEW list \in Seq(Profiles), NEW p \in Profiles, p.name \notin NamesIn(list),
           NEW new, new = Append(list, p)
    PROVE  /\ new \in Seq(Profiles) /\ Len(new) = Len(list) + 1
           /\ NamesIn(new) = NamesIn(list) \cup {p.name}
           /\ DOMAIN list \subseteq DOMAIN new
           /\ \A j \in DOMAIN list : new[j] = list[j]
           /\ Distinct(list) => Distinct(new)
<1>1. DOMAIN list = 1 .. Len(list) /\ Len(list) \in Nat
  BY ListFacts
<1>2. /\ new \in Seq(Profiles) /\ Len(new) = Len(list) + 1
      /\ \A j \in 1 .. Len(list) : new[j] = list[j]
      /\ new[Len(list) + 1] = p
  BY AppendProperties
<1>3. DOMAIN new = 1 .. Len(list) + 1
  BY <1>2, ListFacts
<1>4. \A j \in DOMAIN new : j \in DOMAIN list \/ j = Len(list) + 1
  BY <1>1, <1>3
<1>5. DOMAIN list \subseteq DOMAIN new /\ Len(list) + 1 \in DOMAIN new
  BY <1>1, <1>3
<1> DEFINE n == Len(list) + 1
<1>6. /\ \A j \in DOMAIN list : new[j] = list[j] /\ j \in DOMAIN new
      /\ new[n] = p /\ n \in DOMAIN new
      /\ \A j \in DOMAIN new : j \in DOMAIN list \/ j = n
  BY <1>1, <1>2, <1>4, <1>5
<1> HIDE DEF n
<1>7. NamesIn(new) = NamesIn(list) \cup {p.name}
  BY <1>6 DEF NamesIn
<1>8. ASSUME Distinct(list), NEW j \in DOMAIN new, NEW k \in DOMAIN new,
             new[j].name = new[k].name
      PROVE  j = k
  <2>1. \A m \in DOMAIN list : list[m].name # p.name
    BY DEF NamesIn
  <2>2. CASE j \in DOMAIN list /\ k \in DOMAIN list
    BY <1>6, <1>8, <2>2 DEF Distinct
  <2>3. CASE j = n \/ k = n
    BY <1>6, <1>8, <2>1, <2>3
  <2> QED
    BY <1>6, <2>2, <2>3
<1> QED
  BY <1>1, <1>2, <1>5, <1>7, <1>8 DEF Distinct

\* A profile is removed.
LEMMA RemoveFacts ==
    ASSUME NEW list \in Seq(Profiles), NEW i \in DOMAIN list, NEW new, new = RemoveAt(list, i)
    PROVE  /\ new \in Seq(Profiles) /\ Len(new) = Len(list) - 1
           /\ \A j \in DOMAIN new : \E k \in DOMAIN list :
                 k # i /\ new[j] = list[k] /\ k = IF j < i THEN j ELSE j + 1
           /\ \A k \in DOMAIN list : k # i => \E j \in DOMAIN new : new[j] = list[k]
<1> DEFINE n == Len(list)
           a == SubSeq(list, 1, i - 1)
           b == SubSeq(list, i + 1, n)
<1>1. DOMAIN list = 1 .. n /\ n \in Nat /\ \A j \in 1 .. n : list[j] \in Profiles
  BY ListFacts
<1>2. i \in Nat /\ 1 <= i /\ i <= n
  BY <1>1
<1>3. /\ a \in Seq(Profiles) /\ Len(a) = i - 1 /\ \A j \in 1 .. i - 1 : a[j] = list[j]
  <2>1. i - 1 \in Int /\ 1 \in Int /\ \A j \in 1 .. i - 1 : list[j] \in Profiles
    BY <1>1, <1>2
  <2>2. /\ a \in Seq(Profiles)
        /\ Len(a) = IF 1 <= i - 1 THEN (i - 1) - 1 + 1 ELSE 0
        /\ \A j \in 1 .. (i - 1) - 1 + 1 : a[j] = list[1 + j - 1]
    BY <2>1, SubSeqProperties
  <2>3. \A j \in 1 .. i - 1 : j \in 1 .. (i - 1) - 1 + 1 /\ 1 + j - 1 = j
    BY <1>2
  <2> HIDE DEF a
  <2> QED
    BY <1>2, <2>2, <2>3
<1>4. /\ b \in Seq(Profiles) /\ Len(b) = n - i /\ \A j \in 1 .. n - i : b[j] = list[i + j]
  <2>1. i + 1 \in Int /\ n \in Int /\ \A j \in i + 1 .. n : list[j] \in Profiles
    BY <1>1, <1>2
  <2>2. /\ b \in Seq(Profiles)
        /\ Len(b) = IF i + 1 <= n THEN n - (i + 1) + 1 ELSE 0
        /\ \A j \in 1 .. n - (i + 1) + 1 : b[j] = list[(i + 1) + j - 1]
    BY <2>1, SubSeqProperties
  <2>3. \A j \in 1 .. n - i : j \in 1 .. n - (i + 1) + 1 /\ (i + 1) + j - 1 = i + j
    BY <1>1, <1>2
  <2> HIDE DEF b
  <2> QED
    BY <1>1, <1>2, <2>2, <2>3
<1>5. new = a \o b
  BY DEF RemoveAt
<1> HIDE DEF a, b, n
<1>6. /\ new \in Seq(Profiles) /\ Len(new) = (i - 1) + (n - i)
      /\ \A j \in 1 .. (i - 1) + (n - i) : new[j] = IF j <= i - 1 THEN a[j] ELSE b[j - (i - 1)]
  BY <1>3, <1>4, <1>5, ConcatProperties
<1>7. (i - 1) + (n - i) = n - 1
  BY <1>1, <1>2
<1>8. DOMAIN new = 1 .. n - 1
  BY <1>6, <1>7, ListFacts
<1>9. \A j \in 1 .. n - 1 : new[j] = IF j < i THEN list[j] ELSE list[j + 1]
  <2> TAKE j \in 1 .. n - 1
  <2>1. CASE j < i
    <3>1. j <= i - 1 /\ j \in 1 .. i - 1
      BY <1>1, <1>2, <2>1
    <3> QED
      BY <1>3, <1>6, <1>7, <2>1, <3>1
  <2>2. CASE ~(j < i)
    <3>1. ~(j <= i - 1) /\ j - (i - 1) \in 1 .. n - i /\ i + (j - (i - 1)) = j + 1
      BY <1>1, <1>2, <2>2
    <3> QED
      BY <1>4, <1>6, <1>7, <2>2, <3>1
  <2> QED
    BY <2>1, <2>2
<1>10. ASSUME NEW j \in DOMAIN new
       PROVE  \E k \in DOMAIN list : k # i /\ new[j] = list[k] /\ k = IF j < i THEN j ELSE j + 1
  <2> DEFINE k == IF j < i THEN j ELSE j + 1
  <2>1. k \in DOMAIN list /\ k # i
    BY <1>1, <1>2, <1>8
  <2> QED
    BY <1>8, <1>9, <2>1
<1>11. ASSUME NEW k \in DOMAIN list, k # i
       PROVE  \E j \in DOMAIN new : new[j] = list[k]
  <2>1. CASE k < i
    <3>1. k \in 1 .. n - 1
      BY <1>1, <1>2, <2>1
    <3> QED
      BY <1>8, <1>9, <2>1, <3>1
  <2>2. CASE k > i
    <3>1. k - 1 \in 1 .. n - 1 /\ ~(k - 1 < i) /\ (k - 1) + 1 = k
      BY <1>1, <1>2, <2>2
    <3> QED
      BY <1>8, <1>9, <3>1
  <2> QED
    BY <1>1, <1>2, <1>11, <2>1, <2>2
<1> QED
  BY <1>6, <1>7, <1>10, <1>11 DEF n

\* From a list without duplicates the name goes with the profile.
LEMMA RemoveNames ==
    ASSUME NEW list \in Seq(Profiles), Distinct(list), NEW i \in DOMAIN list,
           NEW new, new = RemoveAt(list, i)
    PROVE  NamesIn(new) = NamesIn(list) \ {list[i].name} /\ Distinct(new)
<1>1. /\ \A j \in DOMAIN new : \E k \in DOMAIN list :
            k # i /\ new[j] = list[k] /\ k = IF j < i THEN j ELSE j + 1
      /\ \A k \in DOMAIN list : k # i => \E j \in DOMAIN new : new[j] = list[k]
      /\ new \in Seq(Profiles)
  BY RemoveFacts
<1>2. NamesIn(new) = NamesIn(list) \ {list[i].name}
  <2>1. \A k \in DOMAIN list : k # i => list[k].name # list[i].name
    BY DEF Distinct
  <2>2. \A j \in DOMAIN new : \E k \in DOMAIN list : k # i /\ new[j].name = list[k].name
    BY <1>1
  <2>3. \A k \in DOMAIN list : k # i => \E j \in DOMAIN new : new[j].name = list[k].name
    BY <1>1
  <2>4. NamesIn(new) \subseteq NamesIn(list) \ {list[i].name}
    BY <2>1, <2>2 DEF NamesIn
  <2>5. NamesIn(list) \ {list[i].name} \subseteq NamesIn(new)
    BY <2>3 DEF NamesIn
  <2> QED
    BY <2>4, <2>5
<1>3. ASSUME NEW j \in DOMAIN new, NEW k \in DOMAIN new, new[j].name = new[k].name
      PROVE  j = k
  <2>1. PICK m \in DOMAIN list : new[j] = list[m] /\ m = IF j < i THEN j ELSE j + 1
    BY <1>1
  <2>2. PICK o \in DOMAIN list : new[k] = list[o] /\ o = IF k < i THEN k ELSE k + 1
    BY <1>1
  <2>3. m = o
    BY <1>3, <2>1, <2>2 DEF Distinct
  <2>4. j \in Nat /\ k \in Nat /\ i \in Nat
    BY <1>1, ListFacts
  <2> QED
    BY <2>1, <2>2, <2>3, <2>4
<1> QED
  BY <1>2, <1>3 DEF Distinct

-----------------------------------------------------------------------------
(* Where the application starts *)

LEMMA DefaultFacts ==
    ASSUME GuiAppConstants
    PROVE  /\ DefaultConfig \in Bounded /\ WellFormed(DefaultConfig)
           /\ NamesIn(DefaultConfig.profiles) = {Standard}
           /\ DefaultConfig.current = Standard /\ Standard \in Name
<1> DEFINE p == Profile(Standard, "default")
<1>1. p \in Profiles /\ p.name = Standard /\ Standard \in Name
  BY DEF Profile, Profiles, Looks, Name
<1> HIDE DEF p
<1>2. <<p>> \in Seq(Profiles) /\ DOMAIN <<p>> = {1} /\ Len(<<p>>) = 1 /\ <<p>>[1] = p
  BY <1>1
<1>3. DefaultConfig = [profiles |-> <<p>>, current |-> Standard]
  BY DEF DefaultConfig, p
<1>4. DefaultConfig.profiles = <<p>> /\ DefaultConfig.current = Standard
  BY <1>3
<1>5. DefaultConfig \in Configs
  BY <1>1, <1>2, <1>3 DEF Configs, Name
<1>6. DefaultConfig \in Bounded
  <2>1. MaxProfiles \in Nat \ {0}
    BY DEF GuiAppConstants
  <2>2. Len(DefaultConfig.profiles) <= MaxProfiles
    BY <1>2, <1>4, <2>1
  <2> QED
    BY <1>5, <2>2 DEF Bounded
<1>7. NamesIn(DefaultConfig.profiles) = {Standard}
  BY <1>1, <1>2, <1>4 DEF NamesIn
<1>8. Distinct(DefaultConfig.profiles)
  BY <1>2, <1>4 DEF Distinct
<1> QED
  BY <1>1, <1>4, <1>6, <1>7, <1>8 DEF WellFormed

\* A finite set as a sequence: each element once.
LEMMA SetToSeqFacts ==
    ASSUME NEW S, IsFiniteSet(S)
    PROVE  /\ SetToSeq(S) \in Seq(S) /\ Len(SetToSeq(S)) = Cardinality(S)
           /\ \A i, j \in DOMAIN SetToSeq(S) : SetToSeq(S)[i] = SetToSeq(S)[j] => i = j
           /\ \A x \in S : \E i \in DOMAIN SetToSeq(S) : SetToSeq(S)[i] = x
<1> DEFINE m == Cardinality(S)
           q == SetToSeq(S)
<1>1. m \in Nat /\ ExistsBijection(1 .. m, S)
  BY FS_CardinalityType
<1>2. \E f \in [1 .. m -> S] : IsInjective(f)
  BY <1>1 DEF ExistsBijection, Bijection, Injection
<1>3. q \in [1 .. m -> S] /\ IsInjective(q)
  BY <1>2 DEF SetToSeq
<1>4. q \in Injection(1 .. m, S)
  BY <1>3 DEF Injection
<1>5. Cardinality(1 .. m) = m /\ IsFiniteSet(1 .. m)
  <2>1. 1 \in Int /\ m \in Int
    BY <1>1
  <2>2. Cardinality(1 .. m) = IF 1 > m THEN 0 ELSE m - 1 + 1
    BY <2>1, FS_Interval
  <2> HIDE DEF m
  <2>3. Cardinality(1 .. m) = m
    BY <1>1, <2>2
  <2> QED
    BY <2>1, <2>3, FS_Interval
<1> HIDE DEF q
<1>6. q \in Surjection(1 .. m, S)
  BY <1>4, <1>5, FS_Injection
<1>7. \A x \in S : \E i \in 1 .. m : q[i] = x
  BY <1>6 DEF Surjection
<1> HIDE DEF m
<1>8. q \in Seq(S)
  BY <1>1, <1>3, SeqDef
<1>9. DOMAIN q = 1 .. m /\ Len(q) = m
  BY <1>1, <1>3, <1>8, LenProperties
<1> QED
  BY <1>3, <1>7, <1>8, <1>9 DEF q, m, IsInjective

LEMMA SavedFacts ==
    ASSUME GuiAppConstants, NEW own, own \subseteq Names, Cardinality(own) < MaxProfiles,
           NEW saved,
           saved = [profiles |-> <<Profile(Standard, "default")>> \o
                        SetToSeq({Profile(n, "default") : n \in own}),
                    current |-> Standard]
    PROVE  /\ saved \in Bounded /\ WellFormed(saved)
           /\ NamesIn(saved.profiles) = own \cup {Standard}
<1> DEFINE p == Profile(Standard, "default")
           S == {Profile(n, "default") : n \in own}
           q == SetToSeq(S)
           list == <<p>> \o q
<1>1. p \in Profiles /\ p.name = Standard
  BY DEF Profile, Profiles, Looks
<1>2. S \subseteq Profiles /\ \A x \in S : x.name \in own
  BY DEF Profile, Profiles, Looks
<1>3. \A x, y \in S : x.name = y.name => x = y
  BY DEF Profile
<1>4. \A n \in own : \E x \in S : x.name = n
  <2>1. \A n \in own : Profile(n, "default") \in S /\ Profile(n, "default").name = n
    BY DEF Profile
  <2> QED
    BY <2>1
<1>5. IsFiniteSet(own)
  BY FS_Subset DEF GuiAppConstants
<1>6. IsFiniteSet(S) /\ Cardinality(S) = Cardinality(own)
  <2> DEFINE f == [n \in own |-> Profile(n, "default")]
  <2>1. f \in [own -> S]
    OBVIOUS
  <2>2. \A a, b \in own : f[a] = f[b] => a = b
    BY DEF Profile
  <2>3. \A x \in S : \E n \in own : f[n] = x
    OBVIOUS
  <2> HIDE DEF f, S
  <2>4. f \in Injection(own, S)
    BY <2>1, <2>2 DEF Injection, IsInjective
  <2>5. f \in Surjection(own, S)
    BY <2>1, <2>3 DEF Surjection
  <2>6. f \in Bijection(own, S)
    BY <2>4, <2>5 DEF Bijection
  <2> QED
    BY <1>5, <2>6, FS_Bijection DEF ExistsBijection
<1>7. saved = [profiles |-> list, current |-> Standard]
  OBVIOUS
<1> HIDE DEF p, S
<1>8. /\ q \in Seq(S) /\ Len(q) = Cardinality(S)
      /\ \A i, j \in DOMAIN q : q[i] = q[j] => i = j
      /\ \A x \in S : \E i \in DOMAIN q : q[i] = x
  BY <1>6, SetToSeqFacts
<1> HIDE DEF q
<1>9. /\ q \in Seq(Profiles) /\ DOMAIN q = 1 .. Len(q) /\ Len(q) \in Nat
      /\ \A i \in DOMAIN q : q[i] \in S
  BY <1>2, <1>8, SeqMonotonic, ListFacts
<1>10. <<p>> \in Seq(Profiles) /\ Len(<<p>>) = 1 /\ <<p>>[1] = p
  BY <1>1
<1>11. /\ list \in Seq(Profiles) /\ Len(list) = 1 + Len(q)
       /\ \A i \in 1 .. 1 + Len(q) : list[i] = IF i <= 1 THEN <<p>>[i] ELSE q[i - 1]
  BY <1>9, <1>10, ConcatProperties
<1> HIDE DEF list
<1>12. DOMAIN list = 1 .. 1 + Len(q)
  BY <1>11, ListFacts
<1>13. list[1] = p /\ 1 \in DOMAIN list
  BY <1>9, <1>10, <1>11, <1>12
<1>14. \A i \in DOMAIN list : i = 1 \/ (i - 1 \in DOMAIN q /\ list[i] = q[i - 1])
  BY <1>9, <1>11, <1>12
<1>15. \A i \in DOMAIN q : \E j \in DOMAIN list : list[j] = q[i]
  <2> TAKE i \in DOMAIN q
  <2>1. i + 1 \in DOMAIN list /\ ~(i + 1 <= 1) /\ (i + 1) - 1 = i
    BY <1>9, <1>12
  <2> QED
    BY <1>11, <1>12, <2>1
<1>16. NamesIn(list) = own \cup {Standard}
  <2>1. NamesIn(list) \subseteq own \cup {Standard}
    BY <1>1, <1>2, <1>9, <1>13, <1>14 DEF NamesIn
  <2>2. Standard \in NamesIn(list)
    BY <1>1, <1>13 DEF NamesIn
  <2>3. own \subseteq NamesIn(list)
    <3> SUFFICES ASSUME NEW n \in own PROVE n \in NamesIn(list)
      OBVIOUS
    <3>1. PICK x \in S : x.name = n
      BY <1>4
    <3>2. PICK i \in DOMAIN q : q[i] = x
      BY <1>8
    <3> QED
      BY <1>15, <3>1, <3>2 DEF NamesIn
  <2> QED
    BY <2>1, <2>2, <2>3
<1>17. Distinct(list)
  <2> SUFFICES ASSUME NEW i \in DOMAIN list, NEW j \in DOMAIN list, list[i].name = list[j].name
               PROVE  i = j
    BY DEF Distinct
  <2>1. \A k \in DOMAIN q : q[k].name # Standard
    BY <1>2, <1>9 DEF GuiAppConstants
  <2>2. CASE i = 1 \/ j = 1
    BY <1>1, <1>13, <1>14, <2>1, <2>2
  <2>3. CASE i # 1 /\ j # 1
    <3>1. /\ i - 1 \in DOMAIN q /\ j - 1 \in DOMAIN q
          /\ list[i] = q[i - 1] /\ list[j] = q[j - 1]
      BY <1>14, <2>3
    <3>2. q[i - 1] = q[j - 1]
      BY <1>3, <1>9, <3>1
    <3>3. i - 1 = j - 1
      BY <1>8, <3>1, <3>2
    <3> QED
      BY <1>9, <1>12, <3>3
  <2> QED
    BY <2>2, <2>3
<1>18. Len(list) <= MaxProfiles
  <2>1. Cardinality(own) \in Nat /\ Len(q) = Cardinality(own) /\ Cardinality(own) < MaxProfiles
        /\ MaxProfiles \in Nat
    BY <1>5, <1>6, <1>8, FS_CardinalityType DEF GuiAppConstants
  <2> QED
    BY <1>11, <2>1
<1>19. saved.profiles = list /\ saved.current = Standard
  BY ONLY <1>7
<1>20. saved \in Configs
  BY ONLY <1>7, <1>11 DEF Configs
<1> QED
  BY <1>16, <1>17, <1>18, <1>19, <1>20 DEF Bounded, WellFormed

-----------------------------------------------------------------------------
(* What the actions do *)

LEMMA ConfigFacts ==
    ASSUME NEW conf \in Bounded
    PROVE  /\ conf.profiles \in Seq(Profiles) /\ conf.current \in Name
           /\ Len(conf.profiles) \in Nat /\ Len(conf.profiles) <= MaxProfiles
           /\ DOMAIN conf.profiles = 1 .. Len(conf.profiles)
           /\ \A i \in DOMAIN conf.profiles :
                 conf.profiles[i] \in Profiles /\ conf.profiles[i].name \in Name
           /\ NamesIn(conf.profiles) \subseteq Name
<1>1. conf.profiles \in Seq(Profiles) /\ conf.current \in Name /\ Len(conf.profiles) <= MaxProfiles
  BY DEF Bounded, Configs, Name
<1> QED
  BY <1>1, ListFacts, NameSeqFacts

\* The list of profiles is replaced.
LEMMA ListEdit ==
    ASSUME NEW conf \in Bounded, NEW list \in Seq(Profiles), Len(list) <= MaxProfiles
    PROVE  /\ [conf EXCEPT !.profiles = list] \in Bounded
           /\ [conf EXCEPT !.profiles = list].profiles = list
           /\ [conf EXCEPT !.profiles = list].current = conf.current
<1>1. conf \in [profiles : Seq(Profiles), current : Name]
  BY DEF Bounded, Configs, Name
<1>2. /\ [conf EXCEPT !.profiles = list] \in [profiles : Seq(Profiles), current : Name]
      /\ [conf EXCEPT !.profiles = list].profiles = list
      /\ [conf EXCEPT !.profiles = list].current = conf.current
  BY <1>1
<1> QED
  BY <1>2 DEF Bounded, Configs, Name

\* The current profile is replaced.
LEMMA CurrentEdit ==
    ASSUME NEW conf \in Bounded, NEW name \in Name
    PROVE  /\ [conf EXCEPT !.current = name] \in Bounded
           /\ [conf EXCEPT !.current = name].profiles = conf.profiles
           /\ [conf EXCEPT !.current = name].current = name
<1>1. conf \in [profiles : Seq(Profiles), current : Name] /\ Len(conf.profiles) <= MaxProfiles
  BY DEF Bounded, Configs, Name
<1>2. /\ [conf EXCEPT !.current = name] \in [profiles : Seq(Profiles), current : Name]
      /\ [conf EXCEPT !.current = name].profiles = conf.profiles
      /\ [conf EXCEPT !.current = name].current = name
  BY <1>1
<1> QED
  BY <1>1, <1>2 DEF Bounded, Configs, Name

LEMMA TypesFacts ==
    ASSUME Types
    PROVE  /\ config.profiles \in Seq(Profiles) /\ config.current \in Name
           /\ tray.names \in Seq(Name) /\ tray.selected \in 1 .. MaxProfiles
           /\ tray.events \in Seq(1 .. MaxProfiles)
           /\ Len(tray.names) <= MaxProfiles /\ Len(tray.events) <= MaxClicks
           /\ MaxProfiles \in Nat \ {0} /\ MaxClicks \in Nat
           /\ ghost.owned \subseteq Names /\ ghost.durable \subseteq Names
BY ConfigFacts DEF Types, TrayTypes, GhostTypes, GuiAppConstants

\* Everything that a page leaves alone, and what it writes.
LEMMA PageFacts ==
    ASSUME Types, NEW writes \in {<<>>, <<"settings">>, <<"profiles">>}, Page(writes)
    PROVE  /\ pc = "draw" /\ pc' \in {"frame", "write"}
           /\ todo = <<>> /\ todo' = writes /\ todo' \in Writes /\ (pc' = "write" <=> todo' # <<>>)
           /\ UNCHANGED <<files, tray, last>>
<1>1. <<"settings">> # <<>> /\ <<"profiles">> # <<>>
  OBVIOUS
<1> QED
  BY <1>1 DEF Page, Writes, Types

LEMMA SwitchFacts ==
    ASSUME Types, NEW i \in DOMAIN config.profiles, SwitchProfile(i)
    PROVE  /\ Page(<<"profiles">>)
           /\ config' \in Bounded /\ config'.profiles = config.profiles
           /\ config'.current = config.profiles[i].name /\ config'.current # config.current
           /\ applied' = config.profiles[i]
           /\ ghost' = [ghost EXCEPT !.crossed = ghost.crossed \/ ghost.switched]
<1>1. config \in Bounded /\ config.profiles[i].name \in Name
  BY ConfigFacts DEF Types
<1>2. config' = [config EXCEPT !.current = config.profiles[i].name]
  BY DEF SwitchProfile
<1>3. /\ config' \in Bounded /\ config'.profiles = config.profiles
      /\ config'.current = config.profiles[i].name
  BY <1>1, <1>2, CurrentEdit
<1> QED
  BY <1>3 DEF SwitchProfile, Cross

LEMMA ResetFacts ==
    ASSUME Types, NEW i \in DOMAIN config.profiles, ResetProfile(i)
    PROVE  LET p == Profile(Standard, "default")
           IN  /\ Page(<<"profiles">>)
               /\ p \in Profiles /\ p.name = Standard /\ config.profiles[i].name = Standard
               /\ config' \in Bounded /\ config'.profiles = [config.profiles EXCEPT ![i] = p]
               /\ config'.profiles[i] = p
               /\ config'.current = config.current
               /\ applied' = IF config.current = Standard THEN p ELSE applied
               /\ ghost' = ghost
<1> DEFINE p == Profile(Standard, "default")
           list == [config.profiles EXCEPT ![i] = p]
<1>1. p \in Profiles /\ p.name = Standard
  BY DEF Profile, Profiles, Looks
<1>2. config' = [config EXCEPT !.profiles = list] /\ config \in Bounded
  BY DEF ResetProfile, Types
<1> HIDE DEF p
<1>3. list \in Seq(Profiles) /\ Len(list) = Len(config.profiles) /\ list[i] = p
  BY <1>1, <1>2, ConfigFacts, ReplaceFacts
<1> HIDE DEF list
<1>4. config' \in Bounded /\ config'.profiles = list /\ config'.current = config.current
  BY <1>2, <1>3, ConfigFacts, ListEdit
<1>5. applied' = IF config.current = Standard THEN p ELSE applied
  BY <1>3, <1>4 DEF ResetProfile
<1>6. Page(<<"profiles">>) /\ ghost' = ghost /\ config.profiles[i].name = Standard
  BY DEF ResetProfile
<1> QED
  BY <1>1, <1>3, <1>4, <1>5, <1>6 DEF p, list

LEMMA DeleteFacts ==
    ASSUME Types, NEW i \in DOMAIN config.profiles, DeleteProfile(i)
    PROVE  LET name == config.profiles[i].name
               k == Position(config.profiles, Standard)
           IN  /\ Page(<<"profiles">>)
               /\ name # Standard
               /\ config' \in Bounded /\ config'.profiles = RemoveAt(config.profiles, i)
               /\ config'.current = IF name = config.current THEN Standard ELSE config.current
               /\ applied' = IF name = config.current /\ k # 0 THEN config.profiles[k] ELSE applied
               /\ ghost' = [ghost EXCEPT !.owned = ghost.owned \ {name},
                                         !.crossed = ghost.crossed \/ ghost.switched]
<1> DEFINE name == config.profiles[i].name
           list == RemoveAt(config.profiles, i)
           current == IF name = config.current THEN Standard ELSE config.current
<1>1. config' = [config EXCEPT !.current = current, !.profiles = list] /\ config \in Bounded
  BY DEF DeleteProfile, Types, Fallback
<1>2. list \in Seq(Profiles) /\ Len(list) = Len(config.profiles) - 1
  BY <1>1, ConfigFacts, RemoveFacts
<1>3. current \in Name
  BY <1>1, ConfigFacts DEF Name
<1>4. Len(list) <= MaxProfiles
  <2>1. Len(config.profiles) \in Nat /\ Len(config.profiles) <= MaxProfiles /\ MaxProfiles \in Nat
    BY <1>1, ConfigFacts, TypesFacts
  <2> HIDE DEF list
  <2> QED
    BY <1>2, <2>1
<1> HIDE DEF list, current
<1>5. config' \in Bounded /\ config'.profiles = list /\ config'.current = current
  <2>1. config \in [profiles : Seq(Profiles), current : Name]
    BY <1>1 DEF Bounded, Configs, Name
  <2>2. /\ config' \in [profiles : Seq(Profiles), current : Name]
        /\ config'.profiles = list /\ config'.current = current
    BY <1>1, <1>2, <1>3, <2>1
  <2> QED
    BY <1>4, <2>2 DEF Bounded, Configs, Name
<1>6. /\ Page(<<"profiles">>) /\ name # Standard
      /\ applied' = IF name = config.current /\ Position(config.profiles, Standard) # 0
                      THEN config.profiles[Position(config.profiles, Standard)] ELSE applied
      /\ ghost' = [ghost EXCEPT !.owned = ghost.owned \ {name},
                                !.crossed = ghost.crossed \/ ghost.switched]
  BY DEF DeleteProfile
<1> QED
  BY <1>5, <1>6 DEF list, current

LEMMA CreateFacts ==
    ASSUME Types, NEW name \in Names, CreateProfile(name)
    PROVE  /\ Page(<<"profiles">>)
           /\ name \notin NamesIn(config.profiles)
           /\ config' \in Bounded /\ config'.current = config.current
           /\ \E p \in Profiles : p.name = name /\ config'.profiles = Append(config.profiles, p)
           /\ applied' = applied
           /\ ghost' = [ghost EXCEPT !.owned = ghost.owned \cup {name}]
<1> DEFINE look == IF CurrentIndex = 0 THEN "default" ELSE config.profiles[CurrentIndex].look
           p == Profile(name, look)
           list == Append(config.profiles, p)
<1>1. config' = [config EXCEPT !.profiles = list] /\ config \in Bounded
  BY DEF CreateProfile, Types
<1>2. config.profiles \in Seq(Profiles) /\ config.current \in Name
  BY <1>1, ConfigFacts
<1>3. look \in Looks
  <2>1. CurrentIndex # 0 => config.profiles[CurrentIndex] \in Profiles
    BY <1>1, <1>2, ConfigFacts, PositionFacts DEF CurrentIndex
  <2> QED
    BY <2>1 DEF Profiles, Looks
<1> HIDE DEF look
<1>4. p \in Profiles /\ p.name = name
  BY <1>3 DEF Profile, Profiles
<1> HIDE DEF p
<1>5. list \in Seq(Profiles) /\ Len(list) = Len(config.profiles) + 1
  BY <1>2, <1>4, AppendProperties
<1>6. Len(list) <= MaxProfiles
  <2>1. Len(config.profiles) < MaxProfiles /\ Len(config.profiles) \in Nat /\ MaxProfiles \in Nat
    BY <1>1, ConfigFacts, TypesFacts DEF CreateProfile
  <2> HIDE DEF list
  <2> QED
    BY <1>5, <2>1
<1>7. config' \in Bounded /\ config'.profiles = list /\ config'.current = config.current
  BY <1>1, <1>2, <1>5, <1>6, ListEdit
<1>8. /\ Page(<<"profiles">>) /\ name \notin NamesIn(config.profiles) /\ applied' = applied
      /\ ghost' = [ghost EXCEPT !.owned = ghost.owned \cup {name}]
  BY DEF CreateProfile
<1> QED
  BY <1>4, <1>7, <1>8

\* The profile that the tuning page works on.
LEMMA CurrentFacts ==
    ASSUME Types, CurrentIndex # 0
    PROVE  /\ CurrentIndex \in DOMAIN config.profiles
           /\ config.profiles[CurrentIndex].name = config.current
           /\ config.profiles[CurrentIndex] \in Profiles
BY ConfigFacts, PositionFacts DEF Types, CurrentIndex

LEMMA EditFacts ==
    ASSUME Types, EditProfile
    PROVE  /\ Page(<<>>) /\ CurrentIndex # 0
           /\ config' \in Bounded /\ config'.current = config.current
           /\ \E p \in Profiles :
                 /\ p.name = config.current
                 /\ config'.profiles = [config.profiles EXCEPT ![CurrentIndex] = p]
           /\ applied' = applied
           /\ ghost' = [ghost EXCEPT !.dirty = TRUE]
<1> DEFINE old == config.profiles[CurrentIndex]
           p == [old EXCEPT !.look = "edited"]
           list == [config.profiles EXCEPT ![CurrentIndex] = p]
<1>1. CurrentIndex # 0 /\ config \in Bounded
  BY DEF EditProfile, Types
<1>2. CurrentIndex \in DOMAIN config.profiles /\ old.name = config.current /\ old \in Profiles
  BY <1>1, CurrentFacts
<1>3. p \in Profiles /\ p.name = config.current
  BY <1>2 DEF Profiles, Looks
<1>4. config' = [config EXCEPT !.profiles = list]
  BY DEF EditProfile
<1> HIDE DEF p
<1>5. list \in Seq(Profiles) /\ Len(list) = Len(config.profiles)
  BY <1>1, <1>2, <1>3, ConfigFacts, ReplaceFacts
<1>6. config' \in Bounded /\ config'.profiles = list /\ config'.current = config.current
  BY <1>1, <1>4, <1>5, ConfigFacts, ListEdit
<1>7. Page(<<>>) /\ applied' = applied /\ ghost' = [ghost EXCEPT !.dirty = TRUE]
  BY DEF EditProfile
<1> QED
  BY <1>1, <1>3, <1>6, <1>7

LEMMA ResetTuningFacts ==
    ASSUME Types, ResetTuning
    PROVE  /\ Page(<<>>) /\ CurrentIndex # 0
           /\ config' \in Bounded /\ config'.current = config.current
           /\ \E p \in Profiles :
                 /\ p.name = Standard
                 /\ config'.profiles = [config.profiles EXCEPT ![CurrentIndex] = p]
           /\ applied' = applied
           /\ ghost' = [ghost EXCEPT !.dirty = TRUE,
                                     !.renamed = ghost.renamed \/ config.current # Standard]
<1> DEFINE p == Profile(Standard, "default")
           list == [config.profiles EXCEPT ![CurrentIndex] = p]
<1>1. CurrentIndex # 0 /\ config \in Bounded
  BY DEF ResetTuning, Types
<1>2. CurrentIndex \in DOMAIN config.profiles
  BY <1>1, CurrentFacts
<1>3. p \in Profiles /\ p.name = Standard
  BY DEF Profile, Profiles, Looks
<1>4. config' = [config EXCEPT !.profiles = list]
  BY DEF ResetTuning
<1> HIDE DEF p
<1>5. list \in Seq(Profiles) /\ Len(list) = Len(config.profiles)
  BY <1>1, <1>2, <1>3, ConfigFacts, ReplaceFacts
<1>6. config' \in Bounded /\ config'.profiles = list /\ config'.current = config.current
  BY <1>1, <1>4, <1>5, ConfigFacts, ListEdit
<1>7. /\ Page(<<>>) /\ applied' = applied
      /\ ghost' = [ghost EXCEPT !.dirty = TRUE,
                                !.renamed = ghost.renamed \/ config.current # Standard]
  BY DEF ResetTuning
<1> QED
  BY <1>1, <1>3, <1>6, <1>7

LEMMA SaveFacts ==
    ASSUME Types, SaveTuning
    PROVE  /\ Page(<<"profiles">>) /\ CurrentIndex # 0
           /\ config' = config /\ applied' = config.profiles[CurrentIndex] /\ applied' \in Profiles
           /\ ghost' = [ghost EXCEPT !.dirty = FALSE]
BY CurrentFacts DEF SaveTuning
\* What a start finds.
LEMMA FoundFacts ==
    ASSUME Types
    PROVE  /\ ProfilesOnDisk \in Bounded
           /\ DefaultConfig \in Bounded
           /\ \A f \in {"profiles", "legacy"} : Readable(f) => files[f] \in Bounded
<1>1. files.profiles \in Stored /\ files.legacy \in Stored
  BY DEF Types, FileTypes
<1>2. /\ Readable("profiles") => files["profiles"] \in Bounded
      /\ Readable("legacy") => files["legacy"] \in Bounded
  BY <1>1 DEF Readable, Stored
<1>3. DefaultConfig \in Bounded
  BY DefaultFacts DEF Types
<1>4. ProfilesOnDisk \in Bounded
  BY <1>2, <1>3 DEF ProfilesOnDisk
<1> QED
  BY <1>2, <1>3, <1>4

LEMMA StartFacts ==
    ASSUME Types, Start
    PROVE  /\ pc = "down" /\ pc' \in {"frame", "write"}
           /\ todo' = (IF ~LoadFails /\ Migrates THEN <<"settings", "profiles">> ELSE <<>>)
           /\ todo' \in Writes /\ (pc' = "write" <=> todo' # <<>>)
           /\ config' = IF LoadFails THEN DefaultConfig ELSE ProfilesOnDisk
           /\ config' \in Bounded
           /\ applied' = IF Position(config'.profiles, config'.current) = 0 THEN applied
                         ELSE config'.profiles[Position(config'.profiles, config'.current)]
           /\ applied' \in Profiles \cup {<<>>}
           /\ tray' \in TrayTypes
           /\ tray'.names = NameSeq(config'.profiles) /\ tray'.events = <<>>
           /\ tray'.selected = IF Position(config'.profiles, config'.current) = 0 THEN 1
                               ELSE Position(config'.profiles, config'.current)
           /\ last' \in LastTypes
           /\ last'.current = config'.current /\ last'.count = Len(config'.profiles)
           /\ files' = files /\ ghost' = ghost
<1> DEFINE k == Position(config'.profiles, config'.current)
           names == NameSeq(config'.profiles)
           selected == IF k = 0 THEN 1 ELSE k
<1>1. config' = IF LoadFails THEN DefaultConfig ELSE ProfilesOnDisk
  BY DEF Start
<1>2. config' \in Bounded
  BY <1>1, FoundFacts
<1>3. /\ pc = "down" /\ files' = files /\ ghost' = ghost
      /\ todo' = (IF ~LoadFails /\ Migrates THEN <<"settings", "profiles">> ELSE <<>>)
      /\ pc' = IF todo' = <<>> THEN "frame" ELSE "write"
  BY DEF Start
<1>4. /\ applied' = IF k = 0 THEN applied ELSE config'.profiles[k]
      /\ tray' = [names |-> names, events |-> <<>>, selected |-> selected]
      /\ last' = [current |-> config'.current, count |-> Len(config'.profiles)]
  BY <1>1 DEF Start, ApplyCurrent
<1>5. /\ config'.profiles \in Seq(Profiles) /\ config'.current \in Name
      /\ Len(config'.profiles) \in Nat /\ Len(config'.profiles) <= MaxProfiles
      /\ \A i \in DOMAIN config'.profiles : config'.profiles[i] \in Profiles
  BY <1>2, ConfigFacts
<1>6. k \in 0 .. Len(config'.profiles) /\ (k # 0 => k \in DOMAIN config'.profiles)
  BY <1>5, PositionFacts
<1> HIDE DEF k
<1>7. applied' \in Profiles \cup {<<>>}
  BY <1>4, <1>5, <1>6 DEF Types
<1>8. names \in Seq(Name) /\ Len(names) <= MaxProfiles
  BY <1>5, NameSeqFacts
<1>9. selected \in 1 .. MaxProfiles
  BY <1>5, <1>6 DEF Types, GuiAppConstants
<1> HIDE DEF names, selected
<1>10. tray' \in TrayTypes
  <2>1. <<>> \in Seq(1 .. MaxProfiles) /\ Len(<<>>) = 0 /\ MaxClicks \in Nat
    BY EmptySeq DEF Types, GuiAppConstants
  <2>2. tray' \in [names : Seq(Name), selected : 1 .. MaxProfiles, events : Seq(1 .. MaxProfiles)]
    BY <1>4, <1>8, <1>9, <2>1
  <2>3. tray'.names = names /\ tray'.events = <<>>
    BY <1>4
  <2>4. Len(tray'.names) <= MaxProfiles /\ Len(tray'.events) <= MaxClicks
    BY <1>8, <2>1, <2>3
  <2> QED
    BY <2>2, <2>4 DEF TrayTypes
<1>11. tray'.names = names /\ tray'.events = <<>> /\ tray'.selected = selected
  BY <1>4
<1>12. last' \in LastTypes /\ last'.current = config'.current /\ last'.count = Len(config'.profiles)
  BY <1>4, <1>5 DEF LastTypes
<1>13. todo' \in Writes /\ (pc' = "write" <=> todo' # <<>>) /\ pc' \in {"frame", "write"}
  BY <1>3 DEF Writes
<1> QED
  BY <1>1, <1>2, <1>3, <1>4, <1>7, <1>10, <1>11, <1>12, <1>13 DEF k, names, selected

\* A write that ends.
LEMMA WrittenFacts ==
    ASSUME Types, pc = "write"
    PROVE  /\ todo \in Writes \ {<<>>} /\ Head(todo) \in {"settings", "profiles"}
           /\ Tail(todo) \in Writes
           /\ todo = <<"settings">> => Head(todo) = "settings" /\ Tail(todo) = <<>>
           /\ todo = <<"profiles">> => Head(todo) = "profiles" /\ Tail(todo) = <<>>
           /\ todo = <<"settings", "profiles">> =>
                 Head(todo) = "settings" /\ Tail(todo) = <<"profiles">>
<1>1. todo \in Writes \ {<<>>}
  BY DEF Types
<1>2. /\ Head(<<"settings">>) = "settings" /\ Tail(<<"settings">>) = <<>>
      /\ Head(<<"profiles">>) = "profiles" /\ Tail(<<"profiles">>) = <<>>
      /\ Head(<<"settings", "profiles">>) = "settings"
      /\ Tail(<<"settings", "profiles">>) = <<"profiles">>
  OBVIOUS
<1> QED
  BY <1>1, <1>2 DEF Writes

LEMMA TruncateFacts ==
    ASSUME Types, Truncate
    PROVE  /\ pc = "write" /\ files' \in FileTypes
           /\ files'[Head(todo)] = Torn
           /\ DOMAIN files' = DOMAIN files
           /\ \A f \in DOMAIN files : f # Head(todo) => files'[f] = files[f]
           /\ UNCHANGED <<pc, config, applied, todo, tray, last, ghost>>
<1>1. pc = "write" /\ files' = [files EXCEPT ![Head(todo)] = Torn]
      /\ UNCHANGED <<pc, config, applied, todo, tray, last, ghost>>
  BY DEF Truncate
<1>2. Head(todo) \in {"settings", "profiles"} /\ files \in FileTypes
  BY <1>1, WrittenFacts DEF Types
<1>3. Torn \in Stored
  BY DEF Stored
<1>4. files' \in FileTypes
  BY <1>1, <1>2, <1>3 DEF FileTypes
<1>5. DOMAIN files = {"settings", "profiles", "legacy"}
  BY <1>2 DEF FileTypes
<1> QED
  BY <1>1, <1>2, <1>4, <1>5

LEMMA WriteFacts ==
    ASSUME Types, Write
    PROVE  /\ pc = "write" /\ todo' = Tail(todo) /\ todo' \in Writes
           /\ pc' \in {"frame", "write"} /\ (pc' = "write" <=> todo' # <<>>)
           /\ files' \in FileTypes /\ DOMAIN files' = DOMAIN files
           /\ Head(todo) = "settings" => files'["settings"] = "settings"
           /\ Head(todo) = "profiles" => files'["profiles"] = config
           /\ \A f \in DOMAIN files : f # Head(todo) => files'[f] = files[f]
           /\ ghost' \in GhostTypes
           /\ ghost' = IF Head(todo) = "profiles" THEN [ghost EXCEPT !.durable = ghost.owned]
                                                   ELSE ghost
           /\ UNCHANGED <<config, applied, tray, last>>
<1>1. /\ pc = "write" /\ files' = [files EXCEPT ![Head(todo)] = Content(Head(todo))]
      /\ todo' = Tail(todo) /\ pc' = (IF todo' = <<>> THEN "frame" ELSE "write")
      /\ ghost' = (IF Head(todo) = "profiles" THEN [ghost EXCEPT !.durable = ghost.owned]
                                              ELSE ghost)
      /\ UNCHANGED <<config, applied, tray, last>>
  BY DEF Write, Written
<1>2. /\ Head(todo) \in {"settings", "profiles"} /\ Tail(todo) \in Writes
      /\ files \in FileTypes /\ config \in Stored /\ ghost \in GhostTypes
  BY <1>1, WrittenFacts DEF Types, Stored
<1>3. /\ Head(todo) = "settings" => Content(Head(todo)) = "settings"
      /\ Head(todo) = "profiles" => Content(Head(todo)) = config
  BY DEF Content
<1>4. files' \in FileTypes
  BY <1>1, <1>2, <1>3 DEF FileTypes
<1>5. DOMAIN files = {"settings", "profiles", "legacy"}
  BY <1>2 DEF FileTypes
<1>6. /\ DOMAIN files' = DOMAIN files
      /\ Head(todo) = "settings" => files'["settings"] = "settings"
      /\ Head(todo) = "profiles" => files'["profiles"] = config
      /\ \A f \in DOMAIN files : f # Head(todo) => files'[f] = files[f]
  BY <1>1, <1>2, <1>3, <1>5
<1>7. ghost' \in GhostTypes
  BY <1>1, <1>2 DEF GhostTypes
<1> QED
  BY <1>1, <1>2, <1>4, <1>6, <1>7

LEMMA FailsFacts ==
    ASSUME Types, WriteFails
    PROVE  /\ pc = "write" /\ todo' = Tail(todo) /\ todo' \in Writes
           /\ pc' \in {"frame", "write"} /\ (pc' = "write" <=> todo' # <<>>)
           /\ ghost' = [ghost EXCEPT !.harmed = TRUE] /\ ghost' \in GhostTypes
           /\ UNCHANGED <<files, config, applied, tray, last>>
<1>1. /\ pc = "write" /\ todo' = Tail(todo) /\ pc' = (IF todo' = <<>> THEN "frame" ELSE "write")
      /\ ghost' = [ghost EXCEPT !.harmed = TRUE]
      /\ UNCHANGED <<files, config, applied, tray, last>>
  BY DEF WriteFails, Written
<1>2. Tail(todo) \in Writes /\ ghost \in GhostTypes
  BY <1>1, WrittenFacts DEF Types
<1>3. ghost' \in GhostTypes
  BY <1>1, <1>2 DEF GhostTypes
<1> QED
  BY <1>1, <1>2, <1>3

\* The menu after its synchronisation.
LEMMA SyncedFacts ==
    ASSUME Types
    PROVE  /\ Synced \in TrayTypes /\ Synced.events = tray.events
           /\ Synced.names = IF CountChanged THEN NameSeq(config.profiles) ELSE tray.names
           /\ Synced.selected = IF Stale /\ Place(Synced.names, config.current) # 0
                                  THEN Place(Synced.names, config.current) ELSE tray.selected
<1> DEFINE names == IF CountChanged THEN NameSeq(config.profiles) ELSE tray.names
           k == Place(names, config.current)
           selected == IF Stale /\ k # 0 THEN k ELSE tray.selected
<1>1. config.profiles \in Seq(Profiles) /\ Len(config.profiles) <= MaxProfiles
      /\ tray \in [names : Seq(Name), selected : 1 .. MaxProfiles, events : Seq(1 .. MaxProfiles)]
      /\ Len(tray.names) <= MaxProfiles /\ Len(tray.events) <= MaxClicks
      /\ MaxProfiles \in Nat
  BY ConfigFacts DEF Types, TrayTypes, GuiAppConstants
<1>2. names \in Seq(Name) /\ Len(names) <= MaxProfiles
  BY <1>1, NameSeqFacts
<1>3. Synced = [tray EXCEPT !.names = names, !.selected = selected]
  BY DEF Synced, Selected, Place, Stale
<1> HIDE DEF names
<1>4. k \in 0 .. Len(names) /\ Len(names) \in Nat
  BY <1>2, SelectFacts, ListFacts
<1>5. selected \in 1 .. MaxProfiles
  <2>1. tray.selected \in 1 .. MaxProfiles
    BY <1>1
  <2> HIDE DEF k
  <2> QED
    BY <1>1, <1>2, <1>4, <2>1
<1> HIDE DEF selected
<1>6. /\ Synced \in [names : Seq(Name), selected : 1 .. MaxProfiles, events : Seq(1 .. MaxProfiles)]
      /\ Synced.names = names /\ Synced.selected = selected /\ Synced.events = tray.events
  BY <1>1, <1>2, <1>3, <1>5
<1>7. Synced \in TrayTypes
  BY <1>1, <1>2, <1>6 DEF TrayTypes
<1> QED
  BY <1>6, <1>7 DEF names, selected

LEMMA HandleFacts ==
    ASSUME Types, HandleTrayEvents
    PROVE  /\ pc = "frame" /\ pc' = "draw"
           /\ tray' \in TrayTypes /\ tray'.names = Synced.names /\ tray'.selected = Synced.selected
           /\ tray'.events = IF tray.events = <<>> THEN <<>> ELSE Tail(tray.events)
           /\ last' \in LastTypes
           /\ last'.current = config.current /\ last'.count = Len(config.profiles)
           /\ config' \in Bounded /\ config'.profiles = config.profiles
           /\ applied' \in Profiles \cup {<<>>}
           /\ ghost' \in GhostTypes
           /\ ghost' = [ghost EXCEPT !.switched = ghost'.switched, !.crossed = ghost'.crossed]
           /\ \/ /\ ghost'.switched = FALSE
                 /\ config' = config /\ applied' = applied
              \/ /\ ghost'.switched = TRUE
                 /\ tray.events # <<>> /\ Head(tray.events) \in DOMAIN config.profiles
                 /\ config'.current = config.profiles[Head(tray.events)].name
                 /\ applied' = config.profiles[Head(tray.events)]
           /\ ghost'.crossed = (ghost.crossed /\ ~Shows(Synced))
           /\ files' = files /\ todo' = todo
<1> DEFINE index == Head(tray.events)
           switches == tray.events # <<>> /\ index <= Len(config.profiles)
           events == IF tray.events = <<>> THEN <<>> ELSE Tail(tray.events)
           crossed == ghost.crossed /\ ~Shows(Synced)
<1>1. /\ pc = "frame" /\ pc' = "draw" /\ files' = files /\ todo' = todo
      /\ last' = [current |-> config.current, count |-> Len(config.profiles)]
  BY DEF HandleTrayEvents
<1>2. /\ tray' = [Synced EXCEPT !.events = IF Synced.events = <<>> THEN Synced.events
                                           ELSE Tail(Synced.events)]
      /\ ghost' = [ghost EXCEPT !.switched = switches, !.crossed = crossed]
      /\ switches => /\ config' = [config EXCEPT !.current = config.profiles[index].name]
                     /\ applied' = config.profiles[index]
      /\ ~switches => config' = config /\ applied' = applied
  BY DEF HandleTrayEvents
<1>3. Synced \in TrayTypes /\ Synced.events = tray.events
  BY SyncedFacts
<1>4. tray.events \in Seq(1 .. MaxProfiles) /\ Len(tray.events) <= MaxClicks /\ MaxClicks \in Nat
  BY TypesFacts
<1>5. events \in Seq(1 .. MaxProfiles) /\ Len(events) <= MaxClicks
  <2>1. CASE tray.events = <<>>
    BY <1>4, <2>1
  <2>2. CASE tray.events # <<>>
    <3>1. Tail(tray.events) \in Seq(1 .. MaxProfiles) /\ Len(Tail(tray.events)) = Len(tray.events) - 1
      BY <1>4, <2>2, HeadTailProperties
    <3>2. Len(tray.events) \in Nat
      BY <1>4, LenProperties
    <3> QED
      BY <1>4, <2>2, <3>1, <3>2
  <2> QED
    BY <2>1, <2>2
<1>6. tray' = [Synced EXCEPT !.events = events]
  BY <1>2, <1>3
<1> HIDE DEF events
<1>7. /\ tray' \in TrayTypes /\ tray'.names = Synced.names /\ tray'.selected = Synced.selected
      /\ tray'.events = events
  <2>1. Synced \in [names : Seq(Name), selected : 1 .. MaxProfiles, events : Seq(1 .. MaxProfiles)]
        /\ Len(Synced.names) <= MaxProfiles
    BY <1>3 DEF TrayTypes
  <2>2. /\ tray' \in [names : Seq(Name), selected : 1 .. MaxProfiles, events : Seq(1 .. MaxProfiles)]
        /\ tray'.names = Synced.names /\ tray'.selected = Synced.selected
        /\ tray'.events = events
    BY <1>5, <1>6, <2>1
  <2> QED
    BY <1>5, <2>1, <2>2 DEF TrayTypes
<1>8. config \in Bounded /\ applied \in Profiles \cup {<<>>} /\ ghost \in GhostTypes
  BY DEF Types
<1>9. switches => index \in DOMAIN config.profiles
  <2> SUFFICES ASSUME switches PROVE index \in DOMAIN config.profiles
    OBVIOUS
  <2>1. index \in 1 .. MaxProfiles
    BY <1>4, HeadTailProperties
  <2> QED
    BY <1>8, <2>1, ConfigFacts
<1>10. config' \in Bounded /\ config'.profiles = config.profiles
       /\ (switches => config'.current = config.profiles[index].name)
       /\ applied' \in Profiles \cup {<<>>}
  <2>1. CASE switches
    <3>1. config.profiles[index].name \in Name /\ config.profiles[index] \in Profiles
      BY <1>8, <1>9, <2>1, ConfigFacts
    <3>2. config' = [config EXCEPT !.current = config.profiles[index].name]
          /\ applied' = config.profiles[index]
      BY <1>2, <2>1
    <3> HIDE DEF switches, index
    <3>3. /\ config' \in Bounded /\ config'.profiles = config.profiles
          /\ config'.current = config.profiles[index].name
      BY <1>8, <3>1, <3>2, CurrentEdit
    <3> QED
      BY <3>1, <3>2, <3>3
  <2>2. CASE ~switches
    BY <1>2, <1>8, <2>2
  <2> QED
    BY <2>1, <2>2
<1>11. last' \in LastTypes /\ last'.current = config.current /\ last'.count = Len(config.profiles)
  BY <1>1, <1>8, ConfigFacts DEF LastTypes
<1>12. switches \in BOOLEAN /\ crossed \in BOOLEAN
  OBVIOUS
<1> HIDE DEF switches, crossed
<1>13. ghost' \in GhostTypes /\ ghost'.switched = switches /\ ghost'.crossed = crossed
  BY <1>2, <1>8, <1>12 DEF GhostTypes
<1>14. /\ \/ /\ ghost'.switched = FALSE
             /\ config' = config /\ applied' = applied
          \/ /\ ghost'.switched = TRUE
             /\ tray.events # <<>> /\ Head(tray.events) \in DOMAIN config.profiles
             /\ config'.current = config.profiles[Head(tray.events)].name
             /\ applied' = config.profiles[Head(tray.events)]
  <2>1. CASE switches
    BY <1>2, <1>9, <1>10, <1>12, <1>13, <2>1 DEF switches
  <2>2. CASE ~switches
    BY <1>2, <1>12, <1>13, <2>2
  <2> QED
    BY <2>1, <2>2
<1>15. ghost' = [ghost EXCEPT !.switched = ghost'.switched, !.crossed = ghost'.crossed]
  BY <1>2, <1>13
<1> QED
  BY <1>1, <1>7, <1>10, <1>11, <1>13, <1>14, <1>15 DEF events, crossed

LEMMA ClickFacts ==
    ASSUME Types, NEW i \in DOMAIN tray.names, TrayClick(i)
    PROVE  /\ pc # "down" /\ tray' \in TrayTypes
           /\ tray'.names = tray.names /\ tray'.selected = i /\ i <= Len(tray.names)
           /\ tray'.events # <<>> /\ tray'.events[Len(tray'.events)] = i
           /\ UNCHANGED <<pc, config, applied, files, todo, last, ghost>>
<1> DEFINE events == Append(tray.events, i)
<1>1. /\ pc # "down" /\ Len(tray.events) < MaxClicks
      /\ tray' = [tray EXCEPT !.selected = i, !.events = events]
      /\ UNCHANGED <<pc, config, applied, files, todo, last, ghost>>
  BY DEF TrayClick
<1>2. tray \in [names : Seq(Name), selected : 1 .. MaxProfiles, events : Seq(1 .. MaxProfiles)]
      /\ Len(tray.names) <= MaxProfiles /\ MaxProfiles \in Nat /\ MaxClicks \in Nat
  BY DEF Types, TrayTypes, GuiAppConstants
<1>3. i \in 1 .. MaxProfiles /\ i <= Len(tray.names)
  <2>1. tray.names \in Seq(Name)
    BY <1>2
  <2>2. i \in Nat /\ 1 <= i /\ i <= Len(tray.names) /\ Len(tray.names) \in Nat
    BY <2>1, ListFacts
  <2> QED
    BY <1>2, <2>2
<1>4. /\ events \in Seq(1 .. MaxProfiles) /\ Len(events) = Len(tray.events) + 1
      /\ events[Len(tray.events) + 1] = i /\ Len(tray.events) \in Nat
  <2>1. tray.events \in Seq(1 .. MaxProfiles)
    BY <1>2
  <2> QED
    BY <1>3, <2>1, AppendProperties, LenProperties
<1>5. events # <<>> /\ events[Len(events)] = i /\ Len(events) <= MaxClicks
  <2>1. Len(<<>>) = 0
    BY EmptySeq
  <2> HIDE DEF events
  <2> QED
    BY <1>1, <1>2, <1>4, <2>1
<1> HIDE DEF events
<1>6. /\ tray' \in [names : Seq(Name), selected : 1 .. MaxProfiles, events : Seq(1 .. MaxProfiles)]
      /\ tray'.names = tray.names /\ tray'.selected = i /\ tray'.events = events
  BY <1>1, <1>2, <1>3, <1>4
<1>7. tray' \in TrayTypes
  BY <1>2, <1>5, <1>6 DEF TrayTypes
<1> QED
  BY <1>1, <1>3, <1>5, <1>6, <1>7

LEMMA DownFacts ==
    ASSUME Types, Down
    PROVE  /\ pc' = "down" /\ config' = DefaultConfig /\ config' \in Bounded /\ todo' = <<>>
           /\ tray' \in TrayTypes /\ last' \in LastTypes
           /\ UNCHANGED <<applied, files>>
<1>1. /\ pc' = "down" /\ config' = DefaultConfig /\ todo' = <<>> /\ tray' = NoTray
      /\ last' = [current |-> Standard, count |-> 1] /\ UNCHANGED <<applied, files>>
  BY DEF Down
<1>2. NoTray \in TrayTypes
  <2>1. /\ <<>> \in Seq(Name) /\ <<>> \in Seq(1 .. MaxProfiles) /\ Len(<<>>) = 0
        /\ MaxClicks \in Nat /\ MaxProfiles \in Nat \ {0}
    BY EmptySeq DEF Types, GuiAppConstants
  <2>2. 1 \in 1 .. MaxProfiles
    BY <2>1
  <2>3. NoTray \in [names : Seq(Name), selected : 1 .. MaxProfiles, events : Seq(1 .. MaxProfiles)]
        /\ NoTray.names = <<>> /\ NoTray.events = <<>>
    BY <2>1, <2>2 DEF NoTray
  <2> QED
    BY <2>1, <2>3 DEF TrayTypes
<1>3. last' \in LastTypes
  BY <1>1 DEF LastTypes, Name
<1> QED
  BY <1>1, <1>2, <1>3, FoundFacts
-----------------------------------------------------------------------------
(* Types *)

\* Quitting and being killed: what the history keeps.
LEMMA ExitFacts ==
    ASSUME Types, Exit
    PROVE  /\ pc \in {"frame", "draw"} /\ Down
           /\ ghost' \in GhostTypes /\ ghost'.owned = ghost.owned
           /\ ghost'.durable = ghost.durable
           /\ ghost'.harmed = ghost.harmed /\ ghost'.renamed = ghost.renamed
<1>1. pc \in {"frame", "draw"} /\ Down /\ ghost' = Fresh(ghost)
  BY DEF Exit
<1>2. ghost \in GhostTypes
  BY DEF Types
<1> QED
  BY <1>1, <1>2 DEF GhostTypes, Fresh

LEMMA CrashFacts ==
    ASSUME Types, Crash
    PROVE  /\ pc # "down" /\ Down
           /\ ghost' \in GhostTypes /\ ghost'.owned = ghost.durable
           /\ ghost'.durable = ghost.durable
           /\ ghost'.harmed = (ghost.harmed \/ (pc = "write" /\ files[Head(todo)] = Torn))
           /\ ghost'.renamed = ghost.renamed
<1> DEFINE harmed == ghost.harmed \/ (pc = "write" /\ files[Head(todo)] = Torn)
           fresh == [ghost EXCEPT !.dirty = FALSE, !.switched = FALSE, !.crossed = FALSE]
<1>1. ghost \in GhostTypes
  BY DEF Types
<1>2. fresh \in GhostTypes /\ fresh.harmed = ghost.harmed /\ fresh.durable = ghost.durable
      /\ fresh.renamed = ghost.renamed
  BY <1>1 DEF GhostTypes
<1>3. pc # "down" /\ Down /\ ghost' = [fresh EXCEPT !.owned = ghost.durable,
         !.harmed = fresh.harmed \/ (pc = "write" /\ files[Head(todo)] = Torn)]
  BY DEF Crash, Fresh
<1>4. ghost' = [fresh EXCEPT !.owned = ghost.durable, !.harmed = harmed]
  BY <1>2, <1>3
<1>5. harmed \in BOOLEAN /\ ghost.durable \in SUBSET Names
  BY <1>1 DEF GhostTypes
<1> HIDE DEF harmed, fresh
<1>6. /\ ghost' \in GhostTypes /\ ghost'.owned = ghost.durable
      /\ ghost'.durable = fresh.durable /\ ghost'.harmed = harmed
      /\ ghost'.renamed = fresh.renamed
  BY <1>2, <1>4, <1>5 DEF GhostTypes
<1> QED
  BY <1>2, <1>3, <1>6 DEF harmed

\* The steps of a page.
LEMMA PageTypes ==
    ASSUME Types, PageAction
    PROVE  /\ config' \in Bounded /\ applied' \in Profiles \cup {<<>>} /\ ghost' \in GhostTypes
           /\ ghost.renamed => ghost'.renamed
           /\ ghost'.harmed = ghost.harmed /\ ghost'.durable = ghost.durable
           /\ pc = "draw" /\ pc' \in {"frame", "write"}
           /\ todo = <<>> /\ todo' \in Writes /\ (pc' = "write" <=> todo' # <<>>)
           /\ UNCHANGED <<files, tray, last>>
<1> DEFINE Effect ==
      /\ config' \in Bounded /\ applied' \in Profiles \cup {<<>>} /\ ghost' \in GhostTypes
      /\ ghost.renamed => ghost'.renamed
      /\ ghost'.harmed = ghost.harmed /\ ghost'.durable = ghost.durable
      /\ \E writes \in {<<>>, <<"settings">>, <<"profiles">>} : Page(writes)
<1>1. config \in Bounded /\ applied \in Profiles \cup {<<>>} /\ ghost \in GhostTypes
  BY DEF Types
<1>2. ASSUME NEW i \in DOMAIN config.profiles, SwitchProfile(i) PROVE Effect
  <2>1. config.profiles[i] \in Profiles
    BY <1>1, ConfigFacts
  <2>2. (ghost.crossed \/ ghost.switched) \in BOOLEAN
    OBVIOUS
  <2>3. ghost' = [ghost EXCEPT !.crossed = ghost.crossed \/ ghost.switched]
    BY <1>2, SwitchFacts
  <2>4. /\ ghost' \in GhostTypes /\ ghost'.renamed = ghost.renamed
        /\ ghost'.harmed = ghost.harmed /\ ghost'.durable = ghost.durable
    BY <1>1, <2>2, <2>3 DEF GhostTypes
  <2> QED
    BY <1>2, <2>1, <2>4, SwitchFacts
<1>3. ASSUME NEW i \in DOMAIN config.profiles, ResetProfile(i) PROVE Effect
  BY <1>1, <1>3, ResetFacts
<1>4. ASSUME NEW i \in DOMAIN config.profiles, DeleteProfile(i) PROVE Effect
  <2>1. /\ Page(<<"profiles">>) /\ config' \in Bounded
        /\ applied' = IF config.profiles[i].name = config.current
                           /\ Position(config.profiles, Standard) # 0
                        THEN config.profiles[Position(config.profiles, Standard)] ELSE applied
        /\ ghost' = [ghost EXCEPT !.owned = ghost.owned \ {config.profiles[i].name},
                                  !.crossed = ghost.crossed \/ ghost.switched]
    BY <1>4, DeleteFacts
  <2>2. applied' \in Profiles \cup {<<>>}
    BY <1>1, <2>1, ConfigFacts, PositionFacts
  <2>3. (ghost.crossed \/ ghost.switched) \in BOOLEAN
        /\ ghost.owned \ {config.profiles[i].name} \in SUBSET Names
    BY <1>1 DEF GhostTypes
  <2>4. /\ ghost' \in GhostTypes /\ ghost'.renamed = ghost.renamed
        /\ ghost'.harmed = ghost.harmed /\ ghost'.durable = ghost.durable
    BY <1>1, <2>1, <2>3 DEF GhostTypes
  <2> QED
    BY <2>1, <2>2, <2>4
<1>5. ASSUME NEW name \in Names, CreateProfile(name) PROVE Effect
  <2>1. ghost' = [ghost EXCEPT !.owned = ghost.owned \cup {name}]
    BY <1>5, CreateFacts
  <2>2. ghost.owned \cup {name} \in SUBSET Names
    BY <1>1, <1>5 DEF GhostTypes
  <2>3. /\ ghost' \in GhostTypes /\ ghost'.renamed = ghost.renamed
        /\ ghost'.harmed = ghost.harmed /\ ghost'.durable = ghost.durable
    BY <1>1, <2>1, <2>2 DEF GhostTypes
  <2> QED
    BY <1>1, <1>5, <2>3, CreateFacts
<1>6. ASSUME EditProfile PROVE Effect
  <2>1. ghost' = [ghost EXCEPT !.dirty = TRUE]
    BY <1>6, EditFacts
  <2>2. /\ ghost' \in GhostTypes /\ ghost'.renamed = ghost.renamed
        /\ ghost'.harmed = ghost.harmed /\ ghost'.durable = ghost.durable
    BY <1>1, <2>1 DEF GhostTypes
  <2> QED
    BY <1>1, <1>6, <2>2, EditFacts
<1>7. ASSUME ResetTuning PROVE Effect
  <2>1. ghost' = [ghost EXCEPT !.dirty = TRUE,
                               !.renamed = ghost.renamed \/ config.current # Standard]
    BY <1>7, ResetTuningFacts
  <2>2. (ghost.renamed \/ config.current # Standard) \in BOOLEAN
    OBVIOUS
  <2>3. /\ ghost' \in GhostTypes /\ ghost'.renamed = (ghost.renamed \/ config.current # Standard)
        /\ ghost'.harmed = ghost.harmed /\ ghost'.durable = ghost.durable
    BY <1>1, <2>1, <2>2 DEF GhostTypes
  <2> QED
    BY <1>1, <1>7, <2>3, ResetTuningFacts
<1>8. ASSUME SaveTuning PROVE Effect
  <2>1. ghost' = [ghost EXCEPT !.dirty = FALSE]
    BY <1>8, SaveFacts
  <2>2. /\ ghost' \in GhostTypes /\ ghost'.renamed = ghost.renamed
        /\ ghost'.harmed = ghost.harmed /\ ghost'.durable = ghost.durable
    BY <1>1, <2>1 DEF GhostTypes
  <2> QED
    BY <1>1, <1>8, <2>2, SaveFacts
<1>9. ASSUME ChangeSettings PROVE Effect
  BY <1>1, <1>9 DEF ChangeSettings
<1>10. Effect
  BY <1>2, <1>3, <1>4, <1>5, <1>6, <1>7, <1>8, <1>9 DEF PageAction
<1> QED
  BY <1>10, PageFacts

LEMMA StepTypes ==
    ASSUME Types, [Next]_vars
    PROVE  Types'
<1>1. /\ GuiAppConstants /\ config \in Bounded /\ applied \in Profiles \cup {<<>>}
      /\ files \in FileTypes /\ todo \in Writes /\ tray \in TrayTypes /\ last \in LastTypes
      /\ ghost \in GhostTypes /\ (pc = "write" <=> todo # <<>>)
      /\ pc \in {"down", "frame", "draw", "write"}
  BY DEF Types
<1>2. CASE Start
  BY <1>1, <1>2, StartFacts DEF Types
<1>3. CASE Truncate
  BY <1>1, <1>3, TruncateFacts DEF Types
<1>4. CASE Write
  BY <1>1, <1>4, WriteFacts DEF Types
<1>5. CASE WriteFails
  BY <1>1, <1>5, FailsFacts DEF Types
<1>6. CASE GamepadInfo
  BY <1>1, <1>6 DEF GamepadInfo, Types, Writes
<1>7. CASE HandleTrayEvents
  BY <1>1, <1>7, HandleFacts DEF Types
<1>8. CASE DrawNothing
  BY <1>1, <1>8 DEF DrawNothing, Types
<1>9. CASE PageAction
  BY <1>1, <1>9, PageTypes DEF Types
<1>10. ASSUME NEW i \in DOMAIN tray.names, TrayClick(i) PROVE Types'
  BY <1>1, <1>10, ClickFacts DEF Types
<1>11. CASE Exit
  BY <1>1, <1>11, ExitFacts, DownFacts DEF Types, Writes
<1>12. CASE Crash
  BY <1>1, <1>12, CrashFacts, DownFacts DEF Types, Writes
<1>13. CASE UNCHANGED vars
  BY <1>1, <1>13 DEF Types, vars
<1> QED
  BY <1>2, <1>3, <1>4, <1>5, <1>6, <1>7, <1>8, <1>9, <1>10, <1>11, <1>12, <1>13 DEF Next

LEMMA InitFacts ==
    ASSUME GuiAppConstants, Init
    PROVE  Types /\ Formed /\ Kept
<1>1. /\ pc = "down" /\ config = DefaultConfig /\ applied = <<>> /\ todo = <<>> /\ tray = NoTray
      /\ last = [current |-> Standard, count |-> 1]
  BY DEF Init
<1>2. PICK legacy \in BOOLEAN, settings \in {Absent, "settings"}, own \in SUBSET Names :
         /\ Cardinality(own) < MaxProfiles
         /\ LET saved == [profiles |-> <<Profile(Standard, "default")>> \o
                                SetToSeq({Profile(n, "default") : n \in own}),
                          current |-> Standard]
            IN  /\ files = [settings |-> settings,
                            profiles |-> IF legacy \/ own = {} THEN Absent ELSE saved,
                            legacy |-> IF legacy THEN saved ELSE Absent]
                /\ ghost = [owned |-> own, durable |-> own, harmed |-> FALSE, renamed |-> FALSE,
                            dirty |-> FALSE, switched |-> FALSE, crossed |-> FALSE]
  BY DEF Init
<1> DEFINE saved == [profiles |-> <<Profile(Standard, "default")>> \o
                          SetToSeq({Profile(n, "default") : n \in own}),
                     current |-> Standard]
           profiles == IF legacy \/ own = {} THEN Absent ELSE saved
           old == IF legacy THEN saved ELSE Absent
<1>3. /\ files = [settings |-> settings, profiles |-> profiles, legacy |-> old]
      /\ ghost = [owned |-> own, durable |-> own, harmed |-> FALSE, renamed |-> FALSE,
                  dirty |-> FALSE, switched |-> FALSE, crossed |-> FALSE]
  BY <1>2
<1>4. /\ saved \in Bounded /\ WellFormed(saved)
      /\ NamesIn(saved.profiles) = own \cup {Standard}
  BY <1>2, SavedFacts
<1> HIDE DEF saved
<1>5. /\ profiles \in Stored /\ old \in Stored /\ settings \in {"settings", Absent, Torn}
      /\ Absent # Torn /\ "settings" # Torn /\ saved \notin {Absent, Torn}
  <2>1. \A none \in {Absent, Torn} : none # "settings" /\ none \notin Configs
    BY DEF GuiAppConstants
  <2>2. saved \in Configs
    BY <1>4 DEF Bounded
  <2>3. Absent # Torn
    BY DEF GuiAppConstants
  <2> QED
    BY <1>2, <1>4, <2>1, <2>2, <2>3 DEF Stored
<1>6. /\ files \in FileTypes /\ files["settings"] = settings /\ files["profiles"] = profiles
      /\ files["legacy"] = old /\ DOMAIN files = {"settings", "profiles", "legacy"}
  <2> HIDE DEF profiles, old
  <2> QED
    BY <1>3, <1>5 DEF FileTypes
<1>7. /\ ghost \in GhostTypes /\ ghost.owned = own /\ ghost.durable = own
      /\ ghost.harmed = FALSE /\ ghost.renamed = FALSE
  BY <1>2, <1>3 DEF GhostTypes
<1>8. NoTray \in TrayTypes /\ last \in LastTypes
  <2>1. /\ <<>> \in Seq(Name) /\ <<>> \in Seq(1 .. MaxProfiles) /\ Len(<<>>) = 0
        /\ MaxClicks \in Nat /\ MaxProfiles \in Nat \ {0}
    BY EmptySeq DEF GuiAppConstants
  <2>2. 1 \in 1 .. MaxProfiles
    BY <2>1
  <2>3. NoTray \in [names : Seq(Name), selected : 1 .. MaxProfiles, events : Seq(1 .. MaxProfiles)]
        /\ NoTray.names = <<>> /\ NoTray.events = <<>>
    BY <2>1, <2>2 DEF NoTray
  <2>4. NoTray \in TrayTypes
    BY <2>1, <2>3 DEF TrayTypes
  <2> QED
    BY <1>1, <2>4 DEF LastTypes, Name
<1>9. Types
  BY <1>1, <1>6, <1>7, <1>8, DefaultFacts DEF Types, Writes
<1>10. Formed
  <2>1. \A f \in {"profiles", "legacy"} : Readable(f) => files[f] = saved
    BY <1>6 DEF Readable
  <2> QED
    BY <1>1, <1>4, <2>1, DefaultFacts DEF Formed
<1>11. Kept
  <2>1. \A f \in DOMAIN files : files[f] # Torn
    BY <1>2, <1>5, <1>6
  <2>2. NamesOnDisk = own \cup {Standard}
    <3>1. Readable("profiles") <=> ~(legacy \/ own = {})
      BY <1>5, <1>6 DEF Readable
    <3>2. Readable("legacy") <=> legacy
      BY <1>5, <1>6 DEF Readable
    <3>3. CASE legacy
      <4>1. ProfilesOnDisk = saved
        BY <1>6, <3>1, <3>2, <3>3 DEF ProfilesOnDisk
      <4> QED
        BY <1>4, <4>1 DEF NamesOnDisk
    <3>4. CASE ~legacy /\ own = {}
      <4>1. ProfilesOnDisk = DefaultConfig
        BY <3>1, <3>2, <3>4 DEF ProfilesOnDisk
      <4> QED
        BY <3>4, <4>1, DefaultFacts DEF NamesOnDisk
    <3>5. CASE ~legacy /\ own # {}
      <4>1. ProfilesOnDisk = saved
        BY <1>6, <3>1, <3>5 DEF ProfilesOnDisk
      <4> QED
        BY <1>4, <4>1 DEF NamesOnDisk
    <3> QED
      BY <3>3, <3>4, <3>5
  <2> QED
    BY <1>1, <1>7, <2>1, <2>2 DEF Kept
<1> QED
  BY <1>9, <1>10, <1>11
-----------------------------------------------------------------------------
(* The profiles stay well formed *)

\* Nothing restores a name that the tuning page took, or a write that was cut
\* short.
LEMMA HistoryGrows ==
    ASSUME Types, [Next]_vars
    PROVE  (ghost.renamed => ghost'.renamed) /\ (ghost.harmed => ghost'.harmed)
<1>1. ghost \in GhostTypes
  BY DEF Types
<1>2. CASE Write
  <2>1. ghost' = IF Head(todo) = "profiles" THEN [ghost EXCEPT !.durable = ghost.owned]
                                            ELSE ghost
    BY <1>2, WriteFacts
  <2> QED
    BY <1>1, <2>1 DEF GhostTypes
<1>3. CASE WriteFails
  <2>1. ghost' = [ghost EXCEPT !.harmed = TRUE]
    BY <1>3, FailsFacts
  <2> QED
    BY <1>1, <2>1 DEF GhostTypes
<1>4. CASE HandleTrayEvents
  <2>1. ghost' = [ghost EXCEPT !.switched = ghost'.switched, !.crossed = ghost'.crossed]
    BY <1>4, HandleFacts
  <2> QED
    BY <1>1, <2>1 DEF GhostTypes
<1>5. CASE Start \/ Truncate \/ GamepadInfo \/ DrawNothing
  BY <1>5, StartFacts, TruncateFacts DEF GamepadInfo, DrawNothing
<1>6. CASE PageAction
  BY <1>6, PageTypes
<1>7. ASSUME NEW i \in DOMAIN tray.names, TrayClick(i)
      PROVE  ghost' = ghost
  BY <1>7, ClickFacts
<1>8. CASE Exit \/ Crash
  BY <1>8, ExitFacts, CrashFacts
<1>9. CASE UNCHANGED vars
  BY <1>9 DEF vars
<1> QED
  BY <1>2, <1>3, <1>4, <1>5, <1>6, <1>7, <1>8, <1>9 DEF Next

\* A well-formed configuration has a current profile, and it is the only one of
\* its name.
LEMMA CurrentExists ==
    ASSUME NEW conf \in Bounded, WellFormed(conf)
    PROVE  \E k \in DOMAIN conf.profiles :
              /\ k = Position(conf.profiles, conf.current) /\ k # 0
              /\ conf.profiles[k].name = conf.current
              /\ \A i \in DOMAIN conf.profiles : conf.profiles[i].name = conf.current => i = k
<1>1. conf.profiles \in Seq(Profiles)
  BY ConfigFacts
<1>2. Position(conf.profiles, conf.current) # 0
  BY <1>1, PositionFacts DEF WellFormed
<1> QED
  BY <1>1, <1>2, PositionFacts DEF WellFormed, Distinct

\* The tuning page puts a profile of the same name in the place of the current
\* one, until it renames it.
LEMMA TuningFacts ==
    ASSUME Types, CurrentIndex # 0, NEW p \in Profiles, p.name = config.current,
           config'.profiles = [config.profiles EXCEPT ![CurrentIndex] = p]
    PROVE  /\ Len(config'.profiles) = Len(config.profiles)
           /\ DOMAIN config'.profiles = DOMAIN config.profiles
           /\ CurrentIndex \in DOMAIN config.profiles /\ config'.profiles[CurrentIndex] = p
           /\ NamesIn(config'.profiles) = NamesIn(config.profiles)
           /\ NameSeq(config'.profiles) = NameSeq(config.profiles)
           /\ Distinct(config.profiles) => Distinct(config'.profiles)
BY CurrentFacts, ConfigFacts, ReplaceFacts DEF Types

\* What a page does to the names: nothing, or one goes, or one comes.
LEMMA PageNames ==
    ASSUME Types, PageAction, WellFormed(config), ~ghost'.renamed
    PROVE  /\ WellFormed(config')
           /\ \/ /\ NameSeq(config'.profiles) = NameSeq(config.profiles)
                 /\ NamesIn(config'.profiles) = NamesIn(config.profiles)
                 /\ Len(config'.profiles) = Len(config.profiles)
                 /\ ghost'.owned = ghost.owned
              \/ /\ Len(config'.profiles) # Len(config.profiles)
                 /\ todo' = <<"profiles">>
                 /\ \E name \in Names :
                       /\ NamesIn(config'.profiles) = NamesIn(config.profiles) \ {name}
                       /\ ghost'.owned = ghost.owned \ {name}
              \/ /\ Len(config'.profiles) # Len(config.profiles)
                 /\ todo' = <<"profiles">>
                 /\ \E name \in Names :
                       /\ NamesIn(config'.profiles) = NamesIn(config.profiles) \cup {name}
                       /\ ghost'.owned = ghost.owned \cup {name}
<1> DEFINE Same ==
              /\ NameSeq(config'.profiles) = NameSeq(config.profiles)
              /\ NamesIn(config'.profiles) = NamesIn(config.profiles)
              /\ Len(config'.profiles) = Len(config.profiles)
              /\ ghost'.owned = ghost.owned
           Removed ==
              /\ Len(config'.profiles) # Len(config.profiles)
              /\ todo' = <<"profiles">>
              /\ \E name \in Names :
                    /\ NamesIn(config'.profiles) = NamesIn(config.profiles) \ {name}
                    /\ ghost'.owned = ghost.owned \ {name}
           Added ==
              /\ Len(config'.profiles) # Len(config.profiles)
              /\ todo' = <<"profiles">>
              /\ \E name \in Names :
                    /\ NamesIn(config'.profiles) = NamesIn(config.profiles) \cup {name}
                    /\ ghost'.owned = ghost.owned \cup {name}
           Goal == WellFormed(config') /\ (Same \/ Removed \/ Added)
<1>1. /\ config \in Bounded /\ ghost \in GhostTypes /\ config.profiles \in Seq(Profiles)
      /\ Len(config.profiles) \in Nat /\ Distinct(config.profiles)
      /\ Standard \in NamesIn(config.profiles) /\ config.current \in NamesIn(config.profiles)
  BY ConfigFacts DEF Types, WellFormed
<1>2. ASSUME NEW i \in DOMAIN config.profiles, SwitchProfile(i) PROVE Goal
  <2>1. /\ config'.profiles = config.profiles /\ config'.current = config.profiles[i].name
        /\ ghost' = [ghost EXCEPT !.crossed = ghost.crossed \/ ghost.switched]
    BY <1>2, SwitchFacts
  <2>2. ghost'.owned = ghost.owned
    BY <1>1, <2>1 DEF GhostTypes
  <2>3. config'.current \in NamesIn(config'.profiles)
    BY <2>1 DEF NamesIn
  <2> QED
    BY <1>1, <2>1, <2>2, <2>3 DEF WellFormed
<1>3. ASSUME NEW i \in DOMAIN config.profiles, ResetProfile(i) PROVE Goal
  <2> DEFINE p == Profile(Standard, "default")
  <2>1. /\ p \in Profiles /\ p.name = Standard /\ config.profiles[i].name = Standard
        /\ config'.profiles = [config.profiles EXCEPT ![i] = p]
        /\ config'.current = config.current /\ ghost' = ghost
    BY <1>3, ResetFacts
  <2> HIDE DEF p
  <2>2. /\ NamesIn(config'.profiles) = NamesIn(config.profiles)
        /\ NameSeq(config'.profiles) = NameSeq(config.profiles)
        /\ Len(config'.profiles) = Len(config.profiles)
        /\ Distinct(config'.profiles)
    BY <1>1, <2>1, ReplaceFacts
  <2> QED
    BY <1>1, <2>1, <2>2 DEF WellFormed
<1>4. ASSUME NEW i \in DOMAIN config.profiles, DeleteProfile(i) PROVE Goal
  <2> DEFINE name == config.profiles[i].name
  <2>1. /\ name # Standard /\ config'.profiles = RemoveAt(config.profiles, i)
        /\ config'.current = (IF name = config.current THEN Standard ELSE config.current)
        /\ ghost' = [ghost EXCEPT !.owned = ghost.owned \ {name},
                                  !.crossed = ghost.crossed \/ ghost.switched]
        /\ Page(<<"profiles">>)
    BY <1>4, DeleteFacts
  <2>2. name \in Name
    BY <1>1, ConfigFacts
  <2>3. /\ NamesIn(config'.profiles) = NamesIn(config.profiles) \ {name}
        /\ Distinct(config'.profiles)
    BY <1>1, <2>1, RemoveNames
  <2>4. Len(config'.profiles) = Len(config.profiles) - 1
    BY <1>1, <2>1, RemoveFacts
  <2>5. ghost'.owned = ghost.owned \ {name}
    BY <1>1, <2>1 DEF GhostTypes
  <2>6. name \in Names
    BY <2>1, <2>2 DEF Name
  <2>7. todo' = <<"profiles">>
    BY <2>1 DEF Page
  <2> HIDE DEF name
  <2>8. Len(config'.profiles) # Len(config.profiles)
    BY <1>1, <2>4
  <2>9. WellFormed(config')
    BY <1>1, <2>1, <2>3 DEF WellFormed
  <2> QED
    BY <2>3, <2>5, <2>6, <2>7, <2>8, <2>9
<1>5. ASSUME NEW name \in Names, CreateProfile(name) PROVE Goal
  <2>1. /\ name \notin NamesIn(config.profiles) /\ config'.current = config.current
        /\ Page(<<"profiles">>)
        /\ ghost' = [ghost EXCEPT !.owned = ghost.owned \cup {name}]
    BY <1>5, CreateFacts
  <2>2. PICK p \in Profiles : p.name = name /\ config'.profiles = Append(config.profiles, p)
    BY <1>5, CreateFacts
  <2>3. /\ Len(config'.profiles) = Len(config.profiles) + 1
        /\ NamesIn(config'.profiles) = NamesIn(config.profiles) \cup {name}
        /\ Distinct(config'.profiles)
    BY <1>1, <2>1, <2>2, AddFacts
  <2>4. ghost'.owned = ghost.owned \cup {name}
    BY <1>1, <2>1 DEF GhostTypes
  <2>5. todo' = <<"profiles">>
    BY <2>1 DEF Page
  <2>6. Len(config'.profiles) # Len(config.profiles)
    BY <1>1, <2>3
  <2>7. WellFormed(config')
    BY <1>1, <2>1, <2>3 DEF WellFormed
  <2> QED
    BY <2>3, <2>4, <2>5, <2>6, <2>7
<1>6. ASSUME EditProfile PROVE Goal
  <2>1. CurrentIndex # 0 /\ config'.current = config.current /\ ghost' = [ghost EXCEPT !.dirty = TRUE]
    BY <1>6, EditFacts
  <2>2. PICK p \in Profiles : /\ p.name = config.current
                              /\ config'.profiles = [config.profiles EXCEPT ![CurrentIndex] = p]
    BY <1>6, EditFacts
  <2>3. ghost'.owned = ghost.owned
    BY <1>1, <2>1 DEF GhostTypes
  <2>4. /\ Len(config'.profiles) = Len(config.profiles)
        /\ NamesIn(config'.profiles) = NamesIn(config.profiles)
        /\ NameSeq(config'.profiles) = NameSeq(config.profiles)
        /\ Distinct(config'.profiles)
    BY <1>1, <2>1, <2>2, TuningFacts
  <2> QED
    BY <1>1, <2>1, <2>3, <2>4 DEF WellFormed
<1>7. ASSUME ResetTuning PROVE Goal
  <2>1. /\ CurrentIndex # 0 /\ config'.current = config.current
        /\ ghost' = [ghost EXCEPT !.dirty = TRUE,
                                  !.renamed = ghost.renamed \/ config.current # Standard]
    BY <1>7, ResetTuningFacts
  <2>2. PICK p \in Profiles : /\ p.name = Standard
                              /\ config'.profiles = [config.profiles EXCEPT ![CurrentIndex] = p]
    BY <1>7, ResetTuningFacts
  <2>3. ghost'.owned = ghost.owned /\ ghost'.renamed = (ghost.renamed \/ config.current # Standard)
    BY <1>1, <2>1 DEF GhostTypes
  <2>4. config.current = Standard
    BY <2>3
  <2>5. /\ Len(config'.profiles) = Len(config.profiles)
        /\ NamesIn(config'.profiles) = NamesIn(config.profiles)
        /\ NameSeq(config'.profiles) = NameSeq(config.profiles)
        /\ Distinct(config'.profiles)
    BY <1>1, <2>1, <2>2, <2>4, TuningFacts
  <2> QED
    BY <1>1, <2>1, <2>3, <2>5 DEF WellFormed
<1>8. ASSUME SaveTuning PROVE Goal
  <2>1. config' = config /\ ghost' = [ghost EXCEPT !.dirty = FALSE]
    BY <1>8, SaveFacts
  <2>2. ghost'.owned = ghost.owned
    BY <1>1, <2>1 DEF GhostTypes
  <2> QED
    BY <2>1, <2>2
<1>9. ASSUME ChangeSettings PROVE Goal
  <2>1. config' = config /\ ghost' = ghost
    BY <1>9 DEF ChangeSettings
  <2> QED
    BY <2>1
<1> QED
  BY <1>2, <1>3, <1>4, <1>5, <1>6, <1>7, <1>8, <1>9 DEF PageAction

LEMMA StepFormed ==
    ASSUME Types, Formed, [Next]_vars
    PROVE  Formed'
<1> SUFFICES ASSUME ~ghost'.renamed
             PROVE  /\ WellFormed(config')
                    /\ \A f \in {"profiles", "legacy"} :
                          files'[f] \notin {Absent, Torn} => WellFormed(files'[f])
  BY DEF Formed, Readable
<1>1. /\ ~ghost.renamed /\ WellFormed(config)
      /\ \A f \in {"profiles", "legacy"} : files[f] \notin {Absent, Torn} => WellFormed(files[f])
  BY HistoryGrows DEF Formed, Readable
<1>2. CASE Start
  <2>1. WellFormed(DefaultConfig)
    BY DefaultFacts DEF Types
  <2>2. WellFormed(ProfilesOnDisk)
    BY <1>1, <2>1 DEF ProfilesOnDisk, Readable
  <2> QED
    BY <1>1, <1>2, <2>1, <2>2, StartFacts
<1>3. CASE Truncate
  <2>1. DOMAIN files = {"settings", "profiles", "legacy"}
    BY DEF Types, FileTypes
  <2> QED
    BY <1>1, <1>3, <2>1, TruncateFacts
<1>4. CASE Write
  <2>1. DOMAIN files = {"settings", "profiles", "legacy"}
    BY DEF Types, FileTypes
  <2>2. Head(todo) \in {"settings", "profiles"}
    BY <1>4, WriteFacts, WrittenFacts
  <2>3. /\ config' = config /\ (Head(todo) = "profiles" => files'["profiles"] = config)
        /\ \A f \in DOMAIN files : f # Head(todo) => files'[f] = files[f]
    BY <1>4, WriteFacts
  <2> QED
    BY <1>1, <2>1, <2>2, <2>3
<1>5. CASE WriteFails
  BY <1>1, <1>5, FailsFacts
<1>6. CASE GamepadInfo \/ DrawNothing
  BY <1>1, <1>6 DEF GamepadInfo, DrawNothing
<1>7. CASE HandleTrayEvents
  <2>1. config'.profiles = config.profiles /\ files' = files
    BY <1>7, HandleFacts
  <2>2. config'.current \in NamesIn(config.profiles)
    BY <1>1, <1>7, HandleFacts DEF WellFormed, NamesIn
  <2> QED
    BY <1>1, <2>1, <2>2 DEF WellFormed
<1>8. CASE PageAction
  BY <1>1, <1>8, PageNames, PageTypes
<1>9. ASSUME NEW i \in DOMAIN tray.names, TrayClick(i)
      PROVE  UNCHANGED <<config, files>>
  BY <1>9, ClickFacts
<1>10. CASE Exit \/ Crash
  BY <1>1, <1>10, ExitFacts, CrashFacts, DownFacts, DefaultFacts DEF Types
<1>11. CASE UNCHANGED vars
  BY <1>1, <1>11 DEF vars
<1> QED
  BY <1>1, <1>2, <1>3, <1>4, <1>5, <1>6, <1>7, <1>8, <1>9, <1>10, <1>11 DEF Next
-----------------------------------------------------------------------------
(* The daemon was given the current profile *)

LEMMA StepApplied ==
    ASSUME Types, Formed, Applied, [Next]_vars
    PROVE  Applied'
<1> DEFINE Shown(conf, given, dirty) ==
              /\ given.name = conf.current
              /\ \E i \in DOMAIN conf.profiles :
                    /\ conf.profiles[i].name = conf.current
                    /\ dirty \/ given = conf.profiles[i]
<1> SUFFICES ASSUME ~ghost'.renamed, pc' # "down"
             PROVE  Shown(config', applied', ghost'.dirty)
  BY DEF Applied
<1>1. /\ ~ghost.renamed /\ WellFormed(config)
      /\ pc # "down" => Shown(config, applied, ghost.dirty)
      /\ config \in Bounded /\ config' \in Bounded /\ ghost \in GhostTypes
  BY HistoryGrows, StepTypes DEF Formed, Applied, Types
<1>2. CASE Start
  <2>1. WellFormed(config')
    BY <1>1, <1>2, StepFormed DEF Formed
  <2>2. PICK k \in DOMAIN config'.profiles :
           /\ k = Position(config'.profiles, config'.current) /\ k # 0
           /\ config'.profiles[k].name = config'.current
    BY <1>1, <2>1, CurrentExists
  <2>3. applied' = config'.profiles[k]
    BY <1>2, <2>2, StartFacts
  <2> QED
    BY <2>2, <2>3
<1>3. CASE Truncate
  BY <1>1, <1>3, TruncateFacts
<1>4. CASE Write
  <2>1. ghost'.dirty = ghost.dirty
    <3>1. ghost' = IF Head(todo) = "profiles" THEN [ghost EXCEPT !.durable = ghost.owned]
                                              ELSE ghost
      BY <1>4, WriteFacts
    <3> QED
      BY <1>1, <3>1 DEF GhostTypes
  <2> QED
    BY <1>1, <1>4, <2>1, WriteFacts
<1>5. CASE WriteFails
  <2>1. ghost' = [ghost EXCEPT !.harmed = TRUE]
    BY <1>5, FailsFacts
  <2>2. ghost'.dirty = ghost.dirty
    BY <1>1, <2>1 DEF GhostTypes
  <2> QED
    BY <1>1, <1>5, <2>2, FailsFacts
<1>6. CASE GamepadInfo \/ DrawNothing
  <2>1. UNCHANGED <<config, applied, ghost>> /\ pc # "down"
    BY <1>6 DEF GamepadInfo, DrawNothing
  <2> QED
    BY <1>1, <2>1
<1>7. CASE HandleTrayEvents
  <2>1. ghost' = [ghost EXCEPT !.switched = ghost'.switched, !.crossed = ghost'.crossed]
    BY <1>7, HandleFacts
  <2>2. ghost'.dirty = ghost.dirty
    BY <1>1, <2>1 DEF GhostTypes
  <2>3. pc # "down" /\ config'.profiles = config.profiles
    BY <1>7, HandleFacts
  <2>4. CASE config' = config /\ applied' = applied
    BY <1>1, <2>2, <2>3, <2>4
  <2>5. CASE /\ Head(tray.events) \in DOMAIN config.profiles
             /\ config'.current = config.profiles[Head(tray.events)].name
             /\ applied' = config.profiles[Head(tray.events)]
    BY <2>3, <2>5
  <2> QED
    BY <1>7, <2>4, <2>5, HandleFacts
<1>8. CASE PageAction
  <2>1. pc # "down"
    BY <1>8, PageTypes
  <2>2. PICK k \in DOMAIN config.profiles :
           /\ k = Position(config.profiles, config.current) /\ k # 0
           /\ config.profiles[k].name = config.current
           /\ \A i \in DOMAIN config.profiles : config.profiles[i].name = config.current => i = k
    BY <1>1, CurrentExists
  <2>3. applied.name = config.current /\ (ghost.dirty \/ applied = config.profiles[k])
    BY <1>1, <2>1, <2>2
  <2>4. /\ k = CurrentIndex /\ config.profiles \in Seq(Profiles) /\ config.current \in Name
        /\ Distinct(config.profiles) /\ Standard \in NamesIn(config.profiles)
    BY <1>1, <2>2, ConfigFacts DEF CurrentIndex, WellFormed
  <2>5. ASSUME NEW i \in DOMAIN config.profiles, SwitchProfile(i)
        PROVE  Shown(config', applied', ghost'.dirty)
    BY <2>5, SwitchFacts
  <2>6. ASSUME NEW i \in DOMAIN config.profiles, ResetProfile(i)
        PROVE  Shown(config', applied', ghost'.dirty)
    <3> DEFINE p == Profile(Standard, "default")
    <3>1. /\ p \in Profiles /\ p.name = Standard /\ config.profiles[i].name = Standard
          /\ config'.profiles = [config.profiles EXCEPT ![i] = p]
          /\ config'.current = config.current /\ ghost' = ghost
          /\ applied' = IF config.current = Standard THEN p ELSE applied
      BY <2>6, ResetFacts
    <3> HIDE DEF p
    <3>2. /\ DOMAIN config'.profiles = DOMAIN config.profiles /\ config'.profiles[i] = p
          /\ \A j \in DOMAIN config.profiles : j # i => config'.profiles[j] = config.profiles[j]
      BY <2>4, <3>1, ReplaceFacts
    <3>3. CASE config.current = Standard
      BY <3>1, <3>2, <3>3
    <3>4. CASE config.current # Standard
      <4>1. k # i
        BY <2>2, <3>1, <3>4
      <4>2. config'.profiles[k] = config.profiles[k] /\ k \in DOMAIN config'.profiles
        BY <3>2, <4>1
      <4> QED
        BY <2>2, <2>3, <3>1, <3>4, <4>2
    <3> QED
      BY <3>3, <3>4
  <2>7. ASSUME NEW i \in DOMAIN config.profiles, DeleteProfile(i)
        PROVE  Shown(config', applied', ghost'.dirty)
    <3> DEFINE name == config.profiles[i].name
               s == Position(config.profiles, Standard)
    <3>1. /\ name # Standard /\ config'.profiles = RemoveAt(config.profiles, i)
          /\ config'.current = (IF name = config.current THEN Standard ELSE config.current)
          /\ ghost' = [ghost EXCEPT !.owned = ghost.owned \ {name},
                                    !.crossed = ghost.crossed \/ ghost.switched]
          /\ applied' = IF name = config.current /\ s # 0 THEN config.profiles[s] ELSE applied
      BY <2>7, DeleteFacts
    <3>2. \A j \in DOMAIN config.profiles :
             j # i => \E m \in DOMAIN config'.profiles : config'.profiles[m] = config.profiles[j]
      BY <2>4, <3>1, RemoveFacts
    <3>3. ghost'.dirty = ghost.dirty
      BY <1>1, <3>1 DEF GhostTypes
    <3>4. s # 0 /\ s \in DOMAIN config.profiles /\ config.profiles[s].name = Standard
      BY <2>4, PositionFacts
    <3> HIDE DEF s
    <3>5. CASE name = config.current
      <4>1. s # i
        BY <3>1, <3>4
      <4>2. PICK m \in DOMAIN config'.profiles : config'.profiles[m] = config.profiles[s]
        BY <3>2, <3>4, <4>1
      <4> QED
        BY <3>1, <3>4, <3>5, <4>2
    <3>6. CASE name # config.current
      <4>1. k # i
        BY <2>2, <3>6
      <4>2. PICK m \in DOMAIN config'.profiles : config'.profiles[m] = config.profiles[k]
        BY <3>2, <4>1
      <4> QED
        BY <2>2, <2>3, <3>1, <3>3, <3>6, <4>2
    <3> QED
      BY <3>5, <3>6
  <2>8. ASSUME NEW name \in Names, CreateProfile(name)
        PROVE  Shown(config', applied', ghost'.dirty)
    <3>1. /\ name \notin NamesIn(config.profiles) /\ config'.current = config.current
          /\ ghost' = [ghost EXCEPT !.owned = ghost.owned \cup {name}] /\ applied' = applied
      BY <2>8, CreateFacts
    <3>2. PICK p \in Profiles : p.name = name /\ config'.profiles = Append(config.profiles, p)
      BY <2>8, CreateFacts
    <3>3. k \in DOMAIN config'.profiles /\ config'.profiles[k] = config.profiles[k]
      BY <2>4, <3>1, <3>2, AddFacts
    <3>4. ghost'.dirty = ghost.dirty
      BY <1>1, <3>1 DEF GhostTypes
    <3> QED
      BY <2>2, <2>3, <3>1, <3>3, <3>4
  <2>9. ASSUME EditProfile
        PROVE  Shown(config', applied', ghost'.dirty)
    <3>1. /\ CurrentIndex # 0 /\ config'.current = config.current /\ applied' = applied
          /\ ghost' = [ghost EXCEPT !.dirty = TRUE]
      BY <2>9, EditFacts
    <3>2. PICK p \in Profiles : /\ p.name = config.current
                                /\ config'.profiles = [config.profiles EXCEPT ![CurrentIndex] = p]
      BY <2>9, EditFacts
    <3>3. /\ k \in DOMAIN config'.profiles /\ config'.profiles[k] = p
      BY <2>4, <3>1, <3>2, TuningFacts
    <3>4. ghost'.dirty
      BY <1>1, <3>1 DEF GhostTypes
    <3> QED
      BY <2>3, <3>1, <3>2, <3>3, <3>4
  <2>10. ASSUME ResetTuning
         PROVE  Shown(config', applied', ghost'.dirty)
    <3>1. /\ CurrentIndex # 0 /\ config'.current = config.current /\ applied' = applied
          /\ ghost' = [ghost EXCEPT !.dirty = TRUE,
                                    !.renamed = ghost.renamed \/ config.current # Standard]
      BY <2>10, ResetTuningFacts
    <3>2. PICK p \in Profiles : /\ p.name = Standard
                                /\ config'.profiles = [config.profiles EXCEPT ![CurrentIndex] = p]
      BY <2>10, ResetTuningFacts
    <3>3. ghost'.dirty /\ ghost'.renamed = (ghost.renamed \/ config.current # Standard)
      BY <1>1, <3>1 DEF GhostTypes
    <3>4. config.current = Standard
      BY <3>3
    <3>5. k \in DOMAIN config'.profiles /\ config'.profiles[k] = p
      BY <2>4, <3>1, <3>2, <3>4, TuningFacts
    <3> QED
      BY <2>3, <3>1, <3>2, <3>3, <3>4, <3>5
  <2>11. ASSUME SaveTuning
         PROVE  Shown(config', applied', ghost'.dirty)
    <3>1. config' = config /\ applied' = config.profiles[k]
      BY <2>4, <2>11, SaveFacts
    <3> QED
      BY <2>2, <3>1
  <2>12. ASSUME ChangeSettings
         PROVE  Shown(config', applied', ghost'.dirty)
    <3>1. config' = config /\ applied' = applied /\ ghost' = ghost
      BY <2>12 DEF ChangeSettings
    <3> QED
      BY <1>1, <2>1, <3>1
  <2> HIDE DEF Shown
  <2> QED
    BY <1>8, <2>5, <2>6, <2>7, <2>8, <2>9, <2>10, <2>11, <2>12 DEF PageAction
<1>9. ASSUME NEW i \in DOMAIN tray.names, TrayClick(i)
      PROVE  UNCHANGED <<pc, config, applied, ghost>>
  BY <1>9, ClickFacts
<1>10. ~(Exit \/ Crash)
  BY ExitFacts, CrashFacts, DownFacts
<1>11. CASE UNCHANGED vars
  BY <1>1, <1>11 DEF vars
<1> HIDE DEF Shown
<1>12. CASE \E i \in DOMAIN tray.names : TrayClick(i)
  <2>1. UNCHANGED <<pc, config, applied, ghost>>
    BY <1>9, <1>12
  <2> QED
    BY <1>1, <2>1 DEF Shown
<1> QED
  BY <1>2, <1>3, <1>4, <1>5, <1>6, <1>7, <1>8, <1>10, <1>11, <1>12 DEF Next

-----------------------------------------------------------------------------
(* No profile is lost *)

\* What a start would find depends on two files.
LEMMA DiskSame ==
    ASSUME files'["profiles"] = files["profiles"], files'["legacy"] = files["legacy"]
    PROVE  NamesOnDisk' = NamesOnDisk
BY DEF NamesOnDisk, ProfilesOnDisk, Readable, NamesIn, DefaultConfig

\* A file is torn only while it is being written.
LEMMA StepTorn ==
    ASSUME Types, Kept, [Next]_vars, ~ghost'.harmed
    PROVE  \A f \in DOMAIN files' : files'[f] = Torn => pc' = "write" /\ f = Head(todo')
<1>1. /\ ~ghost.harmed
      /\ \A f \in DOMAIN files : files[f] = Torn => pc = "write" /\ f = Head(todo)
      /\ DOMAIN files = {"settings", "profiles", "legacy"}
  BY HistoryGrows DEF Kept, Types, FileTypes
<1>2. CASE Start
  BY <1>1, <1>2, StartFacts
<1>3. CASE Truncate
  BY <1>1, <1>3, TruncateFacts
<1>4. CASE Write
  <2>1. /\ pc = "write" /\ DOMAIN files' = DOMAIN files
        /\ Head(todo) = "settings" => files'["settings"] = "settings"
        /\ Head(todo) = "profiles" => files'["profiles"] = config
        /\ \A f \in DOMAIN files : f # Head(todo) => files'[f] = files[f]
    BY <1>4, WriteFacts
  <2>2. Head(todo) \in {"settings", "profiles"}
    BY <2>1, WrittenFacts
  <2>3. "settings" # Torn /\ config # Torn
    BY DEF Types, GuiAppConstants, Bounded
  <2> QED
    BY <1>1, <2>1, <2>2, <2>3
<1>5. CASE WriteFails
  <2>1. ghost' = [ghost EXCEPT !.harmed = TRUE] /\ ghost \in GhostTypes
    BY <1>5, FailsFacts DEF Types
  <2>2. ghost'.harmed
    BY <2>1 DEF GhostTypes
  <2> QED
    BY <2>2
<1>6. CASE GamepadInfo \/ DrawNothing
  <2>1. pc # "write" /\ files' = files
    BY <1>6 DEF GamepadInfo, DrawNothing
  <2> QED
    BY <1>1, <2>1
<1>7. CASE HandleTrayEvents
  BY <1>1, <1>7, HandleFacts
<1>8. CASE PageAction
  BY <1>1, <1>8, PageTypes
<1>9. ASSUME NEW i \in DOMAIN tray.names, TrayClick(i)
      PROVE  UNCHANGED <<pc, files, todo>>
  BY <1>9, ClickFacts
<1>10. CASE Exit
  BY <1>1, <1>10, ExitFacts, DownFacts
<1>11. CASE Crash
  <2>1. files' = files /\ ~(pc = "write" /\ files[Head(todo)] = Torn)
    BY <1>11, CrashFacts, DownFacts
  <2> QED
    BY <1>1, <2>1
<1>12. CASE UNCHANGED vars
  BY <1>1, <1>12 DEF vars
<1>13. CASE \E i \in DOMAIN tray.names : TrayClick(i)
  <2>1. UNCHANGED <<pc, files, todo>>
    BY <1>9, <1>13
  <2> QED
    BY <1>1, <2>1
<1> QED
  BY <1>2, <1>3, <1>4, <1>5, <1>6, <1>7, <1>8, <1>10, <1>11, <1>12, <1>13 DEF Next

LEMMA StepKept ==
    ASSUME Types, Formed, Kept, [Next]_vars
    PROVE  Kept'
<1> DEFINE Owned == pc # "down" => NamesIn(config.profiles) = ghost.owned \cup {Standard}
           OnDisk == files.profiles # Torn => NamesOnDisk = ghost.durable \cup {Standard}
           Saved == todo \in {<<>>, <<"settings">>} => ghost.owned = ghost.durable
<1>1. ASSUME ~ghost'.harmed
      PROVE  \A f \in DOMAIN files' : files'[f] = Torn => pc' = "write" /\ f = Head(todo')
  BY <1>1, StepTorn
<1>2. ASSUME ~ghost'.harmed, ~ghost'.renamed
      PROVE  (Owned /\ OnDisk /\ Saved)'
  <2>1. /\ ~ghost.harmed /\ ~ghost.renamed /\ Owned /\ OnDisk /\ Saved
        /\ \A f \in DOMAIN files : files[f] = Torn => pc = "write" /\ f = Head(todo)
        /\ DOMAIN files = {"settings", "profiles", "legacy"} /\ WellFormed(config)
        /\ ghost \in GhostTypes /\ (pc = "write" <=> todo # <<>>)
    BY <1>2, HistoryGrows DEF Kept, Types, FileTypes, Formed
  <2>2. CASE Start
    <3>1. pc = "down" /\ files' = files /\ ghost' = ghost
          /\ config' = IF LoadFails THEN DefaultConfig ELSE ProfilesOnDisk
      BY <2>2, StartFacts
    <3>2. todo = <<>> /\ (\A f \in DOMAIN files : files[f] # Torn)
      BY <2>1, <3>1
    <3>3. config' = ProfilesOnDisk
      BY <3>1, <3>2 DEF LoadFails
    <3>4. NamesOnDisk = ghost.durable \cup {Standard} /\ ghost.owned = ghost.durable
      BY <2>1, <3>2
    <3>5. NamesOnDisk' = NamesOnDisk
      BY <3>1, DiskSame
    <3>6. NamesIn(config'.profiles) = ghost'.owned \cup {Standard}
      BY <3>1, <3>3, <3>4 DEF NamesOnDisk
    <3> QED
      BY <3>1, <3>4, <3>5, <3>6
  <2>3. CASE Truncate
    <3>1. /\ pc = "write" /\ files'[Head(todo)] = Torn
          /\ \A f \in DOMAIN files : f # Head(todo) => files'[f] = files[f]
          /\ UNCHANGED <<pc, config, todo, ghost>>
      BY <2>3, TruncateFacts
    <3>2. Head(todo) \in {"settings", "profiles"}
      BY <3>1, WrittenFacts
    <3>3. CASE Head(todo) = "profiles"
      BY <2>1, <3>1, <3>3
    <3>4. CASE Head(todo) = "settings"
      <4>1. files'["profiles"] = files["profiles"] /\ files'["legacy"] = files["legacy"]
        BY <2>1, <3>1, <3>4
      <4>2. NamesOnDisk' = NamesOnDisk
        BY <4>1, DiskSame
      <4> QED
        BY <2>1, <3>1, <4>1, <4>2
    <3> QED
      BY <3>2, <3>3, <3>4
  <2>4. CASE Write
    <3>1. /\ pc = "write" /\ todo' = Tail(todo) /\ config' = config
          /\ Head(todo) = "profiles" => files'["profiles"] = config
          /\ \A f \in DOMAIN files : f # Head(todo) => files'[f] = files[f]
          /\ ghost' = IF Head(todo) = "profiles" THEN [ghost EXCEPT !.durable = ghost.owned]
                                                 ELSE ghost
      BY <2>4, WriteFacts
    <3>2. CASE Head(todo) = "profiles"
      <4>1. ghost'.owned = ghost.owned /\ ghost'.durable = ghost.owned
        BY <2>1, <3>1, <3>2 DEF GhostTypes
      <4>2. config \notin {Absent, Torn}
        BY DEF Types, GuiAppConstants, Bounded
      <4>3. ProfilesOnDisk' = config
        BY <3>1, <3>2, <4>2 DEF ProfilesOnDisk, Readable
      <4>4. NamesOnDisk' = NamesIn(config.profiles)
        BY <4>3 DEF NamesOnDisk, NamesIn
      <4> QED
        BY <2>1, <3>1, <4>1, <4>4
    <3>3. CASE Head(todo) # "profiles"
      <4>1. ghost' = ghost /\ Head(todo) = "settings"
        BY <3>1, <3>3, WrittenFacts
      <4>2. files'["profiles"] = files["profiles"] /\ files'["legacy"] = files["legacy"]
        BY <2>1, <3>1, <4>1
      <4>3. NamesOnDisk' = NamesOnDisk
        BY <4>2, DiskSame
      <4>4. \/ todo = <<"settings">> /\ todo' = <<>>
            \/ todo' = <<"profiles">>
        BY <3>1, <3>3, WrittenFacts DEF Writes
      <4>5. <<"profiles">> \notin {<<>>, <<"settings">>}
        OBVIOUS
      <4>6. Saved'
        BY <2>1, <4>1, <4>4, <4>5
      <4> QED
        BY <2>1, <3>1, <4>1, <4>2, <4>3, <4>6
    <3> QED
      BY <3>2, <3>3
  <2>5. CASE WriteFails
    <3>1. ghost' = [ghost EXCEPT !.harmed = TRUE]
      BY <2>5, FailsFacts
    <3>2. ghost'.harmed
      BY <2>1, <3>1 DEF GhostTypes
    <3> QED
      BY <1>2, <3>2
  <2>6. CASE GamepadInfo \/ DrawNothing
    <3>1. /\ pc \in {"frame", "draw"} /\ UNCHANGED <<config, files, ghost>>
          /\ todo' \in {<<"settings">>, todo}
      BY <2>6 DEF GamepadInfo, DrawNothing
    <3>2. todo = <<>> /\ pc # "down"
      BY <2>1, <3>1
    <3>3. NamesOnDisk' = NamesOnDisk
      BY <3>1, DiskSame
    <3> QED
      BY <2>1, <3>1, <3>2, <3>3
  <2>7. CASE HandleTrayEvents
    <3>1. /\ pc = "frame" /\ config'.profiles = config.profiles /\ UNCHANGED <<files, todo>>
          /\ ghost' = [ghost EXCEPT !.switched = ghost'.switched, !.crossed = ghost'.crossed]
      BY <2>7, HandleFacts
    <3>2. ghost'.owned = ghost.owned /\ ghost'.durable = ghost.durable
      BY <2>1, <3>1 DEF GhostTypes
    <3>3. NamesOnDisk' = NamesOnDisk
      BY <3>1, DiskSame
    <3> QED
      BY <2>1, <3>1, <3>2, <3>3
  <2>8. CASE PageAction
    <3>1. /\ pc = "draw" /\ todo = <<>> /\ files' = files /\ ghost'.durable = ghost.durable
      BY <2>8, PageTypes
    <3>2. NamesIn(config.profiles) = ghost.owned \cup {Standard} /\ ghost.owned = ghost.durable
          /\ NamesOnDisk = ghost.durable \cup {Standard} /\ files.profiles # Torn
      BY <2>1, <3>1
    <3>3. NamesOnDisk' = NamesOnDisk
      BY <3>1, DiskSame
    <3>4. /\ NamesIn(config'.profiles) = ghost'.owned \cup {Standard}
          /\ todo' # <<"profiles">> => ghost'.owned = ghost.owned
      <4>1. CASE /\ NamesIn(config'.profiles) = NamesIn(config.profiles)
                 /\ ghost'.owned = ghost.owned
        BY <3>2, <4>1
      <4>2. ASSUME todo' = <<"profiles">>, NEW name \in Names,
                   NamesIn(config'.profiles) = NamesIn(config.profiles) \ {name},
                   ghost'.owned = ghost.owned \ {name}
            PROVE  NamesIn(config'.profiles) = ghost'.owned \cup {Standard}
        <5>1. Standard # name
          BY <4>2 DEF Types, GuiAppConstants
        <5> QED
          BY <3>2, <4>2, <5>1
      <4>3. ASSUME todo' = <<"profiles">>, NEW name \in Names,
                   NamesIn(config'.profiles) = NamesIn(config.profiles) \cup {name},
                   ghost'.owned = ghost.owned \cup {name}
            PROVE  NamesIn(config'.profiles) = ghost'.owned \cup {Standard}
        BY <3>2, <4>3
      <4>4. \/ /\ NamesIn(config'.profiles) = NamesIn(config.profiles)
               /\ ghost'.owned = ghost.owned
            \/ /\ todo' = <<"profiles">>
               /\ \E name \in Names :
                     /\ NamesIn(config'.profiles) = NamesIn(config.profiles) \ {name}
                     /\ ghost'.owned = ghost.owned \ {name}
            \/ /\ todo' = <<"profiles">>
               /\ \E name \in Names :
                     /\ NamesIn(config'.profiles) = NamesIn(config.profiles) \cup {name}
                     /\ ghost'.owned = ghost.owned \cup {name}
        BY <1>2, <2>1, <2>8, PageNames
      <4> QED
        BY <4>1, <4>2, <4>3, <4>4
    <3>5. <<"profiles">> \notin {<<>>, <<"settings">>}
      OBVIOUS
    <3> QED
      BY <3>1, <3>2, <3>3, <3>4, <3>5
  <2>9. ASSUME NEW i \in DOMAIN tray.names, TrayClick(i)
        PROVE  UNCHANGED <<pc, config, files, todo, ghost>>
    BY <2>9, ClickFacts
  <2>10. CASE \E i \in DOMAIN tray.names : TrayClick(i)
    <3>1. UNCHANGED <<pc, config, files, todo, ghost>>
      BY <2>9, <2>10
    <3>2. NamesOnDisk' = NamesOnDisk
      BY <3>1, DiskSame
    <3> QED
      BY <2>1, <3>1, <3>2
  <2>11. CASE Exit
    <3>1. /\ pc \in {"frame", "draw"} /\ pc' = "down" /\ files' = files /\ todo' = <<>>
          /\ ghost'.owned = ghost.owned /\ ghost'.durable = ghost.durable
      BY <2>11, ExitFacts, DownFacts
    <3>2. NamesOnDisk' = NamesOnDisk /\ todo = <<>>
      BY <2>1, <3>1, DiskSame
    <3> QED
      BY <2>1, <3>1, <3>2
  <2>12. CASE Crash
    <3>1. /\ pc' = "down" /\ files' = files /\ todo' = <<>>
          /\ ghost'.owned = ghost.durable /\ ghost'.durable = ghost.durable
      BY <2>12, CrashFacts, DownFacts
    <3>2. NamesOnDisk' = NamesOnDisk
      BY <3>1, DiskSame
    <3> QED
      BY <2>1, <3>1, <3>2
  <2>13. CASE UNCHANGED vars
    <3>1. UNCHANGED <<pc, config, files, todo, ghost>>
      BY <2>13 DEF vars
    <3>2. NamesOnDisk' = NamesOnDisk
      BY <3>1, DiskSame
    <3> QED
      BY <2>1, <3>1, <3>2
  <2> HIDE DEF Owned, OnDisk, Saved
  <2> QED
    BY <2>2, <2>3, <2>4, <2>5, <2>6, <2>7, <2>8, <2>10, <2>11, <2>12, <2>13 DEF Next
<1> QED
  BY <1>1, <1>2 DEF Kept
-----------------------------------------------------------------------------
(* The menu *)

LEMMA ShowsFacts ==
    ASSUME NEW menu \in TrayTypes, menu.selected <= Len(menu.names)
    PROVE  /\ Shows(menu) <=> menu.names[menu.selected] = config.current
           /\ menu.selected \in DOMAIN menu.names
<1>1. /\ menu.names \in Seq(Name) /\ menu.selected \in 1 .. MaxProfiles
  BY DEF TrayTypes
<1>2. Len(menu.names) \in Nat /\ DOMAIN menu.names = 1 .. Len(menu.names)
  BY <1>1, ListFacts
<1> QED
  BY <1>1, <1>2 DEF Shows

\* Once it is synchronised the menu has the names, and shows the current
\* profile if it was not.
LEMMA SyncedMenu ==
    ASSUME Types, Formed, Menu, pc = "frame", ~ghost.renamed
    PROVE  /\ Synced.names = NameSeq(config.profiles)
           /\ Synced.selected <= Len(Synced.names)
           /\ Stale => Shows(Synced)
           /\ ~Stale => Synced.names = tray.names /\ Synced.selected = tray.selected
<1>1. /\ Synced \in TrayTypes
      /\ Synced.names = IF CountChanged THEN NameSeq(config.profiles) ELSE tray.names
      /\ Synced.selected = IF Stale /\ Place(Synced.names, config.current) # 0
                             THEN Place(Synced.names, config.current) ELSE tray.selected
  BY SyncedFacts
<1>2. /\ ~CountChanged => tray.names = NameSeq(config.profiles)
      /\ tray.selected <= Len(tray.names) /\ WellFormed(config)
  BY DEF Menu, Formed
<1>3. Synced.names = NameSeq(config.profiles)
  BY <1>1, <1>2
<1>4. config.profiles \in Seq(Profiles) /\ config.current \in NamesIn(config.profiles)
  BY <1>2, TypesFacts DEF WellFormed
<1>5. Place(Synced.names, config.current) # 0
  <2>1. \E i \in DOMAIN config.profiles : config.profiles[i].name = config.current
    BY <1>4 DEF NamesIn
  <2>2. /\ NameSeq(config.profiles) \in Seq(Name)
        /\ \E i \in DOMAIN NameSeq(config.profiles) : NameSeq(config.profiles)[i] = config.current
    BY <1>4, <2>1, NameSeqFacts
  <2> QED
    BY <1>3, <2>2, SelectFacts
<1>6. /\ Synced.names \in Seq(Name)
      /\ Place(Synced.names, config.current) \in 1 .. Len(Synced.names)
      /\ Synced.names[Place(Synced.names, config.current)] = config.current
  <2>1. Synced.names \in Seq(Name)
    BY <1>1 DEF TrayTypes
  <2> QED
    BY <1>5, <2>1, SelectFacts, ListFacts
<1>7. ~Stale => Synced.names = tray.names /\ Synced.selected = tray.selected
  BY <1>1 DEF Stale
<1>8. Synced.selected <= Len(Synced.names)
  <2>1. CASE Stale
    <3>1. Synced.selected = Place(Synced.names, config.current)
      BY <1>1, <1>5, <2>1
    <3>2. Len(Synced.names) \in Nat
      BY <1>6, ListFacts
    <3> QED
      BY <1>6, <3>1, <3>2
  <2>2. CASE ~Stale
    BY <1>2, <1>7, <2>2
  <2> QED
    BY <2>1, <2>2
<1>9. Stale => Shows(Synced)
  BY <1>1, <1>5, <1>6, <1>8, ShowsFacts
<1> QED
  BY <1>3, <1>7, <1>8, <1>9

\* One event is handled: the last one that waits is the one selected, or is the
\* profile that is now current.
LEMMA LastEvent ==
    ASSUME Types, tray.events # <<>>
    PROVE  LET rest == Tail(tray.events)
               final == tray.events[Len(tray.events)]
           IN  \/ rest = <<>> /\ Head(tray.events) = final
               \/ rest # <<>> /\ rest[Len(rest)] = final
<1> DEFINE events == tray.events
           rest == Tail(events)
           n == Len(events)
<1>1. events \in Seq(1 .. MaxProfiles)
  BY TypesFacts
<1>2. n \in Nat \ {0}
  BY <1>1, LenProperties, EmptySeq
<1>3. /\ rest \in Seq(1 .. MaxProfiles) /\ Len(rest) = n - 1 /\ Head(events) = events[1]
      /\ \A i \in 1 .. n - 1 : rest[i] = events[i + 1]
  <2>1. events # <<>>
    OBVIOUS
  <2> HIDE DEF events
  <2>2. Head(events) = events[1]
    BY <1>1, <2>1
  <2>3. /\ rest \in Seq(1 .. MaxProfiles) /\ Len(rest) = n - 1
        /\ \A i \in 1 .. Len(rest) : rest[i] = events[i + 1]
    BY <1>1, <2>1, HeadTailProperties
  <2> HIDE DEF rest, n
  <2> QED
    BY <2>2, <2>3
<1>4. rest = <<>> <=> Len(rest) = 0
  BY <1>3, EmptySeq
<1> HIDE DEF rest, n, events
<1>5. CASE n = 1
  BY <1>3, <1>4, <1>5 DEF n, rest, events
<1>6. CASE n > 1
  <2>1. n - 1 \in 1 .. n - 1 /\ (n - 1) + 1 = n /\ n - 1 # 0
    BY <1>2, <1>6
  <2>2. rest # <<>> /\ rest[Len(rest)] = events[n]
    BY <1>3, <1>4, <2>1
  <2> QED
    BY <2>2 DEF n, rest, events
<1> QED
  BY <1>2, <1>5, <1>6

LEMMA HandleMenu ==
    ASSUME Types, Formed, Menu, HandleTrayEvents, ~ghost'.renamed
    PROVE  Menu'
<1>1. /\ pc = "frame" /\ pc' = "draw" /\ tray' \in TrayTypes /\ config \in Bounded
      /\ tray'.names = Synced.names /\ tray'.selected = Synced.selected
      /\ tray'.events = IF tray.events = <<>> THEN <<>> ELSE Tail(tray.events)
      /\ last'.current = config.current /\ last'.count = Len(config.profiles)
      /\ config'.profiles = config.profiles
  BY HandleFacts DEF Types
<1>2. ~ghost.renamed
  BY HistoryGrows DEF Next
<1>3. /\ Synced.names = NameSeq(config.profiles) /\ Synced.selected <= Len(Synced.names)
      /\ Stale => Shows(Synced)
      /\ ~Stale => Synced.names = tray.names /\ Synced.selected = tray.selected
      /\ Synced \in TrayTypes
  BY <1>1, <1>2, SyncedMenu, SyncedFacts
<1>4. ~CountChanged' /\ (CurrentChanged' <=> config'.current # config.current)
  BY <1>1 DEF CountChanged, CurrentChanged
<1>5. tray'.names = NameSeq(config'.profiles)
  BY <1>1, <1>3
<1>6. ~ghost'.switched => config' = config
  BY HandleFacts
<1>7. Shows(tray)' <=> tray'.names[tray'.selected] = config'.current
  <2>1. tray'.names \in Seq(Name) /\ tray'.selected \in 1 .. MaxProfiles
        /\ tray'.selected <= Len(tray'.names)
    BY <1>1, <1>3 DEF TrayTypes
  <2>2. Len(tray'.names) \in Nat
    BY <2>1, ListFacts
  <2> QED
    BY <2>1, <2>2 DEF Shows
<1>8. Shows(Synced) <=> tray'.names[tray'.selected] = config.current
  BY <1>1, <1>3, ShowsFacts
<1>9. Shows(Synced) => Stale' \/ Shows(tray)'
  <2>1. CASE config'.current = config.current
    BY <1>7, <1>8, <2>1
  <2>2. CASE config'.current # config.current
    BY <1>4, <2>2 DEF Stale
  <2> QED
    BY <2>1, <2>2
<1>10. ~Shows(Synced) =>
          \/ ghost'.crossed \/ Shows(tray)'
          \/ tray'.events # <<>> /\ tray'.selected = tray'.events[Len(tray'.events)]
  <2> SUFFICES ASSUME ~Shows(Synced), ~ghost'.crossed
               PROVE  \/ Shows(tray)'
                      \/ tray'.events # <<>> /\ tray'.selected = tray'.events[Len(tray'.events)]
    OBVIOUS
  <2>1. /\ ~Stale /\ ~ghost.crossed /\ tray'.names = tray.names /\ tray'.selected = tray.selected
    BY <1>1, <1>3, HandleFacts
  <2>2. tray.selected <= Len(tray.names) /\ tray \in TrayTypes
    BY <1>1, <1>2 DEF Menu, Types
  <2>3. ~Shows(tray)
    BY <1>8, <2>1, <2>2, ShowsFacts
  <2>4. tray.events # <<>> /\ tray.selected = tray.events[Len(tray.events)]
    BY <1>1, <1>2, <2>1, <2>3 DEF Menu
  <2>5. CASE Tail(tray.events) # <<>>
    BY <1>1, <2>1, <2>4, <2>5, LastEvent
  <2>6. CASE Tail(tray.events) = <<>>
    <3>1. Head(tray.events) = tray.selected
      BY <2>4, <2>6, LastEvent
    <3>2. tray.selected \in DOMAIN config.profiles
          /\ tray'.names[tray.selected] = config.profiles[tray.selected].name
      <4>1. tray.selected \in DOMAIN tray.names
        BY <2>2, ShowsFacts
      <4>2. config.profiles \in Seq(Profiles)
        BY <1>1, ConfigFacts
      <4> QED
        BY <1>1, <1>3, <2>1, <4>1, <4>2, NameSeqFacts
    <3>3. Len(config.profiles) \in Nat /\ DOMAIN config.profiles = 1 .. Len(config.profiles)
      BY <1>1, ConfigFacts
    <3>4. tray.selected <= Len(config.profiles)
      BY <3>2, <3>3
    <3>5. config'.current = config.profiles[tray.selected].name
      <4>1. config' = [config EXCEPT !.current = config.profiles[tray.selected].name]
        BY <2>4, <3>1, <3>4 DEF HandleTrayEvents
      <4> QED
        BY <1>1, <4>1 DEF Bounded, Configs
    <3> QED
      BY <1>7, <2>1, <3>2, <3>5
  <2> QED
    BY <2>5, <2>6
<1> QED
  BY <1>1, <1>3, <1>4, <1>5, <1>6, <1>9, <1>10 DEF Menu

\* Nothing that the menu is about changes, and no frame is under way after.
LEMMA MenuStays ==
    ASSUME Menu, pc # "down", pc' # "draw", ghost'.renamed = ghost.renamed,
           ghost'.crossed = ghost.crossed, UNCHANGED <<config, tray, last>>
    PROVE  Menu'
<1>1. /\ CountChanged' = CountChanged /\ CurrentChanged' = CurrentChanged
      /\ Shows(tray)' = Shows(tray)
      /\ NameSeq(config.profiles)' = NameSeq(config.profiles)
  BY DEF CountChanged, CurrentChanged, Shows, NameSeq
<1> QED
  BY <1>1 DEF Menu, Stale

LEMMA StepMenu ==
    ASSUME Types, Formed, Menu, [Next]_vars
    PROVE  Menu'
<1> SUFFICES ASSUME ~ghost'.renamed, pc' # "down" PROVE Menu'
  BY DEF Menu
<1>1. /\ ~ghost.renamed /\ ghost \in GhostTypes /\ config \in Bounded /\ tray \in TrayTypes
      /\ WellFormed(config)
  BY HistoryGrows DEF Types, Formed
<1>2. CASE Start
  <2>1. /\ pc' # "draw" /\ tray' \in TrayTypes /\ tray'.names = NameSeq(config'.profiles)
        /\ tray'.selected = (IF Position(config'.profiles, config'.current) = 0 THEN 1
                             ELSE Position(config'.profiles, config'.current))
        /\ last'.current = config'.current /\ last'.count = Len(config'.profiles)
        /\ config' \in Bounded
    BY <1>2, StartFacts
  <2>2. WellFormed(config')
    BY <1>2, StepFormed DEF Formed, Next
  <2>3. PICK k \in DOMAIN config'.profiles :
           /\ k = Position(config'.profiles, config'.current) /\ k # 0
           /\ config'.profiles[k].name = config'.current
    BY <2>1, <2>2, CurrentExists
  <2>4. /\ config'.profiles \in Seq(Profiles) /\ Len(config'.profiles) \in Nat
        /\ DOMAIN config'.profiles = 1 .. Len(config'.profiles)
    BY <2>1, ConfigFacts
  <2>5. /\ tray'.selected = k /\ k <= Len(tray'.names) /\ tray'.names[k] = config'.current
        /\ Len(tray'.names) \in Nat
    BY <2>1, <2>3, <2>4, NameSeqFacts
  <2>6. k \in Nat
    BY <2>3, <2>4
  <2>7. Shows(tray)'
    BY <2>5, <2>6 DEF Shows
  <2> QED
    BY <2>1, <2>5, <2>7 DEF Menu, CountChanged
<1>3. CASE Truncate
  <2>1. pc = "write" /\ pc' = "write" /\ ghost' = ghost /\ UNCHANGED <<config, tray, last>>
    BY <1>3, TruncateFacts
  <2> QED
    BY <2>1, MenuStays
<1>4. CASE Write
  <2>1. /\ pc = "write" /\ pc' \in {"frame", "write"} /\ UNCHANGED <<config, tray, last>>
        /\ ghost' = IF Head(todo) = "profiles" THEN [ghost EXCEPT !.durable = ghost.owned]
                                               ELSE ghost
    BY <1>4, WriteFacts
  <2>2. ghost'.renamed = ghost.renamed /\ ghost'.crossed = ghost.crossed
    BY <1>1, <2>1 DEF GhostTypes
  <2> QED
    BY <2>1, <2>2, MenuStays
<1>5. CASE WriteFails
  <2>1. /\ pc = "write" /\ pc' \in {"frame", "write"} /\ UNCHANGED <<config, tray, last>>
        /\ ghost' = [ghost EXCEPT !.harmed = TRUE]
    BY <1>5, FailsFacts
  <2>2. ghost'.renamed = ghost.renamed /\ ghost'.crossed = ghost.crossed
    BY <1>1, <2>1 DEF GhostTypes
  <2> QED
    BY <2>1, <2>2, MenuStays
<1>6. CASE GamepadInfo \/ DrawNothing
  <2>1. /\ pc \in {"frame", "draw"} /\ pc' \in {"frame", "write"}
        /\ UNCHANGED <<config, tray, last, ghost>>
    BY <1>6 DEF GamepadInfo, DrawNothing
  <2> QED
    BY <2>1, MenuStays
<1>7. CASE HandleTrayEvents
  BY <1>7, HandleMenu
<1>8. CASE PageAction
  <2>1. /\ pc = "draw" /\ pc' # "draw" /\ tray' = tray /\ last' = last /\ config' \in Bounded
    BY <1>8, PageTypes
  <2>2. /\ ~CountChanged /\ (~ghost.switched => ~CurrentChanged)
        /\ tray.names = NameSeq(config.profiles) /\ tray.selected <= Len(tray.names)
        /\ \/ ghost.crossed \/ Stale \/ Shows(tray)
           \/ tray.events # <<>> /\ tray.selected = tray.events[Len(tray.events)]
    BY <1>1, <2>1 DEF Menu
  <2>3. CASE Len(config'.profiles) # Len(config.profiles)
    <3>1. CountChanged'
      BY <2>1, <2>2, <2>3 DEF CountChanged
    <3> QED
      BY <2>1, <2>2, <3>1 DEF Menu, Stale
  <2>4. CASE /\ NameSeq(config'.profiles) = NameSeq(config.profiles)
             /\ Len(config'.profiles) = Len(config.profiles)
             /\ config'.current = config.current
             /\ ghost'.crossed = ghost.crossed
    <3>1. /\ CountChanged' = CountChanged /\ CurrentChanged' = CurrentChanged
          /\ Shows(tray)' = Shows(tray)
      BY <2>1, <2>4 DEF CountChanged, CurrentChanged, Shows
    <3> QED
      BY <2>1, <2>2, <2>4, <3>1 DEF Menu, Stale
  <2>5. CASE /\ config'.profiles = config.profiles /\ config'.current # config.current
             /\ ghost'.crossed = (ghost.crossed \/ ghost.switched)
    <3>1. ~CountChanged' /\ (~ghost.switched => CurrentChanged')
      BY <2>1, <2>2, <2>5 DEF CountChanged, CurrentChanged
    <3> QED
      BY <2>1, <2>2, <2>5, <3>1 DEF Menu, Stale
  <2>6. ASSUME NEW i \in DOMAIN config.profiles, SwitchProfile(i)
        PROVE  /\ config'.profiles = config.profiles /\ config'.current # config.current
               /\ ghost'.crossed = (ghost.crossed \/ ghost.switched)
    <3>1. /\ config'.profiles = config.profiles /\ config'.current # config.current
          /\ ghost' = [ghost EXCEPT !.crossed = ghost.crossed \/ ghost.switched]
      BY <2>6, SwitchFacts
    <3> QED
      BY <1>1, <3>1 DEF GhostTypes
  <2>7. ASSUME \/ \E i \in DOMAIN config.profiles : ResetProfile(i)
               \/ EditProfile \/ ResetTuning \/ SaveTuning \/ ChangeSettings
        PROVE  config'.current = config.current /\ ghost'.crossed = ghost.crossed
    <3>1. ASSUME NEW i \in DOMAIN config.profiles, ResetProfile(i)
          PROVE  config'.current = config.current /\ ghost' = ghost
      BY <3>1, ResetFacts
    <3>2. CASE EditProfile
      <4>1. config'.current = config.current /\ ghost' = [ghost EXCEPT !.dirty = TRUE]
        BY <3>2, EditFacts
      <4> QED
        BY <1>1, <4>1 DEF GhostTypes
    <3>3. CASE ResetTuning
      <4>1. /\ config'.current = config.current
            /\ ghost' = [ghost EXCEPT !.dirty = TRUE,
                                      !.renamed = ghost.renamed \/ config.current # Standard]
        BY <3>3, ResetTuningFacts
      <4> QED
        BY <1>1, <4>1 DEF GhostTypes
    <3>4. CASE SaveTuning
      <4>1. config' = config /\ ghost' = [ghost EXCEPT !.dirty = FALSE]
        BY <3>4, SaveFacts
      <4> QED
        BY <1>1, <4>1 DEF GhostTypes
    <3>5. CASE ChangeSettings
      BY <3>5 DEF ChangeSettings
    <3> QED
      BY <2>7, <3>1, <3>2, <3>3, <3>4, <3>5
  <2>8. ASSUME \/ \E i \in DOMAIN config.profiles : DeleteProfile(i)
               \/ \E name \in Names : CreateProfile(name)
        PROVE  Len(config'.profiles) # Len(config.profiles)
    <3>1. ASSUME NEW list \in Seq(Profiles), NEW n \in Nat, n = Len(list)
          PROVE  n - 1 # n /\ n + 1 # n
      OBVIOUS
    <3>2. config.profiles \in Seq(Profiles) /\ Len(config.profiles) \in Nat
      BY <1>1, ConfigFacts
    <3>3. ASSUME NEW i \in DOMAIN config.profiles, DeleteProfile(i)
          PROVE  Len(config'.profiles) = Len(config.profiles) - 1
      <4>1. config'.profiles = RemoveAt(config.profiles, i)
        BY <3>3, DeleteFacts
      <4> QED
        BY <3>2, <4>1, RemoveFacts
    <3>4. ASSUME NEW name \in Names, CreateProfile(name)
          PROVE  Len(config'.profiles) = Len(config.profiles) + 1
      <4>1. PICK p \in Profiles : config'.profiles = Append(config.profiles, p)
        BY <3>4, CreateFacts
      <4> QED
        BY <3>2, <4>1, AppendProperties
    <3> QED
      BY <2>8, <3>2, <3>3, <3>4
  <2>9. CASE Len(config'.profiles) = Len(config.profiles)
    <3>1. NameSeq(config'.profiles) = NameSeq(config.profiles)
      BY <1>1, <1>8, <2>9, PageNames
    <3>2. \/ \E i \in DOMAIN config.profiles : SwitchProfile(i) \/ ResetProfile(i)
          \/ EditProfile \/ ResetTuning \/ SaveTuning \/ ChangeSettings
      BY <1>8, <2>8, <2>9 DEF PageAction
    <3> QED
      BY <2>4, <2>5, <2>6, <2>7, <2>9, <3>1, <3>2
  <2> QED
    BY <2>3, <2>9
<1>9. ASSUME NEW i \in DOMAIN tray.names, TrayClick(i) PROVE Menu'
  <2>1. /\ pc # "down" /\ tray'.names = tray.names /\ tray'.selected = i /\ i <= Len(tray.names)
        /\ tray'.events # <<>> /\ tray'.events[Len(tray'.events)] = i
        /\ UNCHANGED <<pc, config, last, ghost>>
    BY <1>9, ClickFacts
  <2>2. CountChanged' = CountChanged /\ CurrentChanged' = CurrentChanged
    BY <2>1 DEF CountChanged, CurrentChanged
  <2> QED
    BY <1>1, <2>1, <2>2 DEF Menu
<1>10. ~(Exit \/ Crash)
  BY ExitFacts, CrashFacts, DownFacts
<1>11. CASE UNCHANGED vars
  <2>1. /\ CountChanged' = CountChanged /\ CurrentChanged' = CurrentChanged
        /\ Shows(tray)' = Shows(tray)
        /\ NameSeq(config.profiles)' = NameSeq(config.profiles)
        /\ UNCHANGED <<pc, tray, ghost>>
    BY <1>11 DEF vars, CountChanged, CurrentChanged, Shows, NameSeq
  <2> QED
    BY <2>1 DEF Menu, Stale
<1> QED
  BY <1>2, <1>3, <1>4, <1>5, <1>6, <1>7, <1>8, <1>9, <1>10, <1>11 DEF Next

-----------------------------------------------------------------------------
(* The theorems *)

LEMMA InitApp ==
    ASSUME GuiAppConstants, Init
    PROVE  AppInv
<1>1. pc = "down"
  BY DEF Init
<1> QED
  BY <1>1, InitFacts DEF AppInv, Applied, Menu

LEMMA StepApp ==
    ASSUME AppInv, [Next]_vars
    PROVE  AppInv'
BY StepTypes, StepFormed, StepApplied, StepKept, StepMenu DEF AppInv

LEMMA AppTypesSafe ==
    ASSUME AppInv
    PROVE  TypeOK
<1>1. Types
  BY DEF AppInv
<1>2. config.profiles \in Seq(Profiles) /\ config.current \in Name
      /\ tray.selected \in 1 .. MaxProfiles /\ Len(tray.events) <= MaxClicks
  BY <1>1, TypesFacts
<1> QED
  BY <1>1, <1>2 DEF Types, TypeOK, Name

LEMMA AppKept ==
    ASSUME AppInv
    PROVE  ProfilesKept
<1> SUFFICES ASSUME ~ghost.harmed, ~ghost.renamed
             PROVE  /\ pc # "down" => NamesIn(config.profiles) = ghost.owned \cup {Standard}
                    /\ pc # "write" => NamesOnDisk = ghost.owned \cup {Standard}
  BY DEF ProfilesKept
<1>1. /\ \A f \in DOMAIN files : files[f] = Torn => pc = "write" /\ f = Head(todo)
      /\ pc # "down" => NamesIn(config.profiles) = ghost.owned \cup {Standard}
      /\ files.profiles # Torn => NamesOnDisk = ghost.durable \cup {Standard}
      /\ todo \in {<<>>, <<"settings">>} => ghost.owned = ghost.durable
  BY DEF AppInv, Kept
<1>2. (pc = "write" <=> todo # <<>>) /\ DOMAIN files = {"settings", "profiles", "legacy"}
  BY DEF AppInv, Types, FileTypes
<1> QED
  BY <1>1, <1>2

LEMMA AppApplied ==
    ASSUME AppInv
    PROVE  CurrentIsApplied
<1> SUFFICES ASSUME pc \in {"frame", "draw"}, ~ghost.renamed
             PROVE  /\ CurrentIndex # 0
                    /\ applied.name = config.current
                    /\ ghost.dirty \/ applied = config.profiles[CurrentIndex]
  BY DEF CurrentIsApplied
<1>1. applied.name = config.current /\ WellFormed(config) /\ config \in Bounded
  BY DEF AppInv, Applied, Formed, Types
<1>2. PICK i \in DOMAIN config.profiles :
         /\ config.profiles[i].name = config.current
         /\ ghost.dirty \/ applied = config.profiles[i]
  BY DEF AppInv, Applied
<1> QED
  BY <1>1, <1>2, CurrentExists DEF CurrentIndex

LEMMA AppMenu ==
    ASSUME AppInv
    PROVE  TrayAgrees
BY DEF AppInv, Menu, TrayAgrees, Stale

-----------------------------------------------------------------------------
(* The curves: FanCurve *)

CurvePoint == (0 .. F!Full) \X (0 .. F!Full)

LEMMA CurveFullFacts == \A x : x \in 0 .. F!Full <=> x \in Nat /\ x <= 100
BY DEF F!Full

\* A point of a curve: two numbers of at most 100.
LEMMA CurvePointFacts ==
    ASSUME NEW curve \in F!Curves
    PROVE  /\ Len(curve) \in Nat /\ DOMAIN curve = 1 .. Len(curve)
           /\ \A i \in DOMAIN curve :
                 /\ curve[i] \in CurvePoint /\ i \in Nat /\ 1 <= i /\ i <= Len(curve)
                 /\ F!Temp(curve[i]) \in Nat /\ F!Temp(curve[i]) <= F!Full
                 /\ F!Temp(curve[i]) \in 0 .. F!Full
                 /\ F!Speed(curve[i]) \in Nat /\ F!Speed(curve[i]) <= F!Full
                 /\ F!Speed(curve[i]) \in 0 .. F!Full
           /\ curve = <<>> <=> Len(curve) = 0
<1>1. curve \in Seq(CurvePoint)
  BY DEF F!Curves, CurvePoint
<1>2. \A p \in CurvePoint : p[1] \in 0 .. 100 /\ p[2] \in 0 .. 100
  BY DEF CurvePoint, F!Full
<1>3. /\ Len(curve) \in Nat /\ DOMAIN curve = 1 .. Len(curve)
      /\ \A i \in DOMAIN curve : curve[i] \in CurvePoint /\ i \in Nat /\ 1 <= i /\ i <= Len(curve)
      /\ curve = <<>> <=> Len(curve) = 0
  BY <1>1, ListFacts
<1>4. \A i \in DOMAIN curve : curve[i][1] \in 0 .. 100 /\ curve[i][2] \in 0 .. 100
  BY <1>2, <1>3
<1>5. \A i \in DOMAIN curve :
         /\ F!Temp(curve[i]) \in Nat /\ F!Temp(curve[i]) <= F!Full /\ F!Temp(curve[i]) \in 0 .. F!Full
         /\ F!Speed(curve[i]) \in Nat /\ F!Speed(curve[i]) <= F!Full
         /\ F!Speed(curve[i]) \in 0 .. F!Full
  BY <1>4 DEF F!Temp, F!Speed, F!Full
<1> QED
  BY <1>3, <1>5

-----------------------------------------------------------------------------
(* Sorting *)

\* The order of the points is strict and total.
LEMMA CurveBeforeFacts ==
    ASSUME NEW curve \in F!Curves, NEW i \in DOMAIN curve, NEW j \in DOMAIN curve
    PROVE  /\ ~F!Before(curve, i, i)
           /\ i # j => F!Before(curve, i, j) \/ F!Before(curve, j, i)
           /\ \A k \in DOMAIN curve :
                 F!Before(curve, k, i) /\ F!Before(curve, i, j) => F!Before(curve, k, j)
           /\ F!Temp(curve[i]) < F!Temp(curve[j]) => F!Before(curve, i, j)
BY CurvePointFacts DEF F!Before

\* The rank of a point is a position, and later points have higher ranks.
LEMMA CurveRankFacts ==
    ASSUME NEW curve \in F!Curves, NEW i \in DOMAIN curve
    PROVE  /\ F!Rank(curve, i) \in DOMAIN curve
           /\ \A j \in DOMAIN curve : F!Before(curve, i, j) => F!Rank(curve, i) < F!Rank(curve, j)
<1> DEFINE n == Len(curve)
           D == DOMAIN curve
           S(j) == {k \in D : F!Before(curve, k, j)}
<1>1. n \in Nat /\ D = 1 .. n /\ n >= 1
  BY CurvePointFacts
<1>2. IsFiniteSet(D) /\ Cardinality(D) = n
  <2>1. 1 \in Int /\ n \in Int /\ ~(1 > n) /\ n - 1 + 1 = n
    BY <1>1
  <2> HIDE DEF n, D
  <2> QED
    BY <1>1, <2>1, FS_Interval
<1>3. \A j \in D : F!Rank(curve, j) = Cardinality(S(j)) + 1
  BY DEF F!Rank, F!Cardinality, Cardinality
<1>4. \A j \in D : IsFiniteSet(S(j)) /\ Cardinality(S(j)) \in Nat
  <2> TAKE j \in D
  <2>1. S(j) \in SUBSET D
    OBVIOUS
  <2> QED
    BY <1>2, <2>1, FS_Subset, FS_CardinalityType
<1>5. F!Rank(curve, i) \in D
  <2>1. S(i) \in SUBSET D /\ S(i) # D
    BY CurveBeforeFacts
  <2>2. Cardinality(S(i)) <= n /\ Cardinality(S(i)) # n
    BY <1>2, <2>1, FS_Subset
  <2> QED
    BY <1>1, <1>3, <1>4, <2>2
<1>6. ASSUME NEW j \in D, F!Before(curve, i, j) PROVE F!Rank(curve, i) < F!Rank(curve, j)
  <2>1. S(i) \subseteq S(j)
    BY <1>6, CurveBeforeFacts
  <2>2. i \in S(j) /\ i \notin S(i)
    BY <1>6, CurveBeforeFacts
  <2>3. S(i) \in SUBSET S(j) /\ S(i) # S(j)
    BY <2>1, <2>2
  <2> HIDE DEF S
  <2>4. Cardinality(S(i)) <= Cardinality(S(j)) /\ Cardinality(S(i)) # Cardinality(S(j))
    BY <1>4, <2>3, FS_Subset
  <2> QED
    BY <1>3, <1>4, <2>4
<1> QED
  BY <1>5, <1>6

\* Every position is the rank of one point.
LEMMA CurveRankOnto ==
    ASSUME NEW curve \in F!Curves, NEW k \in DOMAIN curve
    PROVE  \E j \in DOMAIN curve : F!Rank(curve, j) = k
<1> DEFINE n == Len(curve)
           D == DOMAIN curve
           rank == [j \in D |-> F!Rank(curve, j)]
<1>1. n \in Nat /\ D = 1 .. n
  BY CurvePointFacts
<1>2. IsFiniteSet(D)
  <2>1. 1 \in Int /\ n \in Int
    BY <1>1
  <2> HIDE DEF n, D
  <2> QED
    BY <1>1, <2>1, FS_Interval
<1>3. rank \in [D -> D]
  BY CurveRankFacts
<1>4. \A i, j \in D : rank[i] = rank[j] => i = j
  <2> SUFFICES ASSUME NEW i \in D, NEW j \in D, i # j PROVE F!Rank(curve, i) # F!Rank(curve, j)
    OBVIOUS
  <2>1. F!Before(curve, i, j) \/ F!Before(curve, j, i)
    BY CurveBeforeFacts
  <2>2. F!Rank(curve, i) < F!Rank(curve, j) \/ F!Rank(curve, j) < F!Rank(curve, i)
    BY <2>1, CurveRankFacts
  <2>3. F!Rank(curve, i) \in D /\ F!Rank(curve, j) \in D
    BY CurveRankFacts
  <2>4. F!Rank(curve, i) \in Nat /\ F!Rank(curve, j) \in Nat
    BY <1>1, <2>3
  <2> QED
    BY <2>2, <2>4
<1> HIDE DEF D
<1>5. rank \in Injection(D, D)
  BY <1>3, <1>4 DEF Injection, IsInjective
<1>6. rank \in Surjection(D, D)
  BY <1>2, <1>5, FS_Injection
<1> QED
  BY <1>6 DEF Surjection, D

\* The points of a sorted curve are those of the curve, by rising temperature.
LEMMA CurveSortedFacts ==
    ASSUME NEW curve \in F!Curves
    PROVE  /\ F!Sorted(curve) \in F!Curves /\ Len(F!Sorted(curve)) = Len(curve)
           /\ DOMAIN F!Sorted(curve) = DOMAIN curve
           /\ \A k \in DOMAIN curve : \E i \in DOMAIN curve : F!Sorted(curve)[k] = curve[i]
           /\ \A i \in DOMAIN curve : \E k \in DOMAIN curve : F!Sorted(curve)[k] = curve[i]
           /\ \A k, m \in DOMAIN curve :
                 k <= m => F!Temp(F!Sorted(curve)[k]) <= F!Temp(F!Sorted(curve)[m])
<1> DEFINE n == Len(curve)
           D == DOMAIN curve
           at(k) == CHOOSE j \in D : F!Rank(curve, j) = k
<1>1. n \in Nat /\ D = 1 .. n /\ \A i \in D : curve[i] \in CurvePoint
  BY CurvePointFacts
<1>2. \A k \in D : at(k) \in D /\ F!Rank(curve, at(k)) = k
  BY CurveRankOnto
<1>3. F!Sorted(curve) = [k \in D |-> curve[at(k)]]
  BY DEF F!Sorted
<1> HIDE DEF at
<1>4. F!Sorted(curve) \in [1 .. n -> CurvePoint]
  BY <1>1, <1>2, <1>3
<1>5. F!Sorted(curve) \in F!Curves /\ Len(F!Sorted(curve)) = n /\ DOMAIN F!Sorted(curve) = D
  <2>1. F!Sorted(curve) \in Seq(CurvePoint)
    BY <1>1, <1>4, SeqDef
  <2>2. DOMAIN F!Sorted(curve) = 1 .. n
    BY <1>4
  <2> HIDE DEF n, D
  <2>3. Len(F!Sorted(curve)) = n
    BY <1>1, <2>1, <2>2, LenProperties
  <2> QED
    BY <1>1, <2>1, <2>2, <2>3 DEF F!Curves, CurvePoint
<1>6. \A k \in D : \E i \in D : F!Sorted(curve)[k] = curve[i]
  BY <1>2, <1>3
<1>7. ASSUME NEW i \in D PROVE \E k \in D : F!Sorted(curve)[k] = curve[i]
  <2>1. F!Rank(curve, i) \in D
    BY CurveRankFacts
  <2>2. at(F!Rank(curve, i)) = i
    <3>1. at(F!Rank(curve, i)) \in D /\ F!Rank(curve, at(F!Rank(curve, i))) = F!Rank(curve, i)
      BY <1>2, <2>1
    <3>2. ASSUME NEW j \in D, j # i PROVE F!Rank(curve, j) # F!Rank(curve, i)
      <4>1. F!Before(curve, i, j) \/ F!Before(curve, j, i)
        BY <3>2, CurveBeforeFacts
      <4>2. F!Rank(curve, i) < F!Rank(curve, j) \/ F!Rank(curve, j) < F!Rank(curve, i)
        BY <4>1, CurveRankFacts
      <4>3. F!Rank(curve, i) \in D /\ F!Rank(curve, j) \in D
        BY CurveRankFacts
      <4>4. F!Rank(curve, i) \in Nat /\ F!Rank(curve, j) \in Nat
        BY <1>1, <4>3
      <4> QED
        BY <4>2, <4>4
    <3> QED
      BY <3>1, <3>2
  <2> QED
    BY <1>3, <2>1, <2>2
<1>8. ASSUME NEW k \in D, NEW m \in D, k <= m
      PROVE  F!Temp(F!Sorted(curve)[k]) <= F!Temp(F!Sorted(curve)[m])
  <2>1. /\ at(k) \in D /\ at(m) \in D
        /\ F!Rank(curve, at(k)) = k /\ F!Rank(curve, at(m)) = m
    BY <1>2
  <2>2. ~F!Before(curve, at(m), at(k))
    <3>1. F!Before(curve, at(m), at(k)) => m < k
      BY <2>1, CurveRankFacts
    <3>2. k \in Nat /\ m \in Nat
      BY <1>1
    <3> QED
      BY <1>8, <3>1, <3>2
  <2>3. ~(F!Temp(curve[at(m)]) < F!Temp(curve[at(k)]))
    BY <2>1, <2>2, CurveBeforeFacts
  <2>4. F!Temp(curve[at(m)]) \in Nat /\ F!Temp(curve[at(k)]) \in Nat
    BY <2>1, CurvePointFacts
  <2> QED
    BY <1>3, <2>3, <2>4
<1> QED
  BY <1>5, <1>6, <1>7, <1>8

-----------------------------------------------------------------------------
(* Interpolation *)

LEMMA CurveDivision ==
    ASSUME NEW a \in Nat, NEW d \in Nat, d > 0, NEW u \in Nat, NEW v \in Nat,
           u * d <= a, a < (v + 1) * d
    PROVE  u <= a \div d /\ a \div d <= v /\ a \div d \in Nat
<1>1. u <= a \div d
  OBVIOUS
<1>2. a \div d <= v
  OBVIOUS
<1>3. a \div d \in Nat
  OBVIOUS
<1> QED
  BY <1>1, <1>2, <1>3

LEMMA CurveProduct ==
    ASSUME NEW a \in Nat, NEW b \in Nat, NEW c \in Nat, a <= b
    PROVE  a * c <= b * c /\ a * c \in Nat /\ b * c \in Nat
OBVIOUS

\* Between two points the value lies between their speeds, and at each of them
\* it is the point's.
LEMMA CurveValueFacts ==
    ASSUME NEW p \in CurvePoint, NEW q \in CurvePoint, F!Temp(p) < F!Temp(q), NEW t \in Nat,
           F!Temp(p) <= t, t <= F!Temp(q), NEW rounded \in BOOLEAN
    PROVE  /\ F!Value(p, q, t, rounded) \in Nat
           /\ \/ F!Speed(p) <= F!Value(p, q, t, rounded) /\ F!Value(p, q, t, rounded) <= F!Speed(q)
              \/ F!Speed(q) <= F!Value(p, q, t, rounded) /\ F!Value(p, q, t, rounded) <= F!Speed(p)
           /\ t = F!Temp(p) => F!Value(p, q, t, rounded) = F!Speed(p)
           /\ t = F!Temp(q) => F!Value(p, q, t, rounded) = F!Speed(q)
<1> DEFINE a == F!Speed(p)
           b == F!Speed(q)
           run == F!Temp(q) - F!Temp(p)
           x == t - F!Temp(p)
           half == IF rounded THEN run ELSE 0
           part == F!Part(p, q, t)
           d == 2 * run
<1>1. /\ a \in Nat /\ b \in Nat /\ run \in Nat /\ run > 0 /\ x \in Nat /\ x <= run
      /\ half \in Nat /\ half <= run
      /\ (t = F!Temp(p) => x = 0) /\ (t = F!Temp(q) => x = run)
  <2>1. p[1] \in Nat /\ p[2] \in Nat /\ q[1] \in Nat /\ q[2] \in Nat
    BY DEF CurvePoint, F!Full
  <2> QED
    BY <2>1 DEF F!Temp, F!Speed
<1>2. F!Value(p, q, t, rounded) = (2 * part + half) \div d
  BY DEF F!Value
<1>3. part = IF b >= a THEN a * run + x * F!Diff(a, b) ELSE a * run - x * F!Diff(a, b)
  BY DEF F!Part
<1> HIDE DEF a, b, run, x, half, part, d
<1>4. ASSUME NEW low \in Nat, NEW high \in Nat, low * run <= part, part <= high * run,
             part \in Nat
      PROVE  /\ low <= F!Value(p, q, t, rounded) /\ F!Value(p, q, t, rounded) <= high
             /\ F!Value(p, q, t, rounded) \in Nat
  <2>1. low * d = 2 * (low * run) /\ (high + 1) * d = 2 * (high * run) + 2 * run
    BY <1>1 DEF d
  <2>2. d \in Nat /\ d > 0 /\ low * run \in Nat /\ high * run \in Nat
    BY <1>1 DEF d
  <2>3. 2 * part + half \in Nat /\ low * d <= 2 * part + half
        /\ 2 * part + half < (high + 1) * d
    BY <1>1, <1>4, <2>1, <2>2
  <2> QED
    BY <1>2, <2>2, <2>3, CurveDivision
<1>5. CASE b >= a
  <2> DEFINE rise == b - a
  <2>1. rise \in Nat /\ F!Diff(a, b) = rise /\ b = a + rise
    BY <1>1, <1>5 DEF F!Diff
  <2>2. part = a * run + x * rise
    BY <1>3, <1>5, <2>1
  <2> HIDE DEF rise
  <2>3. /\ x * rise \in Nat /\ x * rise <= run * rise /\ a * run \in Nat
        /\ b * run = a * run + run * rise
        /\ (x = 0 => x * rise = 0) /\ (x = run => x * rise = run * rise)
        /\ run * rise \in Nat
    BY <1>1, <2>1, CurveProduct
  <2> DEFINE y == a * run
             z == b * run
             u == x * rise
             w == run * rise
  <2>4. /\ y \in Nat /\ u \in Nat /\ w \in Nat /\ u <= w /\ z = y + w /\ part = y + u
        /\ (x = 0 => u = 0) /\ (x = run => u = w)
    BY <2>2, <2>3
  <2> HIDE DEF y, z, u, w
  <2>5. part \in Nat /\ y <= part /\ part <= z /\ y <= y /\ z <= z
        /\ (x = 0 => part = y) /\ (x = run => part = z)
    BY <2>4
  <2>6. /\ a <= F!Value(p, q, t, rounded) /\ F!Value(p, q, t, rounded) <= b
        /\ F!Value(p, q, t, rounded) \in Nat
    BY <1>1, <1>4, <2>5 DEF y, z
  <2>7. x = 0 => F!Value(p, q, t, rounded) <= a
    BY <1>1, <1>4, <2>5 DEF y, z
  <2>8. x = run => b <= F!Value(p, q, t, rounded)
    BY <1>1, <1>4, <2>5 DEF y, z
  <2> QED
    BY <1>1, <2>6, <2>7, <2>8 DEF a, b
<1>6. CASE b < a
  <2> DEFINE fall == a - b
  <2>1. fall \in Nat /\ F!Diff(a, b) = fall /\ a = b + fall
    BY <1>1, <1>6 DEF F!Diff
  <2>2. part = a * run - x * fall
    BY <1>1, <1>3, <1>6, <2>1
  <2> HIDE DEF fall
  <2>3. /\ x * fall \in Nat /\ x * fall <= run * fall /\ b * run \in Nat
        /\ a * run = b * run + run * fall /\ a * run \in Nat
        /\ (x = 0 => x * fall = 0) /\ (x = run => x * fall = run * fall)
        /\ run * fall \in Nat
    BY <1>1, <2>1, CurveProduct
  <2> DEFINE y == b * run
             z == a * run
             u == x * fall
             w == run * fall
  <2>4. /\ y \in Nat /\ u \in Nat /\ w \in Nat /\ u <= w /\ z = y + w /\ part = z - u
        /\ (x = 0 => u = 0) /\ (x = run => u = w)
    BY <2>2, <2>3
  <2> HIDE DEF y, z, u, w
  <2>5. part \in Nat /\ y <= part /\ part <= z /\ y <= y /\ z <= z
        /\ (x = 0 => part = z) /\ (x = run => part = y)
    BY <2>4
  <2>6. /\ b <= F!Value(p, q, t, rounded) /\ F!Value(p, q, t, rounded) <= a
        /\ F!Value(p, q, t, rounded) \in Nat
    BY <1>1, <1>4, <2>5 DEF y, z
  <2>7. x = 0 => a <= F!Value(p, q, t, rounded)
    BY <1>1, <1>4, <2>5 DEF y, z
  <2>8. x = run => F!Value(p, q, t, rounded) <= b
    BY <1>1, <1>4, <2>5 DEF y, z
  <2> QED
    BY <1>1, <2>6, <2>7, <2>8 DEF a, b
<1> QED
  BY <1>1, <1>5, <1>6
CurveRising(curve) ==
    \A k, m \in DOMAIN curve : k <= m => F!Temp(curve[k]) <= F!Temp(curve[m])

\* Strictly between the ends there is a segment, and the first one is between
\* two temperatures.
LEMMA CurveSegmentFacts ==
    ASSUME NEW sorted \in F!Curves, sorted # <<>>, CurveRising(sorted), NEW t \in 0 .. F!Full,
           F!Temp(sorted[1]) < t, t < F!Temp(sorted[Len(sorted)])
    PROVE  LET i == F!Segment(sorted, t)
           IN  /\ i \in Nat /\ i # 0 /\ i \in DOMAIN sorted /\ i + 1 \in DOMAIN sorted
               /\ F!Temp(sorted[i]) <= t /\ t <= F!Temp(sorted[i + 1])
               /\ F!Temp(sorted[i]) < F!Temp(sorted[i + 1])
<1> DEFINE n == Len(sorted)
           D == DOMAIN sorted
           T(k) == F!Temp(sorted[k])
           holds == {k \in 1 .. (n - 1) : T(k) <= t /\ t <= T(k + 1)}
           above == {k \in D : t < T(k)}
           i == F!Segment(sorted, t)
<1>1. /\ n \in Nat /\ D = 1 .. n /\ n # 0 /\ t \in Nat /\ T(1) < t /\ t < T(n)
      /\ \A k \in D : T(k) \in Nat
      /\ \A k, m \in D : k <= m => T(k) <= T(m)
  <2>1. n \in Nat /\ D = 1 .. n /\ n # 0 /\ t \in Nat /\ \A k \in D : T(k) \in Nat
    BY CurvePointFacts DEF F!Full
  <2> QED
    BY <2>1 DEF CurveRising
<1>2. i = IF holds = {} THEN 0 ELSE CHOOSE k \in holds : \A j \in holds : k <= j
  BY DEF F!Segment
<1> HIDE DEF T, n, D, i
<1>3. holds # {}
  <2>1. n \in above /\ above \subseteq Nat
    BY <1>1
  <2>2. PICK k \in above : \A m \in above : k <= m
    BY <2>1, LeastExists
  <2>3. k \in D /\ t < T(k) /\ k # 1 /\ k \in Nat /\ k >= 1 /\ k <= n
    BY <1>1, <2>2
  <2>4. k - 1 \in D /\ k - 1 \notin above /\ k - 1 \in 1 .. (n - 1) /\ (k - 1) + 1 = k
    BY <1>1, <2>2, <2>3
  <2>5. T(k - 1) <= t
    BY <1>1, <2>4
  <2>6. t <= T((k - 1) + 1)
    BY <1>1, <2>3, <2>4
  <2> QED
    BY <2>4, <2>5, <2>6
<1>4. i \in holds /\ \A j \in holds : i <= j
  <2>1. holds \subseteq Nat
    BY <1>1
  <2>2. \E k \in holds : \A j \in holds : k <= j
    BY <1>3, <2>1, LeastExists
  <2> HIDE DEF holds
  <2> QED
    BY <1>2, <1>3, <2>2
<1>5. /\ i \in Nat /\ i >= 1 /\ i <= n - 1 /\ T(i) <= t /\ t <= T(i + 1)
      /\ i \in D /\ i + 1 \in D
  BY <1>1, <1>4
<1>6. T(i) < T(i + 1)
  <2> SUFFICES ASSUME ~(T(i) < T(i + 1)) PROVE FALSE
    OBVIOUS
  <2>1. T(i) = t
    BY <1>1, <1>5
  <2>2. i # 1
    BY <1>1, <2>1
  <2>3. i - 1 \in D /\ i - 1 <= i /\ i - 1 \in 1 .. (n - 1) /\ (i - 1) + 1 = i
    BY <1>1, <1>5, <2>2
  <2>4. T(i - 1) <= t /\ t <= T((i - 1) + 1)
    BY <1>1, <1>5, <2>1, <2>3
  <2>5. i - 1 \in holds
    BY <2>3, <2>4
  <2> QED
    BY <1>4, <1>5, <2>5
<1> QED
  BY <1>5, <1>6 DEF T, D, n, i

\* A rising curve gives every temperature a speed between those of two of its
\* points, and a temperature of a point that point's speed, if it has only one.
LEMMA CurveBetweenFacts ==
    ASSUME NEW sorted \in F!Curves, sorted # <<>>, CurveRising(sorted), NEW t \in 0 .. F!Full,
           NEW rounded \in BOOLEAN
    PROVE  /\ \E k, m \in DOMAIN sorted :
                 /\ F!Speed(sorted[k]) <= F!Between(sorted, t, rounded)
                 /\ F!Between(sorted, t, rounded) <= F!Speed(sorted[m])
           /\ F!Between(sorted, t, rounded) \in 0 .. F!Full
           /\ \A k \in DOMAIN sorted :
                 t = F!Temp(sorted[k]) /\ F!Valid(sorted) =>
                    F!Between(sorted, t, rounded) = F!Speed(sorted[k])
<1> DEFINE n == Len(sorted)
           D == DOMAIN sorted
           T(k) == F!Temp(sorted[k])
           S(k) == F!Speed(sorted[k])
           i == F!Segment(sorted, t)
           value == F!Between(sorted, t, rounded)
<1>1. /\ n \in Nat /\ D = 1 .. n /\ n # 0 /\ t \in Nat
      /\ \A k \in D : T(k) \in Nat /\ S(k) \in Nat /\ k \in Nat
      /\ \A k \in D : sorted[k] \in CurvePoint
  BY CurvePointFacts DEF F!Full
<1>2. \A k, m \in D : k <= m => T(k) <= T(m)
  BY DEF CurveRising
<1>3. F!Valid(sorted) => \A k, m \in D : T(k) = T(m) => S(k) = S(m)
  BY DEF F!Valid
<1>4. value = IF t <= T(1) THEN S(1)
              ELSE IF t >= T(n) THEN S(n)
              ELSE IF i = 0 THEN 50
              ELSE IF T(i) = T(i + 1) THEN F!NaN
              ELSE F!Value(sorted[i], sorted[i + 1], t, rounded)
  BY DEF F!Between, F!Last
<1>5. 1 \in D /\ n \in D /\ \A k \in D : 1 <= k /\ k <= n
  BY <1>1
<1>6. \A k \in D : S(k) \in 0 .. F!Full
  BY CurvePointFacts
<1>7. CASE ~(t <= T(1)) /\ ~(t >= T(n))
  <2>1. T(1) < t /\ t < T(n)
    BY <1>1, <1>5, <1>7
  <2>2. /\ i \in Nat /\ i # 0 /\ i \in D /\ i + 1 \in D
        /\ T(i) <= t /\ t <= T(i + 1) /\ T(i) < T(i + 1)
    BY <2>1, CurveSegmentFacts
  <2>3. T(i) # T(i + 1)
    BY <1>1, <2>2
  <2>4. value = F!Value(sorted[i], sorted[i + 1], t, rounded)
    <3> HIDE DEF value, T, S, D, n, i
    <3> QED
      BY <1>4, <1>7, <2>2, <2>3
  <2>5. /\ value \in Nat
        /\ \/ S(i) <= value /\ value <= S(i + 1)
           \/ S(i + 1) <= value /\ value <= S(i)
        /\ t = T(i) => value = S(i)
        /\ t = T(i + 1) => value = S(i + 1)
    <3> DEFINE p == sorted[i]
               q == sorted[i + 1]
               v == F!Value(p, q, t, rounded)
    <3>1. /\ p \in CurvePoint /\ q \in CurvePoint /\ F!Temp(p) < F!Temp(q) /\ t \in Nat
          /\ F!Temp(p) <= t /\ t <= F!Temp(q)
      BY <1>1, <2>2
    <3> HIDE DEF p, q
    <3>2. /\ F!Value(p, q, t, rounded) \in Nat
          /\ \/ F!Speed(p) <= F!Value(p, q, t, rounded) /\ F!Value(p, q, t, rounded) <= F!Speed(q)
             \/ F!Speed(q) <= F!Value(p, q, t, rounded) /\ F!Value(p, q, t, rounded) <= F!Speed(p)
          /\ t = F!Temp(p) => F!Value(p, q, t, rounded) = F!Speed(p)
          /\ t = F!Temp(q) => F!Value(p, q, t, rounded) = F!Speed(q)
      BY <3>1, CurveValueFacts
    <3>3. value = v
      BY <2>4 DEF p, q
    <3> HIDE DEF value, v, i
    <3>4. /\ S(i) = F!Speed(p) /\ S(i + 1) = F!Speed(q) /\ T(i) = F!Temp(p) /\ T(i + 1) = F!Temp(q)
      BY DEF p, q
    <3> HIDE DEF S, T
    <3> QED
      BY <3>2, <3>3, <3>4 DEF v
  <2> HIDE DEF value, T, S, D, n, i
  <2>6. \E k, m \in D : S(k) <= value /\ value <= S(m)
    BY <2>2, <2>5
  <2>7. value \in 0 .. F!Full
    <3>1. S(i) \in Nat /\ S(i) <= 100 /\ S(i + 1) \in Nat /\ S(i + 1) <= 100
      BY <1>6, <2>2, CurveFullFacts
    <3>2. value <= 100
      BY <2>5, <3>1
    <3> QED
      BY <2>5, <3>2, CurveFullFacts
  <2>8. ASSUME NEW k \in D, t = T(k), F!Valid(sorted) PROVE value = S(k)
    <3>1. CASE k <= i
      <4>1. T(k) <= T(i)
        BY <1>2, <2>2, <3>1
      <4>2. T(i) = t
        BY <1>1, <2>2, <2>8, <4>1
      <4> QED
        BY <1>3, <2>2, <2>5, <2>8, <4>2
    <3>2. CASE k >= i + 1
      <4>1. T(i + 1) <= T(k)
        BY <1>2, <2>2, <3>2
      <4>2. T(i + 1) = t
        BY <1>1, <2>2, <2>8, <4>1
      <4> QED
        BY <1>3, <2>2, <2>5, <2>8, <4>2
    <3> QED
      BY <1>1, <2>2, <3>1, <3>2
  <2> QED
    BY <2>6, <2>7, <2>8 DEF value, S, T, D
<1>8. CASE t <= T(1) \/ t >= T(n)
  <2>1. PICK e \in D : value = S(e) /\ (\A m \in D : t = T(m) => T(m) = T(e))
    <3> HIDE DEF value, T, S, D, n, i
    <3>1. CASE t <= T(1)
      <4>1. \A m \in D : t = T(m) => T(m) = T(1)
        <5> TAKE m \in D
        <5>1. T(1) <= T(m) /\ T(1) \in Nat /\ T(m) \in Nat
          BY <1>1, <1>2, <1>5
        <5> QED
          BY <1>1, <3>1, <5>1
      <4>2. value = S(1)
        BY <1>4, <3>1
      <4> QED
        BY <1>5, <4>1, <4>2
    <3>2. CASE ~(t <= T(1)) /\ t >= T(n)
      <4>1. \A m \in D : t = T(m) => T(m) = T(n)
        <5> TAKE m \in D
        <5>1. T(m) <= T(n) /\ T(n) \in Nat /\ T(m) \in Nat
          BY <1>1, <1>2, <1>5
        <5> QED
          BY <1>1, <3>2, <5>1
      <4>2. value = S(n)
        BY <1>4, <3>2
      <4> QED
        BY <1>5, <4>1, <4>2
    <3> QED
      BY <1>8, <3>1, <3>2
  <2> HIDE DEF value, T, S, D, n, i
  <2>2. S(e) \in 0 .. F!Full /\ S(e) \in Nat
    BY <1>1, <1>6
  <2>3. value \in 0 .. F!Full
    BY <2>1, <2>2
  <2>4. S(e) <= value /\ value <= S(e)
    BY <2>1, <2>2
  <2>5. ASSUME NEW m \in D, t = T(m), F!Valid(sorted) PROVE value = S(m)
    BY <1>3, <2>1, <2>5
  <2> QED
    BY <2>3, <2>4, <2>5 DEF value, S, T, D
<1> QED
  BY <1>7, <1>8

\* What both interpolations make of a curve.
LEMMA CurveFacts ==
    ASSUME NEW curve \in F!Curves, curve # <<>>, NEW t \in 0 .. F!Full, NEW rounded \in BOOLEAN
    PROVE  /\ \E k, m \in DOMAIN curve :
                 /\ F!Speed(curve[k]) <= F!Between(F!Sorted(curve), t, rounded)
                 /\ F!Between(F!Sorted(curve), t, rounded) <= F!Speed(curve[m])
           /\ F!Between(F!Sorted(curve), t, rounded) \in 0 .. F!Full
           /\ \A k \in DOMAIN curve :
                 t = F!Temp(curve[k]) /\ F!Valid(curve) =>
                    F!Between(F!Sorted(curve), t, rounded) = F!Speed(curve[k])
<1> DEFINE sorted == F!Sorted(curve)
           value == F!Between(sorted, t, rounded)
<1>1. /\ sorted \in F!Curves /\ Len(sorted) = Len(curve)
      /\ DOMAIN sorted = DOMAIN curve
      /\ \A k \in DOMAIN curve : \E j \in DOMAIN curve : sorted[k] = curve[j]
      /\ \A j \in DOMAIN curve : \E k \in DOMAIN curve : sorted[k] = curve[j]
      /\ CurveRising(sorted)
  BY CurveSortedFacts DEF CurveRising
<1>2. sorted # <<>>
  BY <1>1, CurvePointFacts
<1>3. F!Valid(curve) => F!Valid(sorted)
  <2> SUFFICES ASSUME F!Valid(curve), NEW k \in DOMAIN curve, NEW m \in DOMAIN curve,
                      F!Temp(sorted[k]) = F!Temp(sorted[m])
               PROVE  F!Speed(sorted[k]) = F!Speed(sorted[m])
    BY <1>1 DEF F!Valid
  <2>1. PICK i \in DOMAIN curve : sorted[k] = curve[i]
    BY <1>1
  <2>2. PICK j \in DOMAIN curve : sorted[m] = curve[j]
    BY <1>1
  <2> QED
    BY <2>1, <2>2 DEF F!Valid
<1> HIDE DEF sorted
<1>4. /\ \E k, m \in DOMAIN sorted : F!Speed(sorted[k]) <= value /\ value <= F!Speed(sorted[m])
      /\ value \in 0 .. F!Full
      /\ \A k \in DOMAIN sorted :
            t = F!Temp(sorted[k]) /\ F!Valid(sorted) => value = F!Speed(sorted[k])
  BY <1>1, <1>2, CurveBetweenFacts
<1> HIDE DEF value
<1>5. \E k, m \in DOMAIN curve : F!Speed(curve[k]) <= value /\ value <= F!Speed(curve[m])
  <2>1. PICK k \in DOMAIN sorted, m \in DOMAIN sorted :
           F!Speed(sorted[k]) <= value /\ value <= F!Speed(sorted[m])
    BY <1>4
  <2>2. PICK i \in DOMAIN curve : sorted[k] = curve[i]
    BY <1>1
  <2>3. PICK j \in DOMAIN curve : sorted[m] = curve[j]
    BY <1>1
  <2> QED
    BY <2>1, <2>2, <2>3
<1>6. ASSUME NEW k \in DOMAIN curve, t = F!Temp(curve[k]), F!Valid(curve)
      PROVE  value = F!Speed(curve[k])
  <2>1. PICK m \in DOMAIN curve : sorted[m] = curve[k]
    BY <1>1
  <2> QED
    BY <1>1, <1>3, <1>4, <1>6, <2>1
<1> QED
  BY <1>4, <1>5, <1>6 DEF value, sorted

-----------------------------------------------------------------------------
(* The editor *)

CurveInv ==
    /\ F!FanCurveConstants
    /\ points \in F!Curves /\ Len(points) \in 2 .. MaxPoints
    /\ edits \in 0 .. MaxEdits
    /\ followed \in [points : F!Curves, checked : BOOLEAN]
    /\ followed.checked => F!Valid(followed.points)

LEMMA CurveDefaultFacts == F!DefaultCurve \in F!Curves /\ Len(F!DefaultCurve) = 4
<1> DEFINE D == 0 .. 100
<1>1. <<0, 0>> \in D \X D /\ <<50, 50>> \in D \X D /\ <<70, 75>> \in D \X D /\ <<85, 100>> \in D \X D
  OBVIOUS
<1> QED
  BY <1>1 DEF F!DefaultCurve, F!Curves, F!Full

LEMMA CurveInitially == F!FanCurveConstants /\ F!Init => CurveInv
<1> SUFFICES ASSUME F!FanCurveConstants, F!Init PROVE CurveInv
  OBVIOUS
<1>1. /\ points \in {F!DefaultCurve} \cup FileCurves
      /\ followed = [points |-> <<>>, checked |-> FALSE] /\ edits = 0
  BY DEF F!Init
<1>2. points \in F!Curves /\ Len(points) \in 2 .. MaxPoints
  <2>1. MaxPoints \in Nat /\ MaxPoints >= 4
    BY DEF F!FanCurveConstants
  <2>2. CASE points = F!DefaultCurve
    BY <2>1, <2>2, CurveDefaultFacts
  <2>3. CASE points \in FileCurves
    BY <2>3 DEF F!FanCurveConstants
  <2> QED
    BY <1>1, <2>2, <2>3
<1>3. followed \in [points : F!Curves, checked : BOOLEAN] /\ ~followed.checked
  <2>1. <<>> \in F!Curves
    BY DEF F!Curves
  <2> QED
    BY <1>1, <2>1
<1>4. edits \in 0 .. MaxEdits
  BY <1>1 DEF F!FanCurveConstants
<1> QED
  BY <1>2, <1>3, <1>4 DEF CurveInv

\* The new point of the Add button lies within the axes.
LEMMA CurveNewTempFacts ==
    ASSUME NEW sorted \in F!Curves, sorted # <<>>
    PROVE  F!NewTemp(sorted) \in 0 .. F!Full
<1> DEFINE n == Len(sorted)
           T(k) == F!Temp(sorted[k])
           gap(k) == T(k + 1) - T(k)
           gaps == {k \in 1 .. (n - 1) : gap(k) > 0}
           best == IF gaps = {} THEN 0
                   ELSE CHOOSE k \in gaps : \A j \in gaps :
                           gap(k) > gap(j) \/ (gap(k) = gap(j) /\ k <= j)
           size == IF best = 0 THEN 0 ELSE gap(best)
           low == T(best)
<1>1. /\ n \in Nat /\ n >= 1 /\ \A k \in 1 .. n : T(k) \in Nat /\ T(k) <= 100
      /\ \A k \in 1 .. (n - 1) : k \in Nat /\ k # 0 /\ k \in 1 .. n /\ k + 1 \in 1 .. n
  <2>1. /\ n \in Nat /\ n # 0 /\ DOMAIN sorted = 1 .. n
        /\ \A k \in 1 .. n : T(k) \in Nat /\ T(k) <= 100
    BY CurvePointFacts DEF F!Full
  <2> HIDE DEF n, T
  <2> QED
    BY <2>1
<1>2. F!NewTemp(sorted) = IF 100 - T(n) > size THEN T(n) + (100 - T(n)) \div 2
                        ELSE IF T(1) > size THEN T(1) \div 2
                        ELSE IF best = 0 THEN 50 ELSE low + size \div 2
  BY DEF F!NewTemp, F!Last, F!Full
<1> HIDE DEF T, n
<1>3. /\ T(1) \in Nat /\ T(1) <= 100 /\ T(n) \in Nat /\ T(n) <= 100
  <2>1. 1 \in 1 .. n /\ n \in 1 .. n
    BY <1>1
  <2> QED
    BY <1>1, <2>1
<1>4. ASSUME gaps # {}
      PROVE  best \in gaps
  <2> DEFINE spare == {100 - gap(k) : k \in gaps}
  <2>1. \A k \in gaps : gap(k) \in Nat /\ gap(k) <= 100 /\ k \in Nat
    <3> TAKE k \in gaps
    <3>1. T(k) \in Nat /\ T(k + 1) \in Nat /\ T(k + 1) <= 100 /\ gap(k) > 0 /\ k \in Nat
      BY <1>1
    <3> QED
      BY <3>1
  <2> HIDE DEF gap, gaps
  <2>2. spare \subseteq Nat /\ spare # {}
    BY <1>4, <2>1
  <2>3. PICK r \in spare : \A s \in spare : r <= s
    BY <2>2, LeastExists
  <2>4. PICK g \in gaps : r = 100 - gap(g)
    BY <2>3
  <2>5. \A j \in gaps : gap(j) <= gap(g)
    <3> TAKE j \in gaps
    <3>1. 100 - gap(j) \in spare
      OBVIOUS
    <3>2. 100 - gap(g) <= 100 - gap(j)
      BY <2>3, <2>4, <3>1
    <3>3. gap(j) \in Nat /\ gap(g) \in Nat
      BY <2>1
    <3> QED
      BY <3>2, <3>3
  <2> DEFINE widest == {k \in gaps : gap(k) = gap(g)}
  <2>6. widest \subseteq Nat /\ widest # {}
    BY <2>1
  <2>7. PICK k \in widest : \A j \in widest : k <= j
    BY <2>6, LeastExists
  <2>8. \A j \in gaps : gap(k) > gap(j) \/ (gap(k) = gap(j) /\ k <= j)
    BY <2>1, <2>5, <2>7
  <2>9. k \in gaps
    BY <2>7
  <2> QED
    BY <1>4, <2>8, <2>9
<1>5. gaps = {} => best = 0
  OBVIOUS
<1> HIDE DEF best
<1>6. \/ best = 0 /\ size = 0
      \/ best # 0 /\ size \in Nat /\ low \in Nat /\ low + size <= 100
  <2>1. CASE gaps = {}
    BY <1>5, <2>1
  <2>2. CASE gaps # {}
    <3>1. best \in 1 .. (n - 1) /\ gap(best) > 0
      BY <1>4, <2>2
    <3>2. /\ best # 0 /\ T(best) \in Nat /\ T(best + 1) \in Nat /\ T(best + 1) <= 100
      BY <1>1, <3>1
    <3>3. size = gap(best) /\ low = T(best)
      BY <3>2
    <3> HIDE DEF size, low
    <3> QED
      BY <3>1, <3>2, <3>3
  <2> QED
    BY <2>1, <2>2
<1> HIDE DEF size, low
<1>7. \A x \in Nat : x \div 2 \in Nat /\ x \div 2 <= x
  OBVIOUS
<1> DEFINE new == F!NewTemp(sorted)
<1>8. new \in Nat /\ new <= 100
  <2> HIDE DEF new
  <2>1. CASE 100 - T(n) > size
    <3>1. 100 - T(n) \in Nat
      BY <1>3
    <3>2. (100 - T(n)) \div 2 \in Nat /\ (100 - T(n)) \div 2 <= 100 - T(n)
      BY <1>7, <3>1
    <3>3. new = T(n) + (100 - T(n)) \div 2
      BY <1>2, <2>1 DEF new
    <3> QED
      BY <1>3, <3>1, <3>2, <3>3
  <2>2. CASE ~(100 - T(n) > size) /\ T(1) > size
    <3>1. new = T(1) \div 2
      BY <1>2, <2>2 DEF new
    <3> QED
      BY <1>3, <1>7, <3>1
  <2>3. CASE ~(100 - T(n) > size) /\ ~(T(1) > size) /\ best = 0
    BY <1>2, <2>3 DEF new
  <2>4. CASE ~(100 - T(n) > size) /\ ~(T(1) > size) /\ best # 0
    <3>1. new = low + size \div 2
      BY <1>2, <2>4 DEF new
    <3>2. size \in Nat /\ low \in Nat /\ low + size <= 100
      BY <1>6, <2>4
    <3> QED
      BY <1>7, <3>1, <3>2
  <2> QED
    BY <2>1, <2>2, <2>3, <2>4
<1> QED
  BY <1>8, CurveFullFacts DEF new

LEMMA CurveRemoveAtFacts ==
    ASSUME NEW S, NEW s \in Seq(S), NEW i \in DOMAIN s
    PROVE  F!RemoveAt(s, i) \in Seq(S) /\ Len(F!RemoveAt(s, i)) = Len(s) - 1
<1> DEFINE n == Len(s)
           a == SubSeq(s, 1, i - 1)
           b == SubSeq(s, i + 1, n)
<1>1. DOMAIN s = 1 .. n /\ n \in Nat /\ \A j \in 1 .. n : s[j] \in S
  BY ListFacts
<1>2. i \in Nat /\ 1 <= i /\ i <= n
  BY <1>1
<1>3. a \in Seq(S) /\ Len(a) = i - 1
  <2>1. i - 1 \in Int /\ 1 \in Int /\ \A j \in 1 .. i - 1 : s[j] \in S
    BY <1>1, <1>2
  <2>2. a \in Seq(S) /\ Len(a) = IF 1 <= i - 1 THEN (i - 1) - 1 + 1 ELSE 0
    BY <2>1, SubSeqProperties
  <2> HIDE DEF a
  <2> QED
    BY <1>2, <2>2
<1>4. b \in Seq(S) /\ Len(b) = n - i
  <2>1. i + 1 \in Int /\ n \in Int /\ \A j \in i + 1 .. n : s[j] \in S
    BY <1>1, <1>2
  <2>2. b \in Seq(S) /\ Len(b) = IF i + 1 <= n THEN n - (i + 1) + 1 ELSE 0
    BY <2>1, SubSeqProperties
  <2> HIDE DEF b
  <2> QED
    BY <1>1, <1>2, <2>2
<1>5. F!RemoveAt(s, i) = a \o b
  BY DEF F!RemoveAt
<1> HIDE DEF a, b, n
<1>6. F!RemoveAt(s, i) \in Seq(S) /\ Len(F!RemoveAt(s, i)) = Len(a) + Len(b)
  BY <1>3, <1>4, <1>5, ConcatProperties
<1> QED
  BY <1>1, <1>2, <1>3, <1>4, <1>6 DEF n

\* A point is put in the place of another.
LEMMA CurveMoveFacts ==
    ASSUME CurveInv, NEW i \in DOMAIN points, NEW t \in 0 .. F!Full, NEW s \in 0 .. F!Full,
           points' = [points EXCEPT ![i] = <<t, s>>]
    PROVE  points' \in F!Curves /\ Len(points') = Len(points)
<1>1. points \in Seq(CurvePoint) /\ <<t, s>> \in CurvePoint /\ i \in 1 .. Len(points)
  BY CurvePointFacts DEF CurveInv, F!Curves, CurvePoint
<1>2. points' \in Seq(CurvePoint) /\ Len(points') = Len(points)
  BY <1>1, ExceptSeq
<1> QED
  BY <1>2 DEF F!Curves, CurvePoint

LEMMA CurveMoves == CurveInv /\ [F!Next]_(F!vars) => CurveInv'
<1> SUFFICES ASSUME CurveInv, [F!Next]_(F!vars) PROVE CurveInv'
  OBVIOUS
<1>1. /\ F!FanCurveConstants /\ points \in F!Curves /\ Len(points) \in 2 .. MaxPoints
      /\ edits \in 0 .. MaxEdits
      /\ followed \in [points : F!Curves, checked : BOOLEAN]
      /\ followed.checked => F!Valid(followed.points)
      /\ MaxPoints \in Nat /\ MaxEdits \in Nat /\ MaxPoints >= 4
  BY DEF CurveInv, F!FanCurveConstants
<1>2. \A i \in DOMAIN points : F!Temp(points[i]) \in 0 .. F!Full /\ F!Speed(points[i]) \in 0 .. F!Full
  BY <1>1, CurvePointFacts
<1>3. points # <<>>
  BY <1>1, CurvePointFacts
<1>4. ASSUME F!Edit, points' \in F!Curves, Len(points') \in 2 .. MaxPoints
      PROVE  CurveInv'
  <2>1. edits' \in 0 .. MaxEdits /\ followed' = followed
    BY <1>1, <1>4 DEF F!Edit
  <2> QED
    BY <1>1, <1>4, <2>1 DEF CurveInv
<1>5. ASSUME NEW i \in DOMAIN points, NEW t \in 0 .. F!Full, NEW s \in 0 .. F!Full,
             F!MovePoint(i, t, s)
      PROVE  CurveInv'
  <2>1. points' = [points EXCEPT ![i] = <<t, s>>] /\ F!Edit
    BY <1>5 DEF F!MovePoint
  <2> QED
    BY <1>1, <1>4, <2>1, CurveMoveFacts
<1>6. ASSUME NEW t \in Temps, NEW s \in Speeds, F!Drag(t, s) PROVE CurveInv'
  <2> DEFINE near == {k \in 1 .. Len(points) : F!Near(points[k], t, s)}
             i == F!SelectInSeq(points, LAMBDA p : F!Near(p, t, s))
  <2>1. F!Edit /\ i # 0 /\ points' = [points EXCEPT ![i] = <<t, s>>]
    BY <1>6 DEF F!Drag
  <2>2. i = IF near # {} THEN F!Min(near) ELSE 0
    BY DEF F!SelectInSeq
  <2>3. near \subseteq Nat /\ near # {}
    BY <2>1, <2>2
  <2>4. F!Min(near) \in near
    BY <2>3, LeastExists DEF F!Min
  <2>5. i \in DOMAIN points
    BY <1>1, <2>2, <2>3, <2>4, CurvePointFacts
  <2>6. t \in 0 .. F!Full /\ s \in 0 .. F!Full
    BY <1>1 DEF F!FanCurveConstants
  <2> HIDE DEF i
  <2> QED
    BY <1>1, <1>4, <2>1, <2>5, <2>6, CurveMoveFacts
<1>7. ASSUME NEW i \in DOMAIN points, F!DeletePoint(i) PROVE CurveInv'
  <2>1. F!Edit /\ Len(points) > 2 /\ points' = F!RemoveAt(points, i)
    BY <1>7 DEF F!DeletePoint, F!Deletable
  <2>2. points' \in F!Curves /\ Len(points') = Len(points) - 1
    BY <1>1, <2>1, CurveRemoveAtFacts DEF F!Curves
  <2> QED
    BY <1>1, <1>4, <2>1, <2>2
<1>8. CASE F!AddPoint
  <2> DEFINE t == F!NewTemp(F!Sorted(points))
             new == <<t, F!InterpolateSpeed(points, t)>>
  <2>1. F!Edit /\ Len(points) < MaxPoints /\ points' = Append(points, new)
    BY <1>3, <1>8 DEF F!AddPoint
  <2>2. F!Sorted(points) \in F!Curves /\ F!Sorted(points) # <<>>
    BY <1>1, <1>3, CurveSortedFacts, CurvePointFacts
  <2>3. t \in 0 .. F!Full
    BY <2>2, CurveNewTempFacts
  <2> HIDE DEF t
  <2>4. F!InterpolateSpeed(points, t) \in 0 .. F!Full
    BY <1>1, <1>3, <2>3, CurveFacts DEF F!InterpolateSpeed
  <2>5. new \in CurvePoint
    BY <2>3, <2>4 DEF CurvePoint
  <2> HIDE DEF new
  <2>6. points' \in F!Curves /\ Len(points') = Len(points) + 1
    BY <1>1, <2>1, <2>5, AppendProperties DEF F!Curves, CurvePoint
  <2> QED
    BY <1>1, <1>4, <2>1, <2>6
<1>9. CASE F!Resort
  BY <1>1, <1>4, <1>9, CurveSortedFacts DEF F!Resort
<1>10. CASE F!ResetToDefault
  BY <1>1, <1>4, <1>10, CurveDefaultFacts DEF F!ResetToDefault
<1>11. CASE F!Save
  <2>1. /\ F!Valid(points) /\ followed' = [points |-> points, checked |-> TRUE]
        /\ UNCHANGED <<points, edits>>
    BY <1>11 DEF F!Save
  <2>2. followed' \in [points : F!Curves, checked : BOOLEAN] /\ followed'.points = points
    BY <1>1, <2>1
  <2> QED
    BY <1>1, <2>1, <2>2 DEF CurveInv
<1>12. ASSUME NEW curve \in Sent, F!ApplyProfile(curve) PROVE CurveInv'
  <2>1. /\ followed' = [points |-> curve, checked |-> FALSE]
        /\ UNCHANGED <<points, edits>>
    BY <1>12 DEF F!ApplyProfile
  <2>2. followed' \in [points : F!Curves, checked : BOOLEAN] /\ ~followed'.checked
    BY <1>1, <2>1 DEF F!FanCurveConstants
  <2> QED
    BY <1>1, <2>1, <2>2 DEF CurveInv
<1>13. CASE UNCHANGED F!vars
  <2>1. UNCHANGED <<points, followed, edits>>
    BY <1>13 DEF F!vars
  <2> QED
    BY <1>1, <2>1 DEF CurveInv
<1>14. Temps \subseteq 0 .. F!Full /\ Speeds \subseteq 0 .. F!Full
  BY <1>1 DEF F!FanCurveConstants
<1> QED
  BY <1>2, <1>5, <1>6, <1>7, <1>8, <1>9, <1>10, <1>11, <1>12, <1>13, <1>14 DEF F!Next

LEMMA CurveTypesSafe == CurveInv => F!TypeOK
<1> SUFFICES ASSUME CurveInv PROVE F!TypeOK
  OBVIOUS
<1>1. \A i \in DOMAIN points : points[i] \in (0 .. F!Full) \X (0 .. F!Full)
  BY CurvePointFacts DEF CurveInv, CurvePoint
<1> QED
  BY <1>1 DEF CurveInv, F!TypeOK

LEMMA CurveSafe == CurveInv => F!CurveIsFollowed
<1> DEFINE curve == followed.points
           fan == F!CalculateFanSpeed(curve)
           speeds == {F!Speed(curve[i]) : i \in DOMAIN curve}
<1> SUFFICES ASSUME CurveInv
             PROVE  /\ followed.checked =>
                          \A i \in DOMAIN curve : fan[F!Temp(curve[i])] = F!Speed(curve[i])
                    /\ curve # <<>> =>
                          \A t \in 0 .. F!Full :
                             (\E s \in speeds : s <= fan[t]) /\ (\E s \in speeds : fan[t] <= s)
  BY DEF F!CurveIsFollowed
<1>1. curve \in F!Curves /\ (followed.checked => F!Valid(curve))
  BY DEF CurveInv
<1>2. \A t \in 0 .. F!Full : fan[t] = F!Between(F!Sorted(curve), t, TRUE)
  BY DEF F!CalculateFanSpeed
<1> HIDE DEF curve, fan
<1>3. ASSUME followed.checked, NEW i \in DOMAIN curve
      PROVE  fan[F!Temp(curve[i])] = F!Speed(curve[i])
  <2>1. F!Temp(curve[i]) \in 0 .. F!Full /\ curve # <<>>
    <3>1. DOMAIN <<>> = {}
      OBVIOUS
    <3> QED
      BY <1>1, <1>3, <3>1, CurvePointFacts
  <2> QED
    BY <1>1, <1>2, <1>3, <2>1, CurveFacts
<1>4. ASSUME curve # <<>>, NEW t \in 0 .. F!Full
      PROVE  (\E s \in speeds : s <= fan[t]) /\ (\E s \in speeds : fan[t] <= s)
  <2>1. \E k, m \in DOMAIN curve :
           /\ F!Speed(curve[k]) <= F!Between(F!Sorted(curve), t, TRUE)
           /\ F!Between(F!Sorted(curve), t, TRUE) <= F!Speed(curve[m])
    BY <1>1, <1>4, TRUE \in BOOLEAN, CurveFacts
  <2>2. PICK k \in DOMAIN curve, m \in DOMAIN curve :
           F!Speed(curve[k]) <= fan[t] /\ fan[t] <= F!Speed(curve[m])
    BY <1>2, <2>1
  <2>3. F!Speed(curve[k]) \in speeds /\ F!Speed(curve[m]) \in speeds
    OBVIOUS
  <2> QED
    BY <2>2, <2>3
<1> QED
  BY <1>3, <1>4

\* A new point: how far the two segments it makes can leave the old one.  The value of
\* a segment is a quotient; these are the numerators of a difference of two.
LEMMA CurveLeftIdentity ==
    ASSUME NEW a \in Int, NEW b \in Int, NEW s \in Int, NEW x \in Int, NEW m \in Int,
           NEW run \in Int
    PROVE  (a * run + x * (b - a)) * m - (a * m + x * (s - a)) * run
              = x * ((a * run + m * (b - a)) - s * run)
OBVIOUS

LEMMA CurveRightIdentity ==
    ASSUME NEW a \in Int, NEW b \in Int, NEW s \in Int, NEW y \in Int, NEW m \in Int,
           NEW r \in Int
    PROVE  (a * (m + r) + (m + y) * (b - a)) * r - (s * r + y * (b - s)) * (m + r)
              = (r - y) * ((a * (m + r) + m * (b - a)) - s * (m + r))
OBVIOUS

LEMMA CurveQuotient ==
    ASSUME NEW z \in Nat, NEW d \in Nat, d > 0
    PROVE  z \div d \in Nat /\ (z \div d) * d <= z /\ z < (z \div d + 1) * d
OBVIOUS

LEMMA CurvePositiveProduct ==
    ASSUME NEW a \in Nat, NEW b \in Nat, NEW c \in Nat, c > 0
    PROVE  a * c \in Nat /\ (a > 0 => a * c > 0) /\ (a < b => a * c < b * c)
OBVIOUS

\* Two quotients less than one apart, rounded to the nearest, are at most one apart.
LEMMA CurveRoundClose ==
    ASSUME NEW A \in Nat, NEW B \in Nat, NEW d \in Nat, NEW e \in Nat, d > 0, e > 0,
           B * d <= A * e, A * e < B * d + d * e
    PROVE  F!Diff((2 * A + d) \div (2 * d), (2 * B + e) \div (2 * e)) <= 1
<1> DEFINE r == (2 * A + d) \div (2 * d)
           w == (2 * B + e) \div (2 * e)
<1>1. /\ r \in Nat /\ r * (2 * d) <= 2 * A + d /\ 2 * A + d < (r + 1) * (2 * d)
      /\ w \in Nat /\ w * (2 * e) <= 2 * B + e /\ 2 * B + e < (w + 1) * (2 * e)
  OBVIOUS
<1> HIDE DEF r, w
<1> DEFINE ae == A * e
           bd == B * d
           de == d * e
           rde == r * d * e
           wde == w * d * e
<1>2. /\ ae \in Nat /\ bd \in Nat /\ de \in Nat /\ rde \in Nat /\ wde \in Nat /\ de > 0
      /\ bd <= ae /\ ae < bd + de
  <2>1. r * d \in Nat /\ w * d \in Nat
    BY <1>1
  <2> QED
    BY <1>1, <2>1, CurvePositiveProduct
<1>3. 2 * rde <= 2 * ae + de
  <2>1. (r * (2 * d)) * e <= (2 * A + d) * e
    BY <1>1, CurveProduct, r * (2 * d) \in Nat, 2 * A + d \in Nat
  <2>2. (r * (2 * d)) * e = 2 * rde /\ (2 * A + d) * e = 2 * ae + de
    BY <1>1
  <2> QED
    BY <2>1, <2>2
<1>4. 2 * ae + de < 2 * rde + 2 * de
  <2>1. (2 * A + d) * e < ((r + 1) * (2 * d)) * e
    BY <1>1, CurvePositiveProduct, (r + 1) * (2 * d) \in Nat, 2 * A + d \in Nat
  <2>2. ((r + 1) * (2 * d)) * e = 2 * rde + 2 * de /\ (2 * A + d) * e = 2 * ae + de
    BY <1>1
  <2> QED
    BY <2>1, <2>2
<1>5. 2 * wde <= 2 * bd + de
  <2>1. (w * (2 * e)) * d <= (2 * B + e) * d
    BY <1>1, CurveProduct, w * (2 * e) \in Nat, 2 * B + e \in Nat
  <2>2. (w * (2 * e)) * d = 2 * wde /\ (2 * B + e) * d = 2 * bd + de
    BY <1>1
  <2> QED
    BY <2>1, <2>2
<1>6. 2 * bd + de < 2 * wde + 2 * de
  <2>1. (2 * B + e) * d < ((w + 1) * (2 * e)) * d
    BY <1>1, CurvePositiveProduct, (w + 1) * (2 * e) \in Nat, 2 * B + e \in Nat
  <2>2. ((w + 1) * (2 * e)) * d = 2 * wde + 2 * de /\ (2 * B + e) * d = 2 * bd + de
    BY <1>1
  <2> QED
    BY <2>1, <2>2
<1>7. wde < rde + de
  <2> HIDE DEF ae, bd, de, rde, wde
  <2> QED
    BY <1>2, <1>4, <1>5
<1>8. rde < wde + 2 * de
  <2> HIDE DEF ae, bd, de, rde, wde
  <2> QED
    BY <1>2, <1>3, <1>6
<1>9. w <= r
  <2> SUFFICES ASSUME w >= r + 1 PROVE FALSE
    BY <1>1
  <2>1. wde >= rde + de
    BY <1>1
  <2> HIDE DEF ae, bd, de, rde, wde
  <2> QED
    BY <1>2, <1>7, <2>1
<1>10. r <= w + 1
  <2> SUFFICES ASSUME r >= w + 2 PROVE FALSE
    BY <1>1
  <2>1. rde >= wde + 2 * de
    BY <1>1
  <2> HIDE DEF ae, bd, de, rde, wde
  <2> QED
    BY <1>2, <1>8, <2>1
<1>11. F!Diff(r, w) <= 1
  BY <1>1, <1>9, <1>10 DEF F!Diff
<1> QED
  BY <1>11 DEF r, w

LEMMA CurvePartFacts ==
    ASSUME NEW p \in CurvePoint, NEW q \in CurvePoint, F!Temp(p) < F!Temp(q), NEW t \in Nat,
           F!Temp(p) <= t, t <= F!Temp(q)
    PROVE  /\ F!Part(p, q, t) = F!Speed(p) * (F!Temp(q) - F!Temp(p))
                                 + (t - F!Temp(p)) * (F!Speed(q) - F!Speed(p))
           /\ F!Part(p, q, t) \in Nat
<1> DEFINE a == F!Speed(p)
           b == F!Speed(q)
           run == F!Temp(q) - F!Temp(p)
           x == t - F!Temp(p)
<1>1. /\ a \in Nat /\ b \in Nat /\ run \in Nat /\ x \in Nat /\ x <= run
  <2>1. p[1] \in Nat /\ p[2] \in Nat /\ q[1] \in Nat /\ q[2] \in Nat
    BY DEF CurvePoint, F!Full
  <2> QED
    BY <2>1 DEF F!Temp, F!Speed
<1>2. F!Part(p, q, t) = IF b >= a THEN a * run + x * F!Diff(a, b) ELSE a * run - x * F!Diff(a, b)
  BY DEF F!Part
<1> HIDE DEF a, b, run, x
<1>3. CASE b >= a
  <2>1. F!Diff(a, b) = b - a /\ b - a \in Nat
    BY <1>1, <1>3 DEF F!Diff
  <2>2. a * run \in Nat /\ x * (b - a) \in Nat
    BY <1>1, <2>1, CurveProduct
  <2> QED
    BY <1>2, <1>3, <2>1, <2>2 DEF a, b, run, x
<1>4. CASE b < a
  <2> DEFINE fall == a - b
  <2>1. F!Diff(a, b) = fall /\ fall \in Nat
    BY <1>1, <1>4 DEF F!Diff
  <2>2. x * (b - a) = -(x * fall) /\ a * run = b * run + run * fall
    BY <1>1
  <2> HIDE DEF fall
  <2>3. /\ x * fall \in Nat /\ run * fall \in Nat /\ x * fall <= run * fall
        /\ b * run \in Nat /\ a * run \in Nat
    BY <1>1, <2>1, CurveProduct
  <2> DEFINE xf == x * fall
             rf == run * fall
             br == b * run
             ar == a * run
             z == x * (b - a)
  <2>4. /\ xf \in Nat /\ rf \in Nat /\ xf <= rf /\ br \in Nat /\ ar = br + rf /\ z = -xf
        /\ F!Part(p, q, t) = ar - xf
    BY <1>1, <1>2, <1>4, <2>1, <2>2, <2>3
  <2> HIDE DEF xf, rf, br, ar, z
  <2>5. F!Part(p, q, t) = ar + z /\ F!Part(p, q, t) \in Nat
    BY <2>4
  <2> QED
    BY <2>5 DEF ar, z, a, b, run, x
<1> QED
  BY <1>1, <1>3, <1>4

\* A point on a segment, but for the percent lost in truncation, bends the segment by
\* less than one percent.
LEMMA CurveBendFacts ==
    ASSUME NEW p \in CurvePoint, NEW q \in CurvePoint, NEW n \in CurvePoint, NEW u \in Nat,
           F!Temp(p) < F!Temp(n), F!Temp(n) < F!Temp(q),
           F!Speed(n) = F!Value(p, q, F!Temp(n), FALSE), F!Temp(p) <= u, u <= F!Temp(q)
    PROVE  /\ u <= F!Temp(n) =>
                 F!Diff(F!Value(p, q, u, TRUE), F!Value(p, n, u, TRUE)) <= 1
           /\ F!Temp(n) <= u =>
                 F!Diff(F!Value(p, q, u, TRUE), F!Value(n, q, u, TRUE)) <= 1
<1> DEFINE a == F!Speed(p)
           b == F!Speed(q)
           s == F!Speed(n)
           t == F!Temp(n)
           m == t - F!Temp(p)
           r == F!Temp(q) - t
           run == F!Temp(q) - F!Temp(p)
           P == F!Part(p, q, t)
           A == F!Part(p, q, u)
           x == u - F!Temp(p)
           y == u - t
           bend == P - s * run
<1>1. /\ a \in Nat /\ b \in Nat /\ s \in Nat /\ m \in Nat /\ r \in Nat /\ run = m + r
      /\ m > 0 /\ r > 0 /\ x \in Nat /\ t \in Nat /\ F!Temp(p) \in Nat /\ F!Temp(q) \in Nat
  <2>1. /\ p[1] \in Nat /\ p[2] \in Nat /\ q[1] \in Nat /\ q[2] \in Nat
        /\ n[1] \in Nat /\ n[2] \in Nat
    BY DEF CurvePoint, F!Full
  <2>2. a \in Nat /\ b \in Nat /\ s \in Nat
    BY <2>1 DEF F!Speed
  <2>3. F!Temp(p) \in Nat /\ F!Temp(q) \in Nat /\ t \in Nat
    BY <2>1 DEF F!Temp
  <2> HIDE DEF a, b, s
  <2> QED
    BY <2>2, <2>3
<1>2. /\ P = a * run + m * (b - a) /\ P \in Nat
      /\ A = a * run + x * (b - a) /\ A \in Nat
  <2>1. F!Temp(p) < F!Temp(q) /\ F!Temp(p) <= t /\ t <= F!Temp(q)
    BY <1>1
  <2> QED
    BY <1>1, <2>1, CurvePartFacts
<1>3. /\ s = (2 * P + 0) \div (2 * run)
      /\ F!Value(p, q, u, TRUE) = (2 * A + run) \div (2 * run)
  BY DEF F!Value
<1> HIDE DEF a, b, s, t, m, r, run, P, A
<1>4. bend \in Nat /\ bend < run /\ run \in Nat /\ run > 0
  <2>1. run \in Nat /\ run > 0
    BY <1>1
  <2>2. s * (2 * run) <= 2 * P /\ 2 * P < (s + 1) * (2 * run)
    <3>1. s = (2 * P) \div (2 * run) /\ 2 * P \in Nat /\ 2 * run \in Nat /\ 2 * run > 0
      BY <1>2, <1>3, <2>1
    <3> QED
      BY <3>1, CurveQuotient
  <2>3. s * (2 * run) = 2 * (s * run) /\ (s + 1) * (2 * run) = 2 * (s * run) + 2 * run
        /\ s * run \in Nat
    BY <1>1, <2>1, CurveProduct
  <2> QED
    BY <1>2, <2>1, <2>2, <2>3
<1>5. ASSUME u <= t
      PROVE  F!Diff(F!Value(p, q, u, TRUE), F!Value(p, n, u, TRUE)) <= 1
  <2> DEFINE B == F!Part(p, n, u)
  <2>1. B = a * m + x * (s - a) /\ B \in Nat /\ F!Value(p, n, u, TRUE) = (2 * B + m) \div (2 * m)
    <3>1. F!Temp(p) < F!Temp(n) /\ F!Temp(p) <= u /\ u <= F!Temp(n)
      BY <1>5 DEF t
    <3>2. B = a * m + x * (s - a) /\ B \in Nat
      BY <3>1, CurvePartFacts DEF a, m, s, t
    <3> QED
      BY <3>2 DEF F!Value, m, t
  <2>2. x <= m
    BY <1>1, <1>5 DEF m
  <2> HIDE DEF B, x
  <2>3. A * m - B * run = x * bend
    BY <1>1, <1>2, <1>4, <2>1, CurveLeftIdentity
  <2> HIDE DEF bend
  <2>4. x * bend \in Nat /\ x * bend <= m * bend /\ bend * m < run * m /\ m * bend = bend * m
        /\ run * m \in Nat
    BY <1>1, <1>4, <2>2, CurveProduct, CurvePositiveProduct
  <2>5. A * m \in Nat /\ B * run \in Nat
    BY <1>1, <1>2, <1>4, <2>1, CurveProduct
  <2>6. B * run <= A * m /\ A * m < B * run + run * m
    <3> DEFINE new == B * run
               old == A * m
               gain == x * bend
               bound == run * m
               most == m * bend
               mid == bend * m
    <3>1. /\ old \in Nat /\ new \in Nat /\ gain \in Nat /\ bound \in Nat
          /\ old - new = gain /\ gain <= most /\ most = mid /\ mid < bound /\ mid \in Nat
      <4>1. mid \in Nat
        BY <1>1, <1>4, CurvePositiveProduct
      <4>2. old \in Nat /\ new \in Nat /\ old - new = gain
        BY <2>3, <2>5
      <4>3. gain \in Nat /\ bound \in Nat /\ gain <= most /\ most = mid /\ mid < bound
        BY <2>4
      <4> QED
        BY <4>1, <4>2, <4>3
    <3> HIDE DEF new, old, gain, bound, most, mid
    <3>2. new <= old /\ old < new + bound
      BY <3>1
    <3> QED
      BY <3>2 DEF new, old, bound
  <2>7. F!Diff((2 * A + run) \div (2 * run), (2 * B + m) \div (2 * m)) <= 1
    <3>1. /\ A \in Nat /\ B \in Nat /\ run \in Nat /\ m \in Nat /\ run > 0 /\ m > 0
          /\ B * run <= A * m /\ A * m < B * run + run * m
      BY <1>1, <1>2, <1>4, <2>1, <2>6
    <3> QED
      BY ONLY <3>1, CurveRoundClose
  <2> QED
    BY ONLY <1>3, <2>1, <2>7
<1>6. ASSUME t <= u
      PROVE  F!Diff(F!Value(p, q, u, TRUE), F!Value(n, q, u, TRUE)) <= 1
  <2> DEFINE B == F!Part(n, q, u)
             rest == r - y
  <2>1. B = s * r + y * (b - s) /\ B \in Nat /\ F!Value(n, q, u, TRUE) = (2 * B + r) \div (2 * r)
    <3>1. F!Temp(n) < F!Temp(q) /\ F!Temp(n) <= u /\ u <= F!Temp(q)
      BY <1>6 DEF t
    <3>2. B = s * r + y * (b - s) /\ B \in Nat
      BY <3>1, CurvePartFacts DEF b, r, s, t
    <3> QED
      BY <3>2 DEF F!Value, r, t
  <2>2. y \in Nat /\ rest \in Nat /\ rest <= r /\ x = m + y
    BY <1>1, <1>6 DEF m, r
  <2> HIDE DEF B, y, x
  <2>3. A * r - B * run = rest * bend
    BY <1>1, <1>2, <1>4, <2>1, <2>2, CurveRightIdentity
  <2> HIDE DEF bend, rest
  <2>4. rest * bend \in Nat /\ rest * bend <= r * bend /\ bend * r < run * r
        /\ r * bend = bend * r /\ run * r \in Nat
    BY <1>1, <1>4, <2>2, CurveProduct, CurvePositiveProduct
  <2>5. A * r \in Nat /\ B * run \in Nat
    BY <1>1, <1>2, <1>4, <2>1, CurveProduct
  <2>6. B * run <= A * r /\ A * r < B * run + run * r
    <3> DEFINE new == B * run
               old == A * r
               gain == rest * bend
               bound == run * r
               most == r * bend
               mid == bend * r
    <3>1. /\ old \in Nat /\ new \in Nat /\ gain \in Nat /\ bound \in Nat
          /\ old - new = gain /\ gain <= most /\ most = mid /\ mid < bound /\ mid \in Nat
      <4>1. mid \in Nat
        BY <1>1, <1>4, CurvePositiveProduct
      <4>2. old \in Nat /\ new \in Nat /\ old - new = gain
        BY <2>3, <2>5
      <4>3. gain \in Nat /\ bound \in Nat /\ gain <= most /\ most = mid /\ mid < bound
        BY <2>4
      <4> QED
        BY <4>1, <4>2, <4>3
    <3> HIDE DEF new, old, gain, bound, most, mid
    <3>2. new <= old /\ old < new + bound
      BY <3>1
    <3> QED
      BY <3>2 DEF new, old, bound
  <2>7. F!Diff((2 * A + run) \div (2 * run), (2 * B + r) \div (2 * r)) <= 1
    <3>1. /\ A \in Nat /\ B \in Nat /\ run \in Nat /\ r \in Nat /\ run > 0 /\ r > 0
          /\ B * run <= A * r /\ A * r < B * run + run * r
      BY <1>1, <1>2, <1>4, <2>1, <2>6
    <3> QED
      BY ONLY <3>1, CurveRoundClose
  <2> QED
    BY ONLY <1>3, <2>1, <2>7
<1> QED
  BY <1>5, <1>6 DEF t

CurveAdjacent(curve, i, j) ==
    /\ F!Temp(curve[i]) < F!Temp(curve[j])
    /\ \A k \in DOMAIN curve :
          F!Temp(curve[k]) <= F!Temp(curve[i]) \/ F!Temp(curve[j]) <= F!Temp(curve[k])

\* Between two adjacent points the curve is their segment.
LEMMA CurveAdjacentFacts ==
    ASSUME NEW curve \in F!Curves, F!Valid(curve), NEW i \in DOMAIN curve,
           NEW j \in DOMAIN curve, CurveAdjacent(curve, i, j), NEW t \in 0 .. F!Full,
           F!Temp(curve[i]) <= t, t <= F!Temp(curve[j]), NEW rounded \in BOOLEAN
    PROVE  F!Between(F!Sorted(curve), t, rounded) = F!Value(curve[i], curve[j], t, rounded)
<1> DEFINE p == curve[i]
           q == curve[j]
           sorted == F!Sorted(curve)
           n == Len(sorted)
           D == DOMAIN curve
           T(k) == F!Temp(sorted[k])
           s == F!Segment(sorted, t)
<1>1. /\ p \in CurvePoint /\ q \in CurvePoint /\ t \in Nat /\ F!Temp(p) \in Nat /\ F!Temp(q) \in Nat
      /\ F!Temp(p) < F!Temp(q) /\ curve # <<>>
  <2>1. DOMAIN <<>> = {}
    OBVIOUS
  <2> QED
    BY <2>1, CurvePointFacts, CurveFullFacts DEF CurveAdjacent
<1>2. CASE t = F!Temp(p)
  <2>1. F!Value(p, q, t, rounded) = F!Speed(p)
    BY <1>1, <1>2, CurveValueFacts
  <2> QED
    BY <1>1, <1>2, <2>1, CurveFacts
<1>3. CASE t = F!Temp(q)
  <2>1. F!Value(p, q, t, rounded) = F!Speed(q)
    BY <1>1, <1>3, CurveValueFacts
  <2> QED
    BY <1>1, <1>3, <2>1, CurveFacts
<1>4. CASE F!Temp(p) < t /\ t < F!Temp(q)
  <2>1. /\ sorted \in F!Curves /\ n = Len(curve) /\ DOMAIN sorted = D /\ CurveRising(sorted)
        /\ \A k \in D : \E a \in D : sorted[k] = curve[a]
        /\ \A a \in D : \E k \in D : sorted[k] = curve[a]
    BY CurveSortedFacts DEF CurveRising
  <2>2. PICK k \in D : sorted[k] = p
    BY <2>1
  <2>3. PICK m \in D : sorted[m] = q
    BY <2>1
  <2>4. /\ n \in Nat /\ D = 1 .. n /\ sorted # <<>> /\ \A a \in D : T(a) \in Nat
        /\ \A a, b \in D : a <= b => T(a) <= T(b)
    BY <1>1, <2>1, CurvePointFacts DEF CurveRising
  <2>5. k \in Nat /\ m \in Nat /\ 1 \in D /\ n \in D /\ 1 <= k /\ m <= n
    BY <2>4
  <2>6. T(k) = F!Temp(p) /\ T(m) = F!Temp(q)
    BY <2>2, <2>3
  <2>7. T(1) < t /\ t < T(n)
    <3> HIDE DEF T, n, D, p, q
    <3> QED
      BY <1>1, <1>4, <2>4, <2>5, <2>6
  <2>8. /\ s \in Nat /\ s # 0 /\ s \in D /\ s + 1 \in D
        /\ T(s) <= t /\ t <= T(s + 1) /\ T(s) < T(s + 1)
    BY <2>1, <2>4, <2>7, CurveSegmentFacts
  <2>9. PICK a \in D : sorted[s] = curve[a]
    BY <2>1, <2>8
  <2>10. PICK b \in D : sorted[s + 1] = curve[b]
    BY <2>1, <2>8
  <2>11. /\ T(s) <= F!Temp(p) \/ F!Temp(q) <= T(s)
         /\ T(s + 1) <= F!Temp(p) \/ F!Temp(q) <= T(s + 1)
    BY <2>9, <2>10 DEF CurveAdjacent
  <2> HIDE DEF s
  <2>12. T(s) = F!Temp(p) /\ T(s + 1) = F!Temp(q)
    <3> HIDE DEF T, n, D, p, q
    <3>1. T(s) <= F!Temp(p) /\ F!Temp(q) <= T(s + 1) /\ T(s) \in Nat /\ T(s + 1) \in Nat
      BY <1>1, <1>4, <2>4, <2>8, <2>11
    <3>2. F!Temp(p) <= T(s)
      <4>1. CASE k <= s
        BY <2>4, <2>6, <2>8, <4>1
      <4>2. CASE s + 1 <= k
        <5>1. T(s + 1) <= F!Temp(p)
          BY <2>4, <2>6, <2>8, <4>2
        <5> QED
          BY <1>1, <3>1, <5>1
      <4> QED
        BY <2>5, <2>8, <4>1, <4>2
    <3>3. T(s + 1) <= F!Temp(q)
      <4>1. CASE s + 1 <= m
        BY <2>4, <2>6, <2>8, <4>1
      <4>2. CASE m <= s
        <5>1. F!Temp(q) <= T(s)
          BY <2>4, <2>6, <2>8, <4>2
        <5> QED
          BY <1>1, <3>1, <5>1
      <4> QED
        BY <2>5, <2>8, <4>1, <4>2
    <3> QED
      BY <1>1, <3>1, <3>2, <3>3
  <2>13. F!Speed(sorted[s]) = F!Speed(p) /\ F!Speed(sorted[s + 1]) = F!Speed(q)
    BY <2>9, <2>10, <2>12 DEF F!Valid
  <2>14. F!Between(sorted, t, rounded) = F!Value(sorted[s], sorted[s + 1], t, rounded)
    <3>1. ~(t <= T(1)) /\ ~(t >= T(n)) /\ s # 0 /\ T(s) # T(s + 1)
      <4> HIDE DEF T, n, D, p, q
      <4> QED
        BY <1>1, <2>4, <2>5, <2>7, <2>8
    <3>2. ~(t <= F!Temp(sorted[1])) /\ ~(t >= F!Temp(F!Last(sorted)))
      BY <3>1 DEF F!Last
    <3> QED
      BY <2>4, <3>1, <3>2 DEF F!Between, s
  <2>15. F!Value(sorted[s], sorted[s + 1], t, rounded) = F!Value(p, q, t, rounded)
    <3> HIDE DEF p, q, sorted
    <3> QED
      BY <2>12, <2>13 DEF F!Value, F!Part
  <2> QED
    BY <2>14, <2>15
<1> QED
  BY <1>1, <1>2, <1>3, <1>4

\* Outside its points a curve has the speed of the nearest one.
LEMMA CurveEndFacts ==
    ASSUME NEW curve \in F!Curves, F!Valid(curve), NEW i \in DOMAIN curve,
           NEW t \in 0 .. F!Full,
           NEW rounded \in BOOLEAN
    PROVE  /\ t <= F!Temp(curve[i]) /\ (\A k \in DOMAIN curve : F!Temp(curve[i]) <= F!Temp(curve[k]))
              => F!Between(F!Sorted(curve), t, rounded) = F!Speed(curve[i])
           /\ F!Temp(curve[i]) <= t /\ (\A k \in DOMAIN curve : F!Temp(curve[k]) <= F!Temp(curve[i]))
              => F!Between(F!Sorted(curve), t, rounded) = F!Speed(curve[i])
<1> DEFINE sorted == F!Sorted(curve)
           n == Len(sorted)
           D == DOMAIN curve
           T(k) == F!Temp(sorted[k])
           c == F!Temp(curve[i])
           value == F!Between(sorted, t, rounded)
<1>1. /\ sorted \in F!Curves /\ n = Len(curve) /\ DOMAIN sorted = D
      /\ \A k \in D : \E a \in D : sorted[k] = curve[a]
      /\ \A a \in D : \E k \in D : sorted[k] = curve[a]
      /\ \A a, b \in D : a <= b => T(a) <= T(b)
  BY CurveSortedFacts
<1>2. /\ n \in Nat /\ D = 1 .. n /\ sorted # <<>> /\ \A a \in D : T(a) \in Nat
      /\ t \in Nat /\ c \in Nat
  <2>1. D # {} /\ DOMAIN <<>> = {}
    OBVIOUS
  <2> QED
    BY <1>1, <2>1, CurvePointFacts, CurveFullFacts
<1>3. 1 \in D /\ n \in D /\ \A k \in D : 1 <= k /\ k <= n
  BY <1>2
<1>4. PICK k \in D : sorted[k] = curve[i]
  BY <1>1
<1>5. PICK a \in D : sorted[1] = curve[a]
  BY <1>1, <1>3
<1>6. PICK b \in D : sorted[n] = curve[b]
  BY <1>1, <1>3
<1>7. T(1) <= c /\ c <= T(n)
  <2>1. T(k) = c
    BY <1>4
  <2> HIDE DEF T, n, D, c
  <2> QED
    BY <1>1, <1>3, <2>1
<1>8. value = IF t <= T(1) THEN F!Speed(sorted[1])
              ELSE IF t >= T(n) THEN F!Speed(sorted[n])
              ELSE value
  BY <1>2 DEF F!Between, F!Last
<1>9. T(1) = c => F!Speed(sorted[1]) = F!Speed(curve[i])
  BY <1>5 DEF F!Valid
<1>10. T(n) = c => F!Speed(sorted[n]) = F!Speed(curve[i])
  BY <1>6 DEF F!Valid
<1>11. ASSUME t <= c, \A m \in D : c <= F!Temp(curve[m])
       PROVE  value = F!Speed(curve[i])
  <2>1. c <= T(1)
    BY <1>5, <1>11
  <2> HIDE DEF T, n, D, c, value
  <2>2. T(1) = c /\ t <= T(1)
    BY <1>2, <1>3, <1>7, <1>11, <2>1
  <2> QED
    BY <1>8, <1>9, <2>2
<1>12. ASSUME c <= t, \A m \in D : F!Temp(curve[m]) <= c
       PROVE  value = F!Speed(curve[i])
  <2>1. T(n) <= c
    BY <1>6, <1>12
  <2> HIDE DEF T, n, D, c, value
  <2>2. T(n) = c /\ t >= T(n) /\ (t <= T(1) => T(1) = c)
    BY <1>2, <1>3, <1>7, <1>12, <2>1
  <2> QED
    BY <1>8, <1>9, <1>10, <2>2
<1> QED
  BY <1>11, <1>12

\* Every temperature is outside the points, or between two adjacent ones.
LEMMA CurvePlaceFacts ==
    ASSUME NEW curve \in F!Curves, curve # <<>>, NEW t \in 0 .. F!Full
    PROVE  \/ \E i \in DOMAIN curve :
                 t <= F!Temp(curve[i]) /\ \A k \in DOMAIN curve : F!Temp(curve[i]) <= F!Temp(curve[k])
           \/ \E i \in DOMAIN curve :
                 F!Temp(curve[i]) <= t /\ \A k \in DOMAIN curve : F!Temp(curve[k]) <= F!Temp(curve[i])
           \/ \E i, j \in DOMAIN curve :
                 CurveAdjacent(curve, i, j) /\ F!Temp(curve[i]) <= t /\ t <= F!Temp(curve[j])
<1> DEFINE sorted == F!Sorted(curve)
           n == Len(sorted)
           D == DOMAIN curve
           T(k) == F!Temp(sorted[k])
           s == F!Segment(sorted, t)
<1>1. /\ sorted \in F!Curves /\ n = Len(curve) /\ DOMAIN sorted = D /\ CurveRising(sorted)
      /\ \A k \in D : \E a \in D : sorted[k] = curve[a]
      /\ \A a \in D : \E k \in D : sorted[k] = curve[a]
      /\ \A a, b \in D : a <= b => T(a) <= T(b)
  BY CurveSortedFacts DEF CurveRising
<1>2. /\ n \in Nat /\ D = 1 .. n /\ n # 0 /\ sorted # <<>> /\ \A a \in D : T(a) \in Nat
      /\ t \in Nat
  BY <1>1, CurvePointFacts, CurveFullFacts
<1>3. 1 \in D /\ n \in D /\ \A k \in D : 1 <= k /\ k <= n /\ k \in Nat
  BY <1>2
<1>4. ASSUME NEW k \in D
      PROVE  \E a \in D : T(k) = F!Temp(curve[a]) /\ sorted[k] = curve[a]
  BY <1>1
<1>5. CASE t <= T(1)
  <2>1. PICK i \in D : T(1) = F!Temp(curve[i])
    BY <1>3, <1>4
  <2>2. ASSUME NEW k \in D PROVE F!Temp(curve[i]) <= F!Temp(curve[k])
    <3>1. PICK m \in D : sorted[m] = curve[k]
      BY <1>1
    <3>2. T(1) <= T(m)
      BY <1>1, <1>3
    <3> QED
      BY <2>1, <3>1, <3>2
  <2> QED
    BY <1>5, <2>1, <2>2
<1>6. CASE t >= T(n)
  <2>1. PICK i \in D : T(n) = F!Temp(curve[i])
    BY <1>3, <1>4
  <2>2. ASSUME NEW k \in D PROVE F!Temp(curve[k]) <= F!Temp(curve[i])
    <3>1. PICK m \in D : sorted[m] = curve[k]
      BY <1>1
    <3>2. T(m) <= T(n)
      BY <1>1, <1>3
    <3> QED
      BY <2>1, <3>1, <3>2
  <2>3. F!Temp(curve[i]) <= t
    BY <1>6, <2>1
  <2> QED
    BY <2>2, <2>3
<1>7. CASE T(1) < t /\ t < T(n)
  <2>1. /\ s \in Nat /\ s # 0 /\ s \in D /\ s + 1 \in D
        /\ T(s) <= t /\ t <= T(s + 1) /\ T(s) < T(s + 1)
    BY <1>1, <1>2, <1>7, CurveSegmentFacts
  <2>2. PICK i \in D : T(s) = F!Temp(curve[i])
    BY <1>4, <2>1
  <2>3. PICK j \in D : T(s + 1) = F!Temp(curve[j])
    BY <1>4, <2>1
  <2>4. ASSUME NEW k \in D
        PROVE  F!Temp(curve[k]) <= F!Temp(curve[i]) \/ F!Temp(curve[j]) <= F!Temp(curve[k])
    <3>1. PICK m \in D : T(m) = F!Temp(curve[k])
      BY <1>1
    <3>2. T(m) <= T(s) \/ T(s + 1) <= T(m)
      <4> HIDE DEF T, s, n, D
      <4>1. m <= s \/ s + 1 <= m
        BY <1>3, <2>1
      <4> QED
        BY <1>1, <2>1, <4>1
    <3> QED
      BY <2>2, <2>3, <3>1, <3>2
  <2>5. CurveAdjacent(curve, i, j)
    BY <2>1, <2>2, <2>3, <2>4 DEF CurveAdjacent
  <2> QED
    BY <2>1, <2>2, <2>3, <2>5
<1> QED
  BY <1>2, <1>3, <1>5, <1>6, <1>7

LEMMA CurveAppendFacts ==
    ASSUME NEW curve \in F!Curves, NEW x \in CurvePoint
    PROVE  /\ Append(curve, x) \in F!Curves
           /\ Len(Append(curve, x)) \in DOMAIN Append(curve, x)
           /\ Append(curve, x)[Len(Append(curve, x))] = x
           /\ \A k \in DOMAIN curve :
                 k \in DOMAIN Append(curve, x) /\ Append(curve, x)[k] = curve[k]
           /\ \A k \in DOMAIN Append(curve, x) :
                 k \in DOMAIN curve \/ k = Len(Append(curve, x))
<1> DEFINE bent == Append(curve, x)
<1>1. curve \in Seq(CurvePoint)
  BY DEF F!Curves, CurvePoint
<1>2. Len(curve) \in Nat /\ DOMAIN curve = 1 .. Len(curve)
  BY CurvePointFacts
<1>3. /\ bent \in Seq(CurvePoint) /\ Len(bent) = Len(curve) + 1 /\ bent[Len(curve) + 1] = x
      /\ \A k \in 1 .. Len(curve) : bent[k] = curve[k]
  BY <1>1, AppendProperties
<1>4. bent \in F!Curves /\ DOMAIN bent = 1 .. Len(bent)
  <2>1. bent \in F!Curves
    BY <1>3 DEF F!Curves, CurvePoint
  <2> QED
    BY <2>1, CurvePointFacts
<1> HIDE DEF bent
<1>5. /\ bent \in F!Curves /\ Len(bent) \in DOMAIN bent /\ bent[Len(bent)] = x
      /\ \A k \in DOMAIN curve : k \in DOMAIN bent /\ bent[k] = curve[k]
      /\ \A k \in DOMAIN bent : k \in DOMAIN curve \/ k = Len(bent)
  BY <1>2, <1>3, <1>4
<1> QED
  BY <1>5 DEF bent

\* The point that add_point appends lies on the curve, so that the curve stays
\* one that Save accepts.
LEMMA CurveNewPointFacts ==
    ASSUME NEW curve \in F!Curves, curve # <<>>, F!Valid(curve), NEW t \in 0 .. F!Full,
           NEW v, v = F!Between(F!Sorted(curve), t, FALSE)
    PROVE  /\ <<t, v>> \in CurvePoint /\ F!Temp(<<t, v>>) = t /\ F!Speed(<<t, v>>) = v
           /\ F!Valid(Append(curve, <<t, v>>))
<1> DEFINE bent == Append(curve, <<t, v>>)
           m == Len(bent)
<1>1. /\ v \in 0 .. F!Full
      /\ \A k \in DOMAIN curve : t = F!Temp(curve[k]) => v = F!Speed(curve[k])
  <2>1. FALSE \in BOOLEAN
    OBVIOUS
  <2> QED
    BY <2>1, CurveFacts
<1>2. <<t, v>> \in CurvePoint /\ F!Temp(<<t, v>>) = t /\ F!Speed(<<t, v>>) = v
  BY <1>1 DEF CurvePoint, F!Temp, F!Speed
<1>3. /\ bent[m] = <<t, v>>
      /\ \A k \in DOMAIN curve : bent[k] = curve[k]
      /\ \A k \in DOMAIN bent : k \in DOMAIN curve \/ k = m
  <2> DEFINE x == <<t, v>>
  <2>1. x \in CurvePoint
    BY <1>2
  <2> HIDE DEF x
  <2>2. /\ Append(curve, x)[Len(Append(curve, x))] = x
        /\ \A k \in DOMAIN curve : Append(curve, x)[k] = curve[k]
        /\ \A k \in DOMAIN Append(curve, x) :
              k \in DOMAIN curve \/ k = Len(Append(curve, x))
    BY <2>1, CurveAppendFacts
  <2> QED
    BY <2>2 DEF x
<1> HIDE DEF bent, m
<1>4. ASSUME NEW i \in DOMAIN bent, NEW j \in DOMAIN bent, F!Temp(bent[i]) = F!Temp(bent[j])
      PROVE  F!Speed(bent[i]) = F!Speed(bent[j])
  <2>1. CASE i = m /\ j = m
    BY <2>1
  <2>2. CASE i = m /\ j \in DOMAIN curve
    BY <1>1, <1>2, <1>3, <1>4, <2>2
  <2>3. CASE i \in DOMAIN curve /\ j = m
    BY <1>1, <1>2, <1>3, <1>4, <2>3
  <2>4. CASE i \in DOMAIN curve /\ j \in DOMAIN curve
    BY <1>3, <1>4, <2>4 DEF F!Valid
  <2> QED
    BY <1>3, <2>1, <2>2, <2>3, <2>4
<1>5. F!Valid(bent)
  BY <1>4 DEF F!Valid
<1> QED
  BY <1>2, <1>5 DEF bent

LEMMA CurveDiffSame == ASSUME NEW a \in Nat PROVE F!Diff(a, a) <= 1
BY DEF F!Diff

\* A new point on the curve changes no speed by more than a percent.
LEMMA CurveNewPointBends ==
    ASSUME NEW curve \in F!Curves, curve # <<>>, F!Valid(curve), NEW t \in 0 .. F!Full,
           NEW v, v = F!Between(F!Sorted(curve), t, FALSE),
           NEW bent, bent = Append(curve, <<t, v>>), NEW u \in 0 .. F!Full
    PROVE  F!Diff(F!Between(F!Sorted(curve), u, TRUE), F!Between(F!Sorted(bent), u, TRUE)) <= 1
<1> DEFINE D == DOMAIN curve
           m == Len(bent)
           T(k) == F!Temp(bent[k])
           S(k) == F!Speed(bent[k])
           before == F!Between(F!Sorted(curve), u, TRUE)
           after == F!Between(F!Sorted(bent), u, TRUE)
<1>1. <<t, v>> \in CurvePoint /\ F!Temp(<<t, v>>) = t /\ F!Speed(<<t, v>>) = v /\ F!Valid(bent)
  BY CurveNewPointFacts
<1>2. /\ bent \in F!Curves /\ m \in DOMAIN bent /\ bent[m] = <<t, v>>
      /\ \A k \in D : k \in DOMAIN bent /\ bent[k] = curve[k]
      /\ \A k \in DOMAIN bent : k \in D \/ k = m
  <2> DEFINE x == <<t, v>>
  <2>1. x \in CurvePoint /\ bent = Append(curve, x)
    BY <1>1
  <2> HIDE DEF x
  <2>2. /\ Append(curve, x) \in F!Curves
        /\ Len(Append(curve, x)) \in DOMAIN Append(curve, x)
        /\ Append(curve, x)[Len(Append(curve, x))] = x
        /\ \A k \in DOMAIN curve :
              k \in DOMAIN Append(curve, x) /\ Append(curve, x)[k] = curve[k]
        /\ \A k \in DOMAIN Append(curve, x) :
              k \in DOMAIN curve \/ k = Len(Append(curve, x))
    BY <2>1, CurveAppendFacts
  <2> QED
    BY <2>1, <2>2 DEF x
<1>3. /\ t \in Nat /\ u \in Nat /\ T(m) = t /\ S(m) = v /\ v \in Nat
      /\ \A k \in DOMAIN bent : T(k) \in Nat /\ S(k) \in Nat /\ bent[k] \in CurvePoint
  <2>1. \A k \in DOMAIN bent : T(k) \in Nat /\ S(k) \in Nat /\ bent[k] \in CurvePoint
    BY <1>2, CurvePointFacts
  <2> QED
    BY <1>1, <1>2, <2>1, CurveFullFacts
<1>4. TRUE \in BOOLEAN /\ FALSE \in BOOLEAN /\ DOMAIN bent # {}
  BY <1>2
<1>5. before \in Nat
  <2>1. before \in 0 .. F!Full
    BY <1>4, CurveFacts
  <2> QED
    BY <2>1, CurveFullFacts
<1>6. \A k \in D : curve[k] = bent[k] /\ F!Temp(curve[k]) = T(k) /\ F!Speed(curve[k]) = S(k)
  BY <1>2
<1> HIDE DEF D, m, T, S, before, after
<1>7. CASE before = after
  <2>1. F!Diff(before, after) <= 1
    BY <1>5, <1>7, CurveDiffSame
  <2> QED
    BY <2>1 DEF before, after
<1>8. \A i, j \in DOMAIN bent :
          T(i) < T(j) /\ (\A k \in DOMAIN bent : T(k) <= T(i) \/ T(j) <= T(k))
             => CurveAdjacent(bent, i, j)
  BY DEF CurveAdjacent, T
<1>9. \A i, j \in DOMAIN bent :
          CurveAdjacent(bent, i, j) /\ T(i) <= u /\ u <= T(j)
             => after = F!Value(bent[i], bent[j], u, TRUE)
  <2> SUFFICES ASSUME NEW i \in DOMAIN bent, NEW j \in DOMAIN bent,
                      CurveAdjacent(bent, i, j), T(i) <= u, u <= T(j)
               PROVE  after = F!Value(bent[i], bent[j], u, TRUE)
    OBVIOUS
  <2>1. F!Temp(bent[i]) <= u /\ u <= F!Temp(bent[j])
    BY DEF T
  <2> DEFINE w == F!Between(F!Sorted(bent), u, TRUE)
  <2>2. w = F!Value(bent[i], bent[j], u, TRUE)
    <3>1. /\ bent \in F!Curves /\ F!Valid(bent) /\ TRUE \in BOOLEAN /\ u \in 0 .. F!Full
          /\ i \in DOMAIN bent /\ j \in DOMAIN bent /\ CurveAdjacent(bent, i, j)
      BY <1>1, <1>2, <1>4
    <3> QED
      BY ONLY <2>1, <3>1, CurveAdjacentFacts
  <2> QED
    BY <2>2 DEF after
<1>10. ASSUME NEW i \in DOMAIN bent, NEW j \in DOMAIN bent, NEW w,
              w = F!Value(bent[i], bent[j], u, TRUE), T(i) < T(j), T(i) <= u, u <= T(j)
       PROVE  /\ w \in Nat
              /\ \/ S(i) <= w /\ w <= S(j)
                 \/ S(j) <= w /\ w <= S(i)
  <2>1. /\ bent[i] \in CurvePoint /\ bent[j] \in CurvePoint /\ F!Temp(bent[i]) < F!Temp(bent[j])
        /\ F!Temp(bent[i]) <= u /\ u <= F!Temp(bent[j])
    BY <1>3, <1>10 DEF T
  <2>2. /\ w \in Nat
        /\ \/ F!Speed(bent[i]) <= w /\ w <= F!Speed(bent[j])
           \/ F!Speed(bent[j]) <= w /\ w <= F!Speed(bent[i])
    BY <1>3, <1>4, <1>10, <2>1, CurveValueFacts
  <2> QED
    BY <2>2 DEF S
<1>11. ASSUME NEW i \in D, u <= T(i), \A k \in D : T(i) <= T(k)
      PROVE  before = after
  <2>1. before = S(i) /\ (t <= T(i) => v = S(i))
    BY <1>4, <1>6, <1>11, CurveEndFacts DEF D, before
  <2>2. CASE T(i) <= t
    <3>1. \A k \in DOMAIN bent : T(i) <= T(k)
      BY <1>2, <1>3, <1>11, <2>2
    <3>2. after = S(i)
      BY <1>1, <1>2, <1>4, <1>11, <3>1, CurveEndFacts DEF after, T, S
    <3> QED
      BY <2>1, <3>2
  <2>3. CASE t < T(i) /\ u <= t
    <3>1. \A k \in DOMAIN bent : T(m) <= T(k)
      BY <1>2, <1>3, <1>11, <2>3
    <3>2. u <= T(m)
      BY <1>3, <2>3
    <3>3. after = S(m)
      BY <1>1, <1>2, <1>4, <3>1, <3>2, CurveEndFacts DEF after, T, S
    <3>4. t <= T(i)
      BY <1>2, <1>3, <2>3
    <3> QED
      BY <1>3, <2>1, <3>3, <3>4
  <2>4. CASE t < T(i) /\ t <= u
    <3>1. T(m) < T(i) /\ i \in DOMAIN bent /\ T(m) <= u /\ u <= T(i)
      BY <1>2, <1>3, <1>11, <2>4
    <3>5. \A k \in DOMAIN bent : T(k) <= T(m) \/ T(i) <= T(k)
      BY <1>2, <1>3, <1>11
    <3>2. after = F!Value(bent[m], bent[i], u, TRUE)
      BY <1>2, <1>8, <1>9, <3>1, <3>5
    <3>3. /\ after \in Nat
          /\ \/ S(m) <= after /\ after <= S(i)
             \/ S(i) <= after /\ after <= S(m)
      BY <1>2, <1>10, <3>1, <3>2
    <3>4. S(m) = S(i) /\ S(i) \in Nat
      <4>1. t \in Nat /\ T(i) \in Nat /\ S(m) = v /\ S(i) \in Nat
        BY <1>3, <3>1
      <4>2. t <= T(i)
        BY ONLY <2>4, <4>1
      <4> QED
        BY <2>1, <4>1, <4>2
    <3> QED
      BY <2>1, <3>3, <3>4
  <2> QED
    BY <1>2, <1>3, <2>2, <2>3, <2>4
<1>12. ASSUME NEW i \in D, T(i) <= u, \A k \in D : T(k) <= T(i)
      PROVE  before = after
  <2>1. before = S(i) /\ (T(i) <= t => v = S(i))
    BY <1>4, <1>6, <1>12, CurveEndFacts DEF D, before
  <2>2. CASE t <= T(i)
    <3>1. \A k \in DOMAIN bent : T(k) <= T(i)
      BY <1>2, <1>3, <1>12, <2>2
    <3>2. after = S(i)
      BY <1>1, <1>2, <1>4, <1>12, <3>1, CurveEndFacts DEF after, T, S
    <3> QED
      BY <2>1, <3>2
  <2>3. CASE T(i) < t /\ t <= u
    <3>1. \A k \in DOMAIN bent : T(k) <= T(m)
      BY <1>2, <1>3, <1>12, <2>3
    <3>2. T(m) <= u
      BY <1>3, <2>3
    <3>3. after = S(m)
      BY <1>1, <1>2, <1>4, <3>1, <3>2, CurveEndFacts DEF after, T, S
    <3>4. T(i) <= t
      BY <1>2, <1>3, <2>3
    <3> QED
      BY <1>3, <2>1, <3>3, <3>4
  <2>4. CASE T(i) < t /\ u <= t
    <3>1. T(i) < T(m) /\ i \in DOMAIN bent /\ T(i) <= u /\ u <= T(m)
      BY <1>2, <1>3, <1>12, <2>4
    <3>5. \A k \in DOMAIN bent : T(k) <= T(i) \/ T(m) <= T(k)
      BY <1>2, <1>3, <1>12
    <3>2. after = F!Value(bent[i], bent[m], u, TRUE)
      BY <1>2, <1>8, <1>9, <3>1, <3>5
    <3>3. /\ after \in Nat
          /\ \/ S(m) <= after /\ after <= S(i)
             \/ S(i) <= after /\ after <= S(m)
      BY <1>2, <1>10, <3>1, <3>2
    <3>4. S(m) = S(i) /\ S(i) \in Nat
      <4>1. t \in Nat /\ T(i) \in Nat /\ S(m) = v /\ S(i) \in Nat
        BY <1>3, <3>1
      <4>2. T(i) <= t
        BY ONLY <2>4, <4>1
      <4> QED
        BY <2>1, <4>1, <4>2
    <3> QED
      BY <2>1, <3>3, <3>4
  <2> QED
    BY <1>2, <1>3, <2>2, <2>3, <2>4
<1>13. ASSUME NEW i \in D, NEW j \in D, CurveAdjacent(curve, i, j), T(i) <= u, u <= T(j)
       PROVE  F!Diff(before, after) <= 1
  <2>1. before = F!Value(bent[i], bent[j], u, TRUE)
    <3>1. F!Temp(curve[i]) <= u /\ u <= F!Temp(curve[j])
      BY <1>6, <1>13
    <3>2. before = F!Value(curve[i], curve[j], u, TRUE)
      BY <1>4, <1>13, <3>1, CurveAdjacentFacts DEF D, before
    <3> QED
      BY <1>6, <3>2
  <2>5. T(i) <= t /\ t <= T(j) => v = F!Value(bent[i], bent[j], t, FALSE)
    <3> SUFFICES ASSUME T(i) <= t, t <= T(j) PROVE v = F!Value(bent[i], bent[j], t, FALSE)
      OBVIOUS
    <3>1. F!Temp(curve[i]) <= t /\ t <= F!Temp(curve[j])
      BY <1>6
    <3>2. v = F!Value(curve[i], curve[j], t, FALSE)
      BY <1>4, <1>13, <3>1, CurveAdjacentFacts DEF D
    <3> QED
      BY <1>6, <3>2
  <2>2. /\ T(i) < T(j) /\ i \in DOMAIN bent /\ j \in DOMAIN bent
        /\ \A k \in D : T(k) <= T(i) \/ T(j) <= T(k)
    <3>1. /\ F!Temp(curve[i]) < F!Temp(curve[j])
          /\ \A k \in D : F!Temp(curve[k]) <= F!Temp(curve[i]) \/ F!Temp(curve[j]) <= F!Temp(curve[k])
      BY <1>13 DEF CurveAdjacent, D
    <3> QED
      BY <1>2, <1>6, <3>1
  <2>3. CASE t <= T(i) \/ T(j) <= t
    <3>1. \A k \in DOMAIN bent : T(k) <= T(i) \/ T(j) <= T(k)
      BY <1>2, <1>3, <2>2, <2>3
    <3>2. after = F!Value(bent[i], bent[j], u, TRUE)
      BY <1>13, <1>8, <1>9, <2>2, <3>1
    <3> QED
      BY <1>5, <2>1, <3>2, CurveDiffSame
  <2>4. CASE T(i) < t /\ t < T(j)
    <3>1. S(m) = F!Value(bent[i], bent[j], T(m), FALSE) /\ T(i) < T(m) /\ T(m) < T(j)
      <4>1. T(i) <= t /\ t <= T(j) /\ T(m) = t /\ S(m) = v
        BY <1>2, <1>3, <2>2, <2>4
      <4>2. v = F!Value(bent[i], bent[j], t, FALSE)
        BY <2>5, <4>1
      <4> QED
        BY <2>4, <4>1, <4>2
    <3>2. /\ u <= T(m) => F!Diff(before, F!Value(bent[i], bent[m], u, TRUE)) <= 1
          /\ T(m) <= u => F!Diff(before, F!Value(bent[m], bent[j], u, TRUE)) <= 1
      BY <1>2, <1>3, <1>13, <2>1, <2>2, <3>1, CurveBendFacts DEF T, S
    <3>3. CASE u <= T(m)
      <4>1. \A k \in DOMAIN bent : T(k) <= T(i) \/ T(m) <= T(k)
        BY <1>2, <1>3, <2>2, <3>1
      <4>2. after = F!Value(bent[i], bent[m], u, TRUE)
        BY <1>2, <1>13, <1>8, <1>9, <2>2, <3>1, <3>3, <4>1
      <4> QED
        BY <3>2, <3>3, <4>2
    <3>4. CASE T(m) <= u
      <4>1. \A k \in DOMAIN bent : T(k) <= T(m) \/ T(j) <= T(k)
        <5>1. /\ T(m) \in Nat /\ T(j) \in Nat /\ T(m) <= T(m)
              /\ \A k \in D : T(k) \in Nat /\ (T(k) <= T(i) \/ T(j) <= T(k))
          BY <1>2, <1>3, <2>2
        <5>2. ASSUME NEW k \in D PROVE T(k) <= T(m) \/ T(j) <= T(k)
          <6>1. T(i) \in Nat /\ T(k) \in Nat
            BY <1>3, <2>2, <5>1
          <6> QED
            BY <3>1, <5>1, <6>1
        <5> QED
          BY <1>2, <5>1, <5>2
      <4>2. after = F!Value(bent[m], bent[j], u, TRUE)
        BY <1>2, <1>13, <1>8, <1>9, <2>2, <3>1, <3>4, <4>1
      <4> QED
        BY <3>2, <3>4, <4>2
    <3> QED
      BY <1>2, <1>3, <3>3, <3>4
  <2> QED
    BY <1>2, <1>3, <2>2, <2>3, <2>4
<1>14. \/ \E i \in D : u <= T(i) /\ \A k \in D : T(i) <= T(k)
       \/ \E i \in D : T(i) <= u /\ \A k \in D : T(k) <= T(i)
       \/ \E i, j \in D : CurveAdjacent(curve, i, j) /\ T(i) <= u /\ u <= T(j)
  <2>1. \/ \E i \in D : u <= F!Temp(curve[i]) /\ \A k \in D : F!Temp(curve[i]) <= F!Temp(curve[k])
        \/ \E i \in D : F!Temp(curve[i]) <= u /\ \A k \in D : F!Temp(curve[k]) <= F!Temp(curve[i])
        \/ \E i, j \in D : CurveAdjacent(curve, i, j) /\ F!Temp(curve[i]) <= u /\ u <= F!Temp(curve[j])
    BY CurvePlaceFacts DEF D
  <2> QED
    BY <1>6, <2>1
<1>15. before = after \/ F!Diff(before, after) <= 1
  BY <1>11, <1>12, <1>13, <1>14
<1>16. F!Diff(before, after) <= 1
  BY <1>5, <1>15, CurveDiffSame
<1> QED
  BY <1>16 DEF before, after

LEMMA CurveAddSafe ==
    ASSUME CurveInv, F!AddPoint, F!Valid(points)
    PROVE  LET fan == F!CalculateFanSpeed(points)
               new == F!CalculateFanSpeed(points') IN
           \A t \in 0 .. F!Full : F!Diff(fan[t], new[t]) <= 1
<1> DEFINE t == F!NewTemp(F!Sorted(points))
           v == F!Between(F!Sorted(points), t, FALSE)
<1>1. points \in F!Curves /\ points # <<>>
  <2>1. points \in F!Curves /\ Len(points) \in 2 .. MaxPoints
    BY DEF CurveInv
  <2> QED
    BY <2>1, CurvePointFacts
<1>2. t \in 0 .. F!Full
  <2>1. F!Sorted(points) \in F!Curves /\ F!Sorted(points) # <<>>
    BY <1>1, CurveSortedFacts, CurvePointFacts
  <2> QED
    BY <2>1, CurveNewTempFacts
<1>3. points' = Append(points, <<t, v>>)
  BY <1>1 DEF F!AddPoint, F!InterpolateSpeed
<1> HIDE DEF t, v
<1>4. \A u \in 0 .. F!Full :
         /\ F!CalculateFanSpeed(points)[u] = F!Between(F!Sorted(points), u, TRUE)
         /\ F!CalculateFanSpeed(points')[u] = F!Between(F!Sorted(points'), u, TRUE)
  BY DEF F!CalculateFanSpeed
<1>5. \A u \in 0 .. F!Full :
         F!Diff(F!Between(F!Sorted(points), u, TRUE), F!Between(F!Sorted(points'), u, TRUE)) <= 1
  <2> TAKE u \in 0 .. F!Full
  <2>1. v = F!Between(F!Sorted(points), t, FALSE)
    BY DEF v
  <2> QED
    BY <1>1, <1>2, <1>3, <2>1, CurveNewPointBends
<1> QED
  BY <1>4, <1>5

-----------------------------------------------------------------------------
(* The rates: PollRates *)

RateSections == [R!Rate -> Intervals]

RateCommandType == [kind : {"register", "update"}, id : R!Component, interval : Intervals]

RateCallType ==
    [kind : {"sync"}, rate : R!Rate, value : RateSections]
        \cup [kind : {"update"}, rate : R!Rate, value : Intervals]

RateAppTypes ==
    /\ rates \in RateSections /\ disk \in RateSections
    /\ calls \in Seq(RateCallType)

RateCoordinatorTypes ==
    /\ components \in [DOMAIN components -> R!ComponentType]
    /\ DOMAIN components \subseteq R!Component
    /\ commands \in Seq(RateCommandType)
    /\ sleep \in 0 .. R!Max(Intervals \cup {Empty})

RateDaemonTypes ==
    /\ home \in BOOLEAN
    /\ stored \in [R!Job -> Intervals] /\ jobs \in [R!Job -> Intervals]

RateTypes ==
    /\ R!RateConstants
    /\ RateAppTypes /\ RateCoordinatorTypes /\ RateDaemonTypes
    /\ trail \in [current : BOOLEAN, lost : BOOLEAN]

\* The coordinator wakes for every component in time.
RateAwake == \A id \in DOMAIN components : sleep <= R!Remaining(components[id])

RateLastFor(id, i) == commands[i].id = id /\ \A j \in DOMAIN commands : j > i => commands[j].id # id

\* The last command for a component carries its rate; when none is left the
\* component has it, and its registration came before.
RateHeard(id) ==
    /\ \A i \in DOMAIN commands : RateLastFor(id, i) => commands[i].interval = rates[R!RateOf(id)]
    /\ (\A i \in DOMAIN commands : commands[i].id # id) =>
          id \in DOMAIN components /\ components[id].interval = rates[R!RateOf(id)]
    /\ \/ id \in DOMAIN components
       \/ \E i \in DOMAIN commands : commands[i].id = id /\ commands[i].kind = "register"

RateAllHeard == \A id \in R!Component : RateHeard(id)

RateSync(i) == calls[i].kind = "sync"
RateDirect(i) == calls[i].kind = "update" /\ calls[i].rate = "gpu_overclock"
RateNoSync == \A i \in DOMAIN calls : ~RateSync(i)
RateNoDirect == \A i \in DOMAIN calls : ~RateDirect(i)

\* The calls that wait: the last sync carries the file, the last interval the
\* slider's, and so does every sync behind it.
RateWaiting ==
    \A i \in DOMAIN calls :
       /\ RateSync(i) /\ (\A j \in DOMAIN calls : j > i => ~RateSync(j)) => calls[i].value = disk
       /\ RateDirect(i) /\ (\A j \in DOMAIN calls : j > i => ~RateDirect(j)) =>
             calls[i].value = rates["gpu_overclock"]
       /\ RateSync(i) /\ (\A j \in DOMAIN calls : j > i => ~RateDirect(j)) =>
             calls[i].value["gpu_overclock"] = rates["gpu_overclock"]

RateFollowed ==
    /\ jobs["hardware_monitor"] = stored["hardware_monitor"]
    /\ trail.current => stored = R!FromSections(rates)
    /\ trail.current /\ RateNoSync => rates = disk
    /\ ~trail.lost /\ RateNoDirect =>
          jobs["gpu_overclock"] \in {stored["gpu_overclock"], rates["gpu_overclock"]}

RatesInv == RateTypes /\ RateAwake /\ RateAllHeard /\ RateWaiting /\ RateFollowed

-----------------------------------------------------------------------------
\* Min is the least element of a set of natural numbers that is not empty.
LEMMA RateMinFacts ==
    ASSUME NEW T, T \subseteq Nat, T # {}
    PROVE  R!Min(T) \in T /\ \A m \in T : R!Min(T) <= m
BY LeastExists DEF R!Min

\* A finite set of natural numbers that is not empty has a greatest element: a
\* smallest subset without one would have one more element than a subset with one.
LEMMA RateMaxFacts ==
    ASSUME NEW T, T \subseteq Nat, T # {}, IsFiniteSet(T)
    PROVE  R!Max(T) \in T /\ \A m \in T : m <= R!Max(T)
<1> DEFINE Top(U) == \E k \in U : \A m \in U : m <= k
           Bad == {Cardinality(U) : U \in {V \in SUBSET T : V # {} /\ ~Top(V)}}
<1>1. Bad = {}
  <2> SUFFICES ASSUME Bad # {} PROVE FALSE
    OBVIOUS
  <2>1. Bad \subseteq Nat
    BY FS_Subset, FS_CardinalityType
  <2>2. PICK n \in Bad : \A m \in Bad : n <= m
    BY <2>1, LeastExists
  <2>3. PICK U \in SUBSET T : U # {} /\ ~Top(U) /\ Cardinality(U) = n
    BY <2>2
  <2>4. PICK x \in U : TRUE
    BY <2>3
  <2> DEFINE W == U \ {x}
  <2>5. IsFiniteSet(U)
    BY FS_Subset
  <2>6. Cardinality(W) = n - 1
    BY <2>3, <2>4, <2>5, FS_RemoveElement
  <2>7. W \in SUBSET T
    BY <2>3
  <2>8. CASE W = {}
    <3>1. \A m \in U : m = x
      BY <2>8
    <3> QED
      BY <2>3, <2>4, <3>1
  <2>9. CASE W # {}
    <3>1. n \in Nat /\ ~(n <= n - 1)
      BY <2>1
    <3>2. Cardinality(W) \notin Bad
      BY <2>2, <2>6, <3>1
    <3>3. Top(W)
      BY <2>7, <2>9, <3>2
    <3>4. PICK k \in W : \A m \in W : m <= k
      BY <3>3
    <3>5. k \in U /\ k \in Nat /\ x \in Nat /\ \A m \in U : m \in Nat /\ (m = x \/ m \in W)
      BY <2>3, <2>4, <3>4
    <3>6. CASE x <= k
      BY <2>3, <3>4, <3>5, <3>6
    <3>7. CASE k <= x
      <4>1. \A m \in U : m <= x
        BY <3>4, <3>5, <3>7
      <4> QED
        BY <2>3, <2>4, <4>1
    <3> QED
      BY <3>5, <3>6, <3>7
  <2> QED
    BY <2>8, <2>9
<1>2. Top(T)
  BY <1>1
<1> QED
  BY <1>2 DEF R!Max

LEMMA RateTailFacts ==
    ASSUME NEW S, NEW s \in Seq(S), s # <<>>
    PROVE  /\ Head(s) = s[1] /\ s[1] \in S /\ 1 \in DOMAIN s
           /\ Tail(s) \in Seq(S)
           /\ DOMAIN s = 1 .. Len(s) /\ Len(s) \in Nat
           /\ DOMAIN Tail(s) = 1 .. (Len(s) - 1)
           /\ \A i \in DOMAIN Tail(s) : i \in Nat /\ i + 1 \in DOMAIN s /\ Tail(s)[i] = s[i + 1]
           /\ \A i \in DOMAIN s :
                 i = 1 \/ (i - 1 \in DOMAIN Tail(s) /\ Tail(s)[i - 1] = s[i])
<1>1. /\ Tail(s) \in Seq(S) /\ Len(Tail(s)) = Len(s) - 1
      /\ \A i \in 1 .. Len(Tail(s)) : Tail(s)[i] = s[i + 1]
  BY HeadTailProperties
<1>2. Len(s) \in Nat \ {0} /\ DOMAIN s = 1 .. Len(s) /\ DOMAIN Tail(s) = 1 .. Len(Tail(s))
  BY <1>1, EmptySeq, LenProperties
<1>3. Head(s) = s[1] /\ s[1] \in S
  BY <1>2, ElementOfSeq
<1> QED
  BY <1>1, <1>2, <1>3

LEMMA RateConcatFacts ==
    ASSUME NEW S, NEW s \in Seq(S), NEW t \in Seq(S)
    PROVE  /\ s \o t \in Seq(S)
           /\ Len(s) \in Nat /\ Len(t) \in Nat
           /\ DOMAIN s = 1 .. Len(s) /\ DOMAIN t = 1 .. Len(t)
           /\ DOMAIN (s \o t) = 1 .. (Len(s) + Len(t))
           /\ \A i \in DOMAIN s : (s \o t)[i] = s[i]
           /\ \A i \in DOMAIN t : (s \o t)[Len(s) + i] = t[i]
           /\ \A i \in DOMAIN (s \o t) :
                 i \in DOMAIN s \/ (i - Len(s) \in DOMAIN t /\ (s \o t)[i] = t[i - Len(s)])
<1>1. Len(s) \in Nat /\ Len(t) \in Nat /\ DOMAIN s = 1 .. Len(s) /\ DOMAIN t = 1 .. Len(t)
  BY LenProperties
<1>2. /\ s \o t \in Seq(S) /\ Len(s \o t) = Len(s) + Len(t)
      /\ \A i \in 1 .. Len(s) + Len(t) :
            (s \o t)[i] = IF i <= Len(s) THEN s[i] ELSE t[i - Len(s)]
  BY ConcatProperties
<1>3. DOMAIN (s \o t) = 1 .. (Len(s) + Len(t))
  BY <1>2, LenProperties
<1>4. \A i \in DOMAIN s : (s \o t)[i] = s[i]
  BY <1>1, <1>2
<1>5. \A i \in DOMAIN t : (s \o t)[Len(s) + i] = t[i]
  <2> TAKE i \in DOMAIN t
  <2>1. /\ Len(s) + i \in 1 .. Len(s) + Len(t) /\ ~(Len(s) + i <= Len(s))
        /\ (Len(s) + i) - Len(s) = i
    BY <1>1
  <2> QED
    BY <1>2, <2>1
<1>6. \A i \in DOMAIN (s \o t) :
         i \in DOMAIN s \/ (i - Len(s) \in DOMAIN t /\ (s \o t)[i] = t[i - Len(s)])
  BY <1>1, <1>2, <1>3
<1> QED
  BY <1>1, <1>2, <1>3, <1>4, <1>5, <1>6

-----------------------------------------------------------------------------
LEMMA RateIntervalFacts ==
    ASSUME R!RateConstants
    PROVE  /\ Intervals \subseteq Nat \ {0} /\ Intervals # {}
           /\ R!Never \in Nat /\ \A i \in Intervals : i < R!Never
           /\ R!Max(Intervals \cup {Empty}) \in Nat
           /\ Empty \in 0 .. R!Max(Intervals \cup {Empty})
           /\ \A i \in Intervals : i <= R!Max(Intervals \cup {Empty})
<1>1. Intervals \subseteq Nat \ {0} /\ IsFiniteSet(Intervals) /\ Empty \in Nat
  BY DEF R!RateConstants, R!IsFiniteSet, IsFiniteSet
<1>2. Intervals # {}
  BY DEF R!RateConstants, R!Rate
<1>3. R!Max(Intervals) \in Intervals /\ \A i \in Intervals : i <= R!Max(Intervals)
  BY <1>1, <1>2, RateMaxFacts
<1>4. IsFiniteSet(Intervals \cup {Empty})
  BY <1>1, FS_AddElement
<1>5. /\ R!Max(Intervals \cup {Empty}) \in Intervals \cup {Empty}
      /\ \A i \in Intervals \cup {Empty} : i <= R!Max(Intervals \cup {Empty})
  BY <1>1, <1>4, RateMaxFacts
<1>6. R!Max(Intervals \cup {Empty}) \in Nat
  BY <1>1, <1>5
<1>7. R!Never \in Nat /\ \A i \in Intervals : i < R!Never
  <2> DEFINE m == R!Max(Intervals)
  <2>1. m \in Nat /\ \A i \in Intervals : i \in Nat /\ i <= m
    BY <1>1, <1>3
  <2>2. R!Never = m + 1
    BY DEF R!Never
  <2> HIDE DEF m
  <2> QED
    BY <2>1, <2>2
<1> QED
  BY <1>1, <1>2, <1>5, <1>6, <1>7

LEMMA RateSectionsFacts ==
    ASSUME R!RateConstants, NEW s \in RateSections
    PROVE  /\ R!FromSections(s) \in [R!Job -> Intervals]
           /\ R!FromSections(s)["gpu_overclock"] = s["gpu_overclock"]
           /\ \A id \in R!Component : s[R!RateOf(id)] \in Intervals
           /\ \A rate \in R!Rate : s[rate] \in Intervals
<1>1. \A rate \in R!Rate : s[rate] \in Intervals
  BY DEF RateSections
<1>2. \A id \in R!Component : R!RateOf(id) \in R!Rate
  BY DEF R!Component, R!RateOf, R!Rate
<1>3. s["cpu"] \in Intervals /\ s["gpu"] \in Intervals /\ s["gpu_overclock"] \in Intervals
  BY <1>1 DEF R!Rate
<1>4. {s["cpu"], s["gpu"]} \subseteq Nat
  BY <1>3, RateIntervalFacts
<1>5. R!Min({s["cpu"], s["gpu"]}) \in Intervals
  BY <1>3, <1>4, RateMinFacts
<1>6. R!FromSections(s) \in [R!Job -> Intervals]
  BY <1>3, <1>5 DEF R!FromSections, R!Job
<1>7. R!FromSections(s)["gpu_overclock"] = s["gpu_overclock"]
  BY DEF R!FromSections
<1> QED
  BY <1>1, <1>2, <1>6, <1>7

LEMMA RateComponentFacts ==
    ASSUME R!RateConstants, NEW c \in R!ComponentType
    PROVE  /\ c.interval \in Intervals /\ c.age \in 0 .. R!Never
           /\ R!Remaining(c) \in Nat /\ R!Remaining(c) <= c.interval
           /\ R!Due(c) <=> R!Remaining(c) = 0
           /\ ~R!Due(c) => R!Remaining(c) = c.interval - c.age
<1>1. c.interval \in Intervals /\ c.age \in 0 .. R!Never
  BY DEF R!ComponentType
<1>2. c.interval \in Nat /\ c.age \in Nat
  BY <1>1, RateIntervalFacts
<1>3. CASE R!Due(c)
  BY <1>1, <1>2, <1>3 DEF R!Remaining
<1>4. CASE ~R!Due(c)
  <2>1. c.age < c.interval
    BY <1>2, <1>4 DEF R!Due
  <2>2. R!Remaining(c) = c.interval - c.age
    BY <1>4 DEF R!Remaining
  <2> QED
    BY <1>1, <1>2, <1>4, <2>1, <2>2
<1> QED
  BY <1>3, <1>4

LEMMA RateSleepFacts ==
    ASSUME R!RateConstants, NEW D, D \subseteq R!Component, NEW known \in [D -> R!ComponentType]
    PROVE  /\ R!SleepFor(known) \in 0 .. R!Max(Intervals \cup {Empty})
           /\ \A id \in D : R!SleepFor(known) <= R!Remaining(known[id])
<1> DEFINE T == {R!Remaining(known[id]) : id \in DOMAIN known}
<1>1. DOMAIN known = D /\ \A id \in D : known[id] \in R!ComponentType
  OBVIOUS
<1>2. CASE known = <<>>
  <2>1. D = {}
    BY <1>1, <1>2
  <2> QED
    BY <1>2, <2>1, RateIntervalFacts DEF R!SleepFor
<1>3. CASE known # <<>>
  <2>1. D # {}
    BY <1>3
  <2>2. T \subseteq Nat /\ T # {}
    BY <1>1, <2>1, RateComponentFacts
  <2>3. R!Min(T) \in T /\ \A m \in T : R!Min(T) <= m
    BY <2>2, RateMinFacts
  <2>4. R!SleepFor(known) = R!Min(T)
    BY <1>3 DEF R!SleepFor
  <2>5. PICK id \in D : R!Min(T) = R!Remaining(known[id])
    BY <1>1, <2>3
  <2> HIDE DEF T
  <2>6. R!Remaining(known[id]) \in Nat /\ R!Remaining(known[id]) <= known[id].interval
        /\ known[id].interval \in Intervals
    BY <1>1, RateComponentFacts
  <2>7. known[id].interval \in Nat /\ known[id].interval <= R!Max(Intervals \cup {Empty})
        /\ R!Max(Intervals \cup {Empty}) \in Nat
    BY <2>6, RateIntervalFacts
  <2>8. R!Remaining(known[id]) <= R!Max(Intervals \cup {Empty})
    BY <2>6, <2>7
  <2>9. R!SleepFor(known) \in 0 .. R!Max(Intervals \cup {Empty})
    BY <2>4, <2>5, <2>6, <2>7, <2>8
  <2>10. \A i \in D : R!Remaining(known[i]) \in T
    BY <1>1 DEF T
  <2> QED
    BY <2>3, <2>4, <2>9, <2>10
<1> QED
  BY <1>2, <1>3

\* A sequence of commands has one for each of its components.
LEMMA RateCommandsFacts ==
    ASSUME R!RateConstants, NEW s \in RateSections, NEW kind \in {"register", "update"},
           NEW ids \in Seq(R!Component)
    PROVE  /\ R!Commands(kind, ids, s) \in Seq(RateCommandType)
           /\ DOMAIN R!Commands(kind, ids, s) = DOMAIN ids
           /\ \A i \in DOMAIN ids :
                 /\ R!Commands(kind, ids, s)[i].kind = kind
                 /\ R!Commands(kind, ids, s)[i].id = ids[i]
                 /\ R!Commands(kind, ids, s)[i].interval = s[R!RateOf(ids[i])]
<1> DEFINE e(i) == [kind |-> kind, id |-> ids[i], interval |-> s[R!RateOf(ids[i])]]
           n == Len(ids)
<1>1. n \in Nat /\ DOMAIN ids = 1 .. n /\ \A i \in 1 .. n : ids[i] \in R!Component
  BY LenProperties, ElementOfSeq
<1>2. \A i \in 1 .. n : s[R!RateOf(ids[i])] \in Intervals
  BY <1>1, RateSectionsFacts
<1>3. \A i \in 1 .. n : e(i) \in RateCommandType
  BY <1>1, <1>2 DEF RateCommandType
<1>4. R!Commands(kind, ids, s) = [i \in 1 .. n |-> e(i)]
  BY <1>1 DEF R!Commands
<1>5. [i \in 1 .. n |-> e(i)] \in [1 .. n -> RateCommandType]
  BY <1>3
<1> HIDE DEF n
<1>6. [i \in 1 .. n |-> e(i)] \in Seq(RateCommandType)
  BY <1>1, <1>5, SeqDef
<1> QED
  BY <1>1, <1>4, <1>6

LEMMA RateComponentsOfFacts ==
    ASSUME NEW rate \in R!Rate
    PROVE  /\ R!ComponentsOf(rate) \in Seq(R!Component)
           /\ \A i \in DOMAIN R!ComponentsOf(rate) : R!RateOf(R!ComponentsOf(rate)[i]) = rate
           /\ \A id \in R!Component : R!RateOf(id) = rate =>
                 \E i \in DOMAIN R!ComponentsOf(rate) : R!ComponentsOf(rate)[i] = id
<1>1. CASE rate = "storage"
  <2>1. R!ComponentsOf(rate) = <<"storage", "mount">>
    BY <1>1 DEF R!ComponentsOf
  <2>2. R!ComponentsOf(rate) \in Seq(R!Component) /\ DOMAIN R!ComponentsOf(rate) = {1, 2}
    BY <2>1 DEF R!Component, R!Rate
  <2>3. \A id \in R!Component : R!RateOf(id) = rate => id = "storage" \/ id = "mount"
    BY <1>1 DEF R!RateOf
  <2>4. R!RateOf("storage") = rate /\ R!RateOf("mount") = rate
    BY <1>1 DEF R!RateOf
  <2> QED
    BY <2>1, <2>2, <2>3, <2>4
<1>2. CASE rate # "storage"
  <2>1. R!ComponentsOf(rate) = <<rate>>
    BY <1>2 DEF R!ComponentsOf
  <2>2. R!ComponentsOf(rate) \in Seq(R!Component) /\ DOMAIN R!ComponentsOf(rate) = {1}
    BY <2>1 DEF R!Component
  <2>3. R!RateOf(rate) = rate /\ \A id \in R!Component : R!RateOf(id) = rate => id = rate
    BY <1>2 DEF R!RateOf, R!Rate
  <2> QED
    BY <2>1, <2>2, <2>3
<1> QED
  BY <1>1, <1>2

LEMMA RateRegistrationsFacts ==
    ASSUME R!RateConstants, disk \in RateSections
    PROVE  /\ R!Registrations \in Seq(RateCommandType)
           /\ \A i \in DOMAIN R!Registrations :
                 /\ R!Registrations[i].kind = "register"
                 /\ R!Registrations[i].interval = disk[R!RateOf(R!Registrations[i].id)]
           /\ \A id \in R!Component : \E i \in DOMAIN R!Registrations : R!Registrations[i].id = id
<1> DEFINE ids == <<"cpu", "gpu", "storage", "mount", "gpu_overclock">>
<1>1. ids \in Seq(R!Component)
  BY DEF R!Component, R!Rate
<1>2. \A id \in R!Component : \E i \in DOMAIN ids : ids[i] = id
  <2>1. DOMAIN ids = 1 .. 5
    OBVIOUS
  <2>2. /\ ids[1] = "cpu" /\ ids[2] = "gpu" /\ ids[3] = "storage" /\ ids[4] = "mount"
        /\ ids[5] = "gpu_overclock"
    OBVIOUS
  <2> HIDE DEF ids
  <2> QED
    BY <2>1, <2>2 DEF R!Component, R!Rate
<1>3. R!Registrations = R!Commands("register", ids, disk)
  BY DEF R!Registrations
<1> HIDE DEF ids
<1>4. /\ R!Registrations \in Seq(RateCommandType) /\ DOMAIN R!Registrations = DOMAIN ids
      /\ \A i \in DOMAIN ids :
            /\ R!Registrations[i].kind = "register"
            /\ R!Registrations[i].id = ids[i]
            /\ R!Registrations[i].interval = disk[R!RateOf(ids[i])]
  BY <1>1, <1>3, RateCommandsFacts
<1>5. \A id \in R!Component : \E i \in DOMAIN R!Registrations : R!Registrations[i].id = id
  BY <1>2, <1>4
<1> QED
  BY <1>4, <1>5

-----------------------------------------------------------------------------
(* Types *)

LEMMA RateLoadedType ==
    ASSUME R!RateConstants, disk \in RateSections
    PROVE  R!Loaded \in [R!Job -> Intervals]
<1>1. Defaults \in RateSections
  BY DEF R!RateConstants, RateSections
<1> QED
  BY <1>1, RateSectionsFacts DEF R!Loaded

LEMMA RateInitTypes == R!RateConstants /\ R!Init => RateTypes
<1> SUFFICES ASSUME R!RateConstants, R!Init PROVE RateTypes
  OBVIOUS
<1>1. disk \in RateSections /\ rates \in RateSections
  BY DEF R!Init, R!RateConstants, RateSections
<1>2. RateAppTypes
  BY <1>1 DEF R!Init, RateAppTypes
<1>3. RateCoordinatorTypes
  <2>1. components \in [DOMAIN components -> R!ComponentType] /\ DOMAIN components = {}
    BY DEF R!Init
  <2>2. commands \in Seq(RateCommandType)
    BY <1>1, RateRegistrationsFacts DEF R!Init
  <2> QED
    BY <2>1, <2>2, RateIntervalFacts DEF R!Init, RateCoordinatorTypes
<1>4. RateDaemonTypes
  BY <1>1, RateLoadedType DEF R!Init, RateDaemonTypes
<1>5. trail \in [current : BOOLEAN, lost : BOOLEAN]
  BY DEF R!Init
<1> QED
  BY <1>2, <1>3, <1>4, <1>5 DEF RateTypes

\* What a command or a refresh leaves of the coordinator is well typed.
LEMMA RateHandleFacts ==
    ASSUME RateTypes, R!HandleCommand
    PROVE  LET cmd == commands[1]
               D == IF cmd.kind = "register" THEN DOMAIN components \cup {cmd.id}
                    ELSE DOMAIN components
           IN  /\ commands # <<>> /\ cmd \in RateCommandType
               /\ commands' = Tail(commands)
               /\ components' \in [D -> R!ComponentType] /\ D \subseteq R!Component
               /\ \A id \in DOMAIN components : id # cmd.id => components'[id] = components[id]
               /\ cmd.kind = "register" => components'[cmd.id] = [interval |-> cmd.interval,
                                                                  age |-> R!Never]
               /\ cmd.kind = "update" /\ cmd.id \in DOMAIN components =>
                      components'[cmd.id].interval = cmd.interval
               /\ sleep' = R!SleepFor(components')
<1> DEFINE cmd == commands[1]
<1>1. commands # <<>> /\ commands' = Tail(commands)
  BY DEF R!HandleCommand
<1>2. Head(commands) = cmd /\ cmd \in RateCommandType
  BY <1>1, RateTailFacts DEF RateTypes, RateCoordinatorTypes
<1>3. cmd.id \in R!Component /\ cmd.interval \in Intervals /\ cmd.kind \in {"register", "update"}
  BY <1>2 DEF RateCommandType
<1>4. /\ components \in [DOMAIN components -> R!ComponentType]
      /\ DOMAIN components \subseteq R!Component /\ R!RateConstants
  BY DEF RateTypes, RateCoordinatorTypes
<1>5. sleep' = R!SleepFor(components')
  BY DEF R!HandleCommand
<1> HIDE DEF cmd
<1>6. CASE cmd.kind = "register"
  <2> DEFINE D == DOMAIN components \cup {cmd.id}
             new == [interval |-> cmd.interval, age |-> R!Never]
  <2>1. components' = [id \in D |-> IF id = cmd.id THEN new ELSE components[id]]
    BY <1>2, <1>6 DEF R!HandleCommand
  <2>2. new \in R!ComponentType
    BY <1>3, <1>4, RateIntervalFacts DEF R!ComponentType
  <2> HIDE DEF new
  <2>3. components' \in [D -> R!ComponentType] /\ D \subseteq R!Component
    BY <1>3, <1>4, <2>1, <2>2
  <2>4. \A id \in DOMAIN components : id # cmd.id => components'[id] = components[id]
    BY <2>1
  <2>5. components'[cmd.id] = new
    BY <2>1
  <2> USE DEF new
  <2> QED
    BY <1>1, <1>2, <1>5, <1>6, <2>3, <2>4, <2>5 DEF cmd
<1>7. CASE cmd.kind = "update"
  <2>1. components' = IF cmd.id \in DOMAIN components
                      THEN [components EXCEPT ![cmd.id].interval = cmd.interval]
                      ELSE components
    BY <1>2, <1>7 DEF R!HandleCommand
  <2>2. CASE cmd.id \notin DOMAIN components
    <3>1. components' = components
      BY <2>1, <2>2
    <3> QED
      BY <1>1, <1>2, <1>4, <1>5, <1>7, <2>2, <3>1 DEF cmd
  <2>3. CASE cmd.id \in DOMAIN components
    <3> DEFINE new == [components[cmd.id] EXCEPT !.interval = cmd.interval]
    <3>1. components[cmd.id] \in R!ComponentType
      BY <1>4, <2>3
    <3>2. new \in R!ComponentType /\ new.interval = cmd.interval
      BY <1>3, <3>1 DEF R!ComponentType
    <3>3. components' = [components EXCEPT ![cmd.id] = new]
      BY <2>1, <2>3
    <3> HIDE DEF new
    <3>4. /\ components' \in [DOMAIN components -> R!ComponentType]
          /\ components'[cmd.id] = new
          /\ \A id \in DOMAIN components : id # cmd.id => components'[id] = components[id]
      BY <1>4, <2>3, <3>2, <3>3
    <3> QED
      BY <1>1, <1>2, <1>4, <1>5, <1>7, <3>2, <3>4 DEF cmd
  <2> QED
    BY <2>2, <2>3
<1> QED
  BY <1>3, <1>6, <1>7

LEMMA RateRefreshFacts ==
    ASSUME RateTypes, R!Refresh
    PROVE  /\ components' \in [DOMAIN components -> R!ComponentType]
           /\ \A id \in DOMAIN components :
                 components'[id].interval = components[id].interval
           /\ sleep' = R!SleepFor(components')
<1>1. /\ components \in [DOMAIN components -> R!ComponentType] /\ R!RateConstants
  BY DEF RateTypes, RateCoordinatorTypes
<1>2. components' = [id \in DOMAIN components |->
                       IF R!Due(components[id]) THEN [components[id] EXCEPT !.age = 0]
                       ELSE components[id]]
      /\ sleep' = R!SleepFor(components')
  BY DEF R!Refresh
<1>3. ASSUME NEW id \in DOMAIN components
      PROVE  /\ [components[id] EXCEPT !.age = 0] \in R!ComponentType
             /\ [components[id] EXCEPT !.age = 0].interval = components[id].interval
  <2>1. components[id] \in R!ComponentType /\ 0 \in 0 .. R!Never
    BY <1>1, <1>3, RateIntervalFacts
  <2> QED
    BY <2>1 DEF R!ComponentType
<1>4. components' \in [DOMAIN components -> R!ComponentType]
  BY <1>1, <1>2, <1>3
<1>5. \A id \in DOMAIN components : components'[id].interval = components[id].interval
  BY <1>2, <1>3
<1> QED
  BY <1>2, <1>4, <1>5

LEMMA RateTickFacts ==
    ASSUME RateTypes, RateAwake, R!Tick
    PROVE  /\ components' \in [DOMAIN components -> R!ComponentType]
           /\ \A id \in DOMAIN components :
                 /\ components'[id].interval = components[id].interval
                 /\ sleep' <= R!Remaining(components'[id])
           /\ sleep' = sleep - 1 /\ sleep \in Nat \ {0}
<1>1. /\ components \in [DOMAIN components -> R!ComponentType] /\ R!RateConstants
  BY DEF RateTypes, RateCoordinatorTypes
<1>2. sleep \in Nat \ {0} /\ sleep' = sleep - 1
  BY <1>1, RateIntervalFacts DEF RateTypes, RateCoordinatorTypes, R!Tick
<1> DEFINE new(id) == [components[id] EXCEPT !.age = IF @ = R!Never THEN @ ELSE @ + 1]
<1>3. components' = [id \in DOMAIN components |-> new(id)]
  BY DEF R!Tick
<1>4. ASSUME NEW id \in DOMAIN components
      PROVE  /\ new(id) \in R!ComponentType
             /\ new(id).interval = components[id].interval
             /\ sleep' <= R!Remaining(new(id))
  <2> DEFINE c == components[id]
             d == new(id)
  <2>1. c \in R!ComponentType /\ sleep <= R!Remaining(c)
    BY <1>1, <1>4 DEF RateAwake
  <2>2. /\ c.interval \in Intervals /\ c.age \in 0 .. R!Never
        /\ R!Remaining(c) \in Nat /\ (R!Due(c) <=> R!Remaining(c) = 0)
        /\ (~R!Due(c) => R!Remaining(c) = c.interval - c.age)
    BY <1>1, <2>1, RateComponentFacts
  <2>3. ~R!Due(c) /\ R!Remaining(c) = c.interval - c.age
    BY <1>2, <2>1, <2>2
  <2>4. c.interval \in Nat /\ c.interval < R!Never /\ R!Never \in Nat
    BY <1>1, <2>2, RateIntervalFacts
  <2>5. c.age \in Nat /\ c.age # R!Never /\ c.age + 1 \in 0 .. R!Never
    BY <2>2, <2>3, <2>4 DEF R!Due
  <2>6. d = [c EXCEPT !.age = c.age + 1]
    BY <2>5
  <2> HIDE DEF c, d
  <2>7. d \in R!ComponentType /\ d.interval = c.interval /\ d.age = c.age + 1
    BY <2>1, <2>5, <2>6 DEF R!ComponentType
  <2>8. sleep' <= R!Remaining(d)
    BY <1>2, <2>1, <2>3, <2>4, <2>5, <2>7 DEF R!Remaining, R!Due
  <2> QED
    BY <2>7, <2>8 DEF c, d
<1> HIDE DEF new
<1>5. components' \in [DOMAIN components -> R!ComponentType]
  BY <1>3, <1>4
<1> QED
  BY <1>2, <1>3, <1>4, <1>5

\* What an edit sends to the coordinator.
LEMMA RateEditSends ==
    ASSUME RateTypes, NEW rate \in R!Rate, NEW interval \in Intervals, R!EditRate(rate,
           interval)
    PROVE  /\ rates' \in RateSections /\ rates'[rate] = interval
           /\ \A r \in R!Rate : r # rate => rates'[r] = rates[r]
           /\ components' = components /\ sleep' = sleep
           /\ \E sent \in Seq(RateCommandType) :
                 /\ commands' = commands \o sent
                 /\ \A i \in DOMAIN sent :
                       /\ sent[i].interval = rates'[R!RateOf(sent[i].id)]
                       /\ R!RateOf(sent[i].id) = rate
                 /\ \A id \in R!Component : R!RateOf(id) = rate =>
                       \E i \in DOMAIN sent : sent[i].id = id
<1> DEFINE sent == R!Commands("update", R!ComponentsOf(rate), rates')
<1>1. R!RateConstants /\ rates \in RateSections
  BY DEF RateTypes, RateAppTypes
<1>2. rates' = [rates EXCEPT ![rate] = interval] /\ commands' = commands \o sent
      /\ components' = components /\ sleep' = sleep
  BY DEF R!EditRate
<1>3. /\ rates' \in RateSections /\ rates'[rate] = interval
      /\ \A r \in R!Rate : r # rate => rates'[r] = rates[r]
  BY <1>1, <1>2 DEF RateSections
<1>4. /\ sent \in Seq(RateCommandType) /\ DOMAIN sent = DOMAIN R!ComponentsOf(rate)
      /\ \A i \in DOMAIN R!ComponentsOf(rate) :
            /\ sent[i].id = R!ComponentsOf(rate)[i]
            /\ sent[i].interval = rates'[R!RateOf(R!ComponentsOf(rate)[i])]
  <2>1. "update" \in {"register", "update"}
    OBVIOUS
  <2> QED
    BY <1>1, <1>3, <2>1, RateComponentsOfFacts, RateCommandsFacts
<1> HIDE DEF sent
<1>5. \A i \in DOMAIN sent : /\ sent[i].interval = rates'[R!RateOf(sent[i].id)]
                            /\ R!RateOf(sent[i].id) = rate
  BY <1>4, RateComponentsOfFacts
<1>6. \A id \in R!Component : R!RateOf(id) = rate => \E i \in DOMAIN sent : sent[i].id = id
  BY <1>4, RateComponentsOfFacts
<1> QED
  BY <1>2, <1>3, <1>4, <1>5, <1>6

\* What an edit sends to the daemon.
LEMMA RateEditCalls ==
    ASSUME RateTypes, NEW rate \in R!Rate, NEW interval \in Intervals, R!EditRate(rate,
           interval)
    PROVE  LET sync == [kind |-> "sync", rate |-> rate, value |-> rates']
               direct == [kind |-> "update", rate |-> rate, value |-> interval]
           IN  /\ sync \in RateCallType /\ direct \in RateCallType
               /\ trail'.current = FALSE
               /\ \/ calls' = calls \o <<sync, direct>> /\ disk' = rates'
                     /\ trail'.lost = trail.lost
                  \/ calls' = calls \o <<direct>> /\ disk' = disk /\ trail'.lost = TRUE
               /\ trail' \in [current : BOOLEAN, lost : BOOLEAN]
               /\ home' = home /\ stored' = stored /\ jobs' = jobs
<1> DEFINE sync == [kind |-> "sync", rate |-> rate, value |-> rates']
           direct == [kind |-> "update", rate |-> rate, value |-> interval]
<1>1. calls \in Seq(RateCallType) /\ rates' \in RateSections
  BY RateEditSends DEF RateTypes, RateAppTypes
<1>2. rates' = [rates EXCEPT ![rate] = interval]
  BY DEF R!EditRate
<1>3. sync \in RateCallType /\ direct \in RateCallType
  BY <1>1 DEF RateCallType
<1>4. /\ trail'.current = FALSE
      /\ \/ calls' = calls \o <<sync, direct>> /\ disk' = rates'
            /\ trail'.lost = trail.lost
         \/ calls' = Append(calls, direct) /\ disk' = disk /\ trail'.lost = TRUE
      /\ trail' \in [current : BOOLEAN, lost : BOOLEAN]
  <2>1. trail \in [current : BOOLEAN, lost : BOOLEAN]
    BY DEF RateTypes
  <2>2. CASE /\ disk' = rates'
             /\ calls' = calls \o <<R!Call("sync", rate, rates'), R!Call("update", rate, interval)>>
             /\ trail' = [trail EXCEPT !.current = FALSE]
    BY <2>1, <2>2 DEF R!Call
  <2>3. CASE /\ calls' = Append(calls, R!Call("update", rate, interval))
             /\ trail' = [current |-> FALSE, lost |-> TRUE]
             /\ UNCHANGED disk
    BY <2>3 DEF R!Call
  <2> QED
    BY <1>2, <2>2, <2>3 DEF R!EditRate
<1>5. home' = home /\ stored' = stored /\ jobs' = jobs
  BY DEF R!EditRate, R!daemonVars
<1> HIDE DEF sync, direct
<1>6. Append(calls, direct) = calls \o <<direct>>
  BY <1>1, <1>3, AppendIsConcat
<1>7. \/ calls' = calls \o <<sync, direct>> /\ disk' = rates' /\ trail'.lost = trail.lost
      \/ calls' = calls \o <<direct>> /\ disk' = disk /\ trail'.lost = TRUE
  BY <1>4, <1>6
<1>8. trail'.current = FALSE /\ trail' \in [current : BOOLEAN, lost : BOOLEAN]
  BY <1>4
<1> USE DEF sync, direct
<1> QED
  BY ONLY <1>3, <1>5, <1>7, <1>8, Zenon

\* What the head of the calls is.
LEMMA RateCallFacts ==
    ASSUME RateTypes, calls # <<>>
    PROVE  LET call == calls[1]
           IN  /\ Head(calls) = call /\ call.rate \in R!Rate
               /\ \/ call.kind = "sync" /\ call.value \in RateSections
                  \/ call.kind = "update" /\ call.value \in Intervals
<1>1. calls \in Seq(RateCallType)
  BY DEF RateTypes, RateAppTypes
<1>2. Head(calls) = calls[1] /\ calls[1] \in RateCallType
  BY <1>1, RateTailFacts
<1> QED
  BY <1>2 DEF RateCallType

LEMMA RateStepTypes == RateTypes /\ RateAwake /\ [R!Next]_(R!vars) => RateTypes'
<1> SUFFICES ASSUME RateTypes, RateAwake, [R!Next]_(R!vars) PROVE RateTypes'
  OBVIOUS
<1> USE DEF RateTypes
<1>0. R!RateConstants'
  BY DEF R!RateConstants
<1>1. CASE R!HandleCommand
  <2>1. RateAppTypes' /\ RateDaemonTypes' /\ trail' = trail
    BY <1>1 DEF R!HandleCommand, R!appVars, R!daemonVars, RateAppTypes, RateDaemonTypes
  <2>2. commands' \in Seq(RateCommandType)
    BY <1>1, RateHandleFacts, RateTailFacts DEF RateCoordinatorTypes
  <2>3. PICK D : components' \in [D -> R!ComponentType] /\ D \subseteq R!Component
    BY <1>1, RateHandleFacts
  <2>4. sleep' \in 0 .. R!Max(Intervals \cup {Empty})
    BY <1>1, <2>3, RateHandleFacts, RateSleepFacts
  <2> QED
    BY <1>0, <2>1, <2>2, <2>3, <2>4 DEF RateCoordinatorTypes
<1>2. CASE R!Refresh
  <2>1. RateAppTypes' /\ RateDaemonTypes' /\ trail' = trail /\ commands' = commands
    BY <1>2 DEF R!Refresh, R!appVars, R!daemonVars, RateAppTypes, RateDaemonTypes
  <2>2. components' \in [DOMAIN components -> R!ComponentType] /\ DOMAIN components \subseteq R!Component
    BY <1>2, RateRefreshFacts DEF RateCoordinatorTypes
  <2>3. sleep' \in 0 .. R!Max(Intervals \cup {Empty})
    BY <1>2, <2>2, RateRefreshFacts, RateSleepFacts
  <2> QED
    BY <1>0, <2>1, <2>2, <2>3 DEF RateCoordinatorTypes
<1>3. CASE R!Tick
  <2>1. RateAppTypes' /\ RateDaemonTypes' /\ trail' = trail /\ commands' = commands
    BY <1>3 DEF R!Tick, R!appVars, R!daemonVars, RateAppTypes, RateDaemonTypes
  <2>2. components' \in [DOMAIN components -> R!ComponentType] /\ DOMAIN components \subseteq R!Component
    BY <1>3, RateTickFacts DEF RateCoordinatorTypes
  <2>3. sleep' \in 0 .. R!Max(Intervals \cup {Empty})
    BY <1>3, RateTickFacts, RateIntervalFacts DEF RateCoordinatorTypes
  <2> QED
    BY <1>0, <2>1, <2>2, <2>3 DEF RateCoordinatorTypes
<1>4. ASSUME NEW rate \in R!Rate, NEW interval \in Intervals, R!EditRate(rate, interval)
      PROVE  RateTypes'
  <2>1. /\ rates' \in RateSections /\ components' = components /\ sleep' = sleep
    BY <1>4, RateEditSends
  <2>2. \E s \in Seq(RateCommandType) : commands' = commands \o s
    BY <1>4, RateEditSends
  <2>3. commands' \in Seq(RateCommandType)
    BY <2>2, RateConcatFacts DEF RateCoordinatorTypes
  <2> DEFINE a == [kind |-> "sync", rate |-> rate, value |-> rates']
             b == [kind |-> "update", rate |-> rate, value |-> interval]
  <2>4. /\ a \in RateCallType /\ b \in RateCallType
        /\ calls' = calls \o <<a, b>> \/ calls' = calls \o <<b>>
        /\ disk' = rates' \/ disk' = disk
        /\ trail' \in [current : BOOLEAN, lost : BOOLEAN]
        /\ home' = home /\ stored' = stored /\ jobs' = jobs
    BY <1>4, RateEditCalls
  <2> HIDE DEF a, b
  <2>5. calls' \in Seq(RateCallType)
    <3>1. <<a, b>> \in Seq(RateCallType) /\ <<b>> \in Seq(RateCallType)
      BY <2>4
    <3>2. calls \in Seq(RateCallType)
      BY DEF RateAppTypes
    <3>3. calls \o <<a, b>> \in Seq(RateCallType) /\ calls \o <<b>> \in Seq(RateCallType)
      BY <3>1, <3>2, ConcatProperties
    <3> QED
      BY <2>4, <3>3
  <2> QED
    BY <1>0, <2>1, <2>3, <2>4, <2>5 DEF RateAppTypes, RateCoordinatorTypes,
                                        RateDaemonTypes
<1>5. CASE R!Relaunch
  <2>1. /\ rates' = disk /\ disk' = disk /\ calls' = <<>> /\ commands' = R!Registrations
        /\ components' = <<>> /\ sleep' = Empty /\ RateDaemonTypes'
    BY <1>5 DEF R!Relaunch, R!daemonVars, RateDaemonTypes
  <2>2. RateAppTypes'
    BY <2>1 DEF RateAppTypes
  <2>3. RateCoordinatorTypes'
    <3>1. components' \in [DOMAIN components' -> R!ComponentType] /\ DOMAIN components' = {}
      BY <2>1
    <3> QED
      BY <2>1, <3>1, RateRegistrationsFacts, RateIntervalFacts
         DEF RateCoordinatorTypes, RateAppTypes
  <2>4. trail' \in [current : BOOLEAN, lost : BOOLEAN]
    BY <1>5 DEF R!Relaunch
  <2> QED
    BY <1>0, <2>1, <2>2, <2>3, <2>4
<1>6. CASE R!Deliver
  <2>1. /\ calls # <<>> /\ calls' = Tail(calls) /\ rates' = rates /\ disk' = disk /\ home' = home
        /\ RateCoordinatorTypes'
    BY <1>6 DEF R!Deliver, R!coordinatorVars, RateCoordinatorTypes
  <2>2. RateAppTypes'
    BY <2>1, RateTailFacts DEF RateAppTypes
  <2>3. stored \in [R!Job -> Intervals] /\ jobs \in [R!Job -> Intervals]
    BY DEF RateDaemonTypes
  <2>4. CASE /\ Head(calls).kind = "sync" /\ R!SyncFrom(R!FromSections(Head(calls).value))
             /\ trail' = [trail EXCEPT !.current = Head(calls).value = rates]
    <3>1. R!FromSections(Head(calls).value) \in [R!Job -> Intervals]
      BY <2>1, <2>4, RateCallFacts, RateSectionsFacts
    <3>2. stored' \in [R!Job -> Intervals]
      BY <2>4, <3>1 DEF R!SyncFrom
    <3>3. jobs' \in [R!Job -> Intervals]
      <4> DEFINE next == R!FromSections(Head(calls).value)
      <4>1. jobs' = [job \in R!Job |-> IF stored[job] # next[job] THEN next[job] ELSE jobs[job]]
        BY <2>4 DEF R!SyncFrom, R!Rescheduled
      <4> HIDE DEF next
      <4>2. next \in [R!Job -> Intervals]
        BY <3>1 DEF next
      <4> QED
        BY <2>3, <4>1, <4>2
    <3>4. trail' \in [current : BOOLEAN, lost : BOOLEAN]
      BY <2>4
    <3> QED
      BY <1>0, <2>1, <2>2, <3>2, <3>3, <3>4 DEF RateDaemonTypes
  <2>5. CASE /\ Head(calls).kind = "update"
             /\ jobs' = [job \in R!Job |-> IF job = Head(calls).rate THEN Head(calls).value
                                         ELSE jobs[job]]
             /\ UNCHANGED <<stored, trail>>
    <3>1. Head(calls).value \in Intervals
      BY <2>1, <2>5, RateCallFacts
    <3>2. jobs' \in [R!Job -> Intervals]
      BY <2>3, <2>5, <3>1
    <3> QED
      BY <1>0, <2>1, <2>2, <2>5, <3>2 DEF RateDaemonTypes
  <2> QED
    BY <1>6, <2>4, <2>5 DEF R!Deliver
<1>7. CASE R!Lose
  <2>1. /\ calls # <<>> /\ calls' = Tail(calls) /\ rates' = rates /\ disk' = disk
        /\ RateCoordinatorTypes' /\ RateDaemonTypes'
    BY <1>7 DEF R!Lose, R!coordinatorVars, RateCoordinatorTypes, R!daemonVars,
                RateDaemonTypes
  <2>2. RateAppTypes'
    BY <2>1, RateTailFacts DEF RateAppTypes
  <2>3. trail' \in [current : BOOLEAN, lost : BOOLEAN]
    BY <1>7 DEF R!Lose
  <2> QED
    BY <1>0, <2>1, <2>2, <2>3
<1>8. CASE R!Restart
  <2>1. /\ stored' = R!Loaded /\ jobs' = R!Loaded /\ home' = home /\ RateAppTypes' /\ RateCoordinatorTypes'
    BY <1>8 DEF R!Restart, R!appVars, R!coordinatorVars, RateAppTypes,
                RateCoordinatorTypes
  <2>2. RateDaemonTypes'
    BY <2>1, RateLoadedType DEF RateDaemonTypes, RateAppTypes
  <2>3. trail' \in [current : BOOLEAN, lost : BOOLEAN]
    BY <1>8 DEF R!Restart, RateDaemonTypes
  <2> QED
    BY <1>0, <2>1, <2>2, <2>3
<1>9. CASE UNCHANGED R!vars
  BY <1>0, <1>9 DEF R!vars, RateAppTypes, RateCoordinatorTypes, RateDaemonTypes
<1> QED
  BY <1>1, <1>2, <1>3, <1>4, <1>5, <1>6, <1>7, <1>8, <1>9 DEF R!Next

-----------------------------------------------------------------------------
(* The coordinator *)

LEMMA RateInitAwake == R!RateConstants /\ R!Init => RateAwake
BY DEF R!Init, RateAwake

LEMMA RateStepAwake == RateTypes /\ RateAwake /\ [R!Next]_(R!vars) => RateAwake'
<1> SUFFICES ASSUME RateTypes, RateAwake, [R!Next]_(R!vars) PROVE RateAwake'
  OBVIOUS
<1>0. R!RateConstants /\ DOMAIN components \subseteq R!Component
  BY DEF RateTypes, RateCoordinatorTypes
<1>1. CASE R!HandleCommand
  <2>1. PICK D : D \subseteq R!Component /\ components' \in [D -> R!ComponentType]
    BY <1>1, RateHandleFacts
  <2>2. sleep' = R!SleepFor(components')
    BY <1>1, RateHandleFacts
  <2> QED
    BY <1>0, <2>1, <2>2, RateSleepFacts DEF RateAwake
<1>2. CASE R!Refresh
  BY <1>0, <1>2, RateRefreshFacts, RateSleepFacts DEF RateAwake
<1>3. CASE R!Tick
  BY <1>3, RateTickFacts DEF RateAwake
<1>4. CASE R!Relaunch
  <2>1. components' = <<>>
    BY <1>4 DEF R!Relaunch
  <2> QED
    BY <2>1 DEF RateAwake
<1>5. CASE UNCHANGED <<components, sleep>>
  BY <1>5 DEF RateAwake
<1> QED
  BY <1>1, <1>2, <1>3, <1>4, <1>5
     DEF R!Next, R!vars, R!EditRate, R!Deliver, R!Lose, R!Restart, R!coordinatorVars

\* A component that has a registration to come, and no other command that
\* is not followed by one of the present rate, is heard.
LEMMA RateRegisteredHeard ==
    RateTypes /\ rates = disk /\ commands = R!Registrations => RateAllHeard
<1> SUFFICES ASSUME RateTypes, rates = disk, commands = R!Registrations, NEW id \in R!Component
             PROVE  RateHeard(id)
  BY DEF RateAllHeard
<1>1. R!RateConstants /\ disk \in RateSections
  BY DEF RateTypes, RateAppTypes
<1>2. /\ \A i \in DOMAIN commands :
            /\ commands[i].kind = "register"
            /\ commands[i].interval = rates[R!RateOf(commands[i].id)]
      /\ \E i \in DOMAIN commands : commands[i].id = id
  BY <1>1, RateRegistrationsFacts
<1> QED
  BY <1>2, Zenon DEF RateHeard, RateLastFor

LEMMA RateInitHeard == R!RateConstants /\ R!Init => RateAllHeard
BY RateInitTypes, RateRegisteredHeard DEF R!Init

LEMMA RateHandleHeard ==
    ASSUME RateTypes, R!HandleCommand, NEW id \in R!Component, RateHeard(id)
    PROVE  RateHeard(id)'
<1> DEFINE cmd == commands[1]
<1>1. /\ commands # <<>> /\ commands \in Seq(RateCommandType) /\ cmd \in RateCommandType
      /\ commands' = Tail(commands) /\ rates' = rates
  <2>1. commands \in Seq(RateCommandType) /\ rates' = rates
    BY DEF R!HandleCommand, R!appVars, RateTypes, RateCoordinatorTypes
  <2> QED
    BY <2>1, RateHandleFacts
<1>2. /\ 1 \in DOMAIN commands /\ DOMAIN commands = 1 .. Len(commands) /\ Len(commands) \in Nat
      /\ \A i \in DOMAIN commands' : /\ i \in Nat /\ i + 1 \in DOMAIN commands
                                    /\ commands'[i] = commands[i + 1]
      /\ \A i \in DOMAIN commands :
            i = 1 \/ (i - 1 \in DOMAIN commands' /\ commands'[i - 1] = commands[i])
  BY <1>1, RateTailFacts
<1>3. /\ \A i \in DOMAIN components : i # cmd.id => components'[i] = components[i]
      /\ DOMAIN components' = IF cmd.kind = "register" THEN DOMAIN components \cup {cmd.id}
                               ELSE DOMAIN components
      /\ cmd.kind = "register" => components'[cmd.id].interval = cmd.interval
      /\ cmd.kind = "update" /\ cmd.id \in DOMAIN components =>
            components'[cmd.id].interval = cmd.interval
  BY RateHandleFacts
<1>4. cmd.kind \in {"register", "update"}
  BY <1>1 DEF RateCommandType
<1>5. \A i \in DOMAIN commands' : RateLastFor(id, i)' => commands'[i].interval = rates'[R!RateOf(id)]
  <2> SUFFICES ASSUME NEW i \in DOMAIN commands', RateLastFor(id, i)'
               PROVE  commands'[i].interval = rates'[R!RateOf(id)]
    OBVIOUS
  <2>1. commands'[i].id = id /\ \A j \in DOMAIN commands' : j > i => commands'[j].id # id
    BY DEF RateLastFor
  <2>2. i \in Nat /\ i + 1 \in DOMAIN commands /\ commands[i + 1].id = id
    BY <1>2, <2>1
  <2>3. ASSUME NEW j \in DOMAIN commands, j > i + 1 PROVE commands[j].id # id
    <3>1. j # 1 /\ j - 1 > i
      BY <1>2, <2>2, <2>3
    <3> QED
      BY <1>2, <2>1, <3>1
  <2>4. RateLastFor(id, i + 1)
    BY <2>2, <2>3 DEF RateLastFor
  <2> QED
    BY <1>1, <1>2, <2>2, <2>4 DEF RateHeard
<1>6. ASSUME \A i \in DOMAIN commands' : commands'[i].id # id
      PROVE  id \in DOMAIN components' /\ components'[id].interval = rates'[R!RateOf(id)]
  <2>1. \A i \in DOMAIN commands : i # 1 => commands[i].id # id
    BY <1>2, <1>6
  <2>2. CASE cmd.id # id
    <3>1. id \in DOMAIN components /\ components[id].interval = rates[R!RateOf(id)]
      BY <2>1, <2>2 DEF RateHeard
    <3> QED
      BY <1>1, <1>3, <2>2, <3>1
  <2>3. CASE cmd.id = id
    <3>1. RateLastFor(id, 1)
      <4>1. \A j \in DOMAIN commands : j > 1 => j # 1
        BY <1>2
      <4> QED
        BY <2>1, <2>3, <4>1 DEF RateLastFor
    <3>2. cmd.interval = rates[R!RateOf(id)]
      BY <1>2, <3>1 DEF RateHeard
    <3>3. cmd.kind = "register" \/ id \in DOMAIN components
      BY <2>1 DEF RateHeard
    <3> QED
      BY <1>1, <1>3, <1>4, <2>3, <3>2, <3>3
  <2> QED
    BY <2>2, <2>3
<1>7. \/ id \in DOMAIN components'
      \/ \E i \in DOMAIN commands' : commands'[i].id = id /\ commands'[i].kind = "register"
  <2>1. CASE id \in DOMAIN components
    BY <1>3, <2>1
  <2>2. CASE \E i \in DOMAIN commands : commands[i].id = id /\ commands[i].kind = "register"
    <3>1. PICK i \in DOMAIN commands : commands[i].id = id /\ commands[i].kind = "register"
      BY <2>2
    <3>2. CASE i = 1
      BY <1>3, <3>1, <3>2
    <3>3. CASE i # 1
      BY <1>2, <3>1, <3>3
    <3> QED
      BY <3>2, <3>3
  <2> QED
    BY <2>1, <2>2 DEF RateHeard
<1> QED
  BY <1>5, <1>6, <1>7 DEF RateHeard

LEMMA RateEditHeard ==
    ASSUME RateTypes, NEW rate \in R!Rate, NEW interval \in Intervals, R!EditRate(rate,
           interval),
           NEW id \in R!Component, RateHeard(id)
    PROVE  RateHeard(id)'
<1>1. PICK sent \in Seq(RateCommandType) :
         /\ commands' = commands \o sent
         /\ \A i \in DOMAIN sent :
               /\ sent[i].interval = rates'[R!RateOf(sent[i].id)]
               /\ R!RateOf(sent[i].id) = rate
         /\ \A c \in R!Component : R!RateOf(c) = rate => \E i \in DOMAIN sent : sent[i].id = c
  BY RateEditSends
<1>2. /\ components' = components
      /\ \A r \in R!Rate : r # rate => rates'[r] = rates[r]
  BY RateEditSends
<1>3. commands \in Seq(RateCommandType)
  BY DEF RateTypes, RateCoordinatorTypes
<1>4. R!RateOf(id) \in R!Rate
  BY DEF R!RateOf, R!Rate, R!Component
<1> DEFINE n == Len(commands)
<1>5. /\ n \in Nat /\ Len(sent) \in Nat
      /\ DOMAIN commands = 1 .. n /\ DOMAIN sent = 1 .. Len(sent)
      /\ DOMAIN commands' = 1 .. (n + Len(sent))
      /\ \A i \in DOMAIN commands : commands'[i] = commands[i]
      /\ \A i \in DOMAIN sent : commands'[n + i] = sent[i]
      /\ \A i \in DOMAIN commands' :
            i \in DOMAIN commands \/ (i - n \in DOMAIN sent /\ commands'[i] = sent[i - n])
  BY <1>1, <1>3, RateConcatFacts
<1> HIDE DEF n
<1>6. /\ DOMAIN commands \subseteq DOMAIN commands'
      /\ \A i \in DOMAIN sent : n + i \in DOMAIN commands'
  BY <1>5
<1>7. \/ id \in DOMAIN components'
      \/ \E i \in DOMAIN commands' : commands'[i].id = id /\ commands'[i].kind = "register"
  BY <1>2, <1>5, <1>6 DEF RateHeard
<1>8. CASE R!RateOf(id) = rate
  <2>1. PICK k \in DOMAIN sent : sent[k].id = id
    BY <1>1, <1>8
  <2>2. ~(\A i \in DOMAIN commands' : commands'[i].id # id)
    BY <1>5, <1>6, <2>1
  <2>3. ASSUME NEW i \in DOMAIN commands', RateLastFor(id, i)'
        PROVE  commands'[i].interval = rates'[R!RateOf(id)]
    <3>1. commands'[i].id = id /\ ~(n + k > i)
      BY <1>5, <1>6, <2>1, <2>3 DEF RateLastFor
    <3>2. i - n \in DOMAIN sent /\ commands'[i] = sent[i - n]
      BY <1>5, <3>1
    <3> QED
      BY <1>1, <3>1, <3>2
  <2> QED
    BY <1>7, <2>2, <2>3 DEF RateHeard
<1>9. CASE R!RateOf(id) # rate
  <2>1. \A i \in DOMAIN sent : sent[i].id # id
    BY <1>1, <1>9
  <2>2. rates'[R!RateOf(id)] = rates[R!RateOf(id)]
    BY <1>2, <1>4, <1>9
  <2>3. ASSUME NEW i \in DOMAIN commands', RateLastFor(id, i)'
        PROVE  commands'[i].interval = rates'[R!RateOf(id)]
    <3>1. commands'[i].id = id /\ \A j \in DOMAIN commands' : j > i => commands'[j].id # id
      BY <2>3 DEF RateLastFor
    <3>2. i \in DOMAIN commands
      BY <1>5, <2>1, <3>1
    <3>3. RateLastFor(id, i)
      BY <1>5, <1>6, <3>1, <3>2 DEF RateLastFor
    <3> QED
      BY <1>5, <2>2, <3>2, <3>3 DEF RateHeard
  <2>4. ASSUME \A i \in DOMAIN commands' : commands'[i].id # id
        PROVE  id \in DOMAIN components' /\ components'[id].interval = rates'[R!RateOf(id)]
    BY <1>2, <1>5, <1>6, <2>2, <2>4 DEF RateHeard
  <2> QED
    BY <1>7, <2>3, <2>4 DEF RateHeard
<1> QED
  BY <1>8, <1>9

LEMMA RateStepHeard ==
    RateTypes /\ RateTypes' /\ RateAllHeard /\ [R!Next]_(R!vars) => RateAllHeard'
<1> SUFFICES ASSUME RateTypes, RateTypes', [R!Next]_(R!vars), NEW id \in R!Component,
                    RateHeard(id)
             PROVE  RateHeard(id)'
  BY DEF RateAllHeard
<1>1. CASE R!HandleCommand
  BY <1>1, RateHandleHeard
<1>2. ASSUME NEW rate \in R!Rate, NEW interval \in Intervals, R!EditRate(rate, interval)
      PROVE  RateHeard(id)'
  BY <1>2, RateEditHeard
<1>3. ASSUME \A c \in DOMAIN components : components'[c].interval = components[c].interval,
             DOMAIN components' = DOMAIN components, UNCHANGED <<commands, rates>>
      PROVE  RateHeard(id)'
  BY <1>3 DEF RateHeard, RateLastFor
<1>4. CASE R!Refresh
  BY <1>3, <1>4, RateRefreshFacts DEF R!Refresh, R!appVars
<1>5. CASE R!Tick
  <2>1. /\ \A c \in DOMAIN components : components'[c].interval = components[c].interval
        /\ DOMAIN components' = DOMAIN components
    BY <1>5 DEF R!Tick, RateTypes, RateCoordinatorTypes, R!ComponentType
  <2> QED
    BY <1>3, <1>5, <2>1 DEF R!Tick, R!appVars
<1>6. CASE R!Relaunch
  <2>1. (rates = disk)' /\ (commands = R!Registrations)'
    BY <1>6 DEF R!Relaunch, R!Registrations
  <2>2. (RateTypes /\ rates = disk /\ commands = R!Registrations => RateAllHeard)'
    BY RateRegisteredHeard, PTL
  <2> QED
    BY <2>1, <2>2 DEF RateAllHeard
<1>7. CASE UNCHANGED <<commands, components, rates>>
  BY <1>7 DEF RateHeard, RateLastFor
<1> QED
  BY <1>1, <1>2, <1>4, <1>5, <1>6, <1>7 DEF R!Next, R!vars, R!Deliver, R!Lose,
                                            R!Restart, R!coordinatorVars, R!appVars

-----------------------------------------------------------------------------
(* The daemon *)

\* The calls behind the first one.
LEMMA RateCallsTail ==
    ASSUME RateTypes, calls # <<>>, calls' = Tail(calls)
    PROVE  /\ 1 \in DOMAIN calls /\ \A i \in DOMAIN calls : i \in Nat /\ (i = 1 \/ i > 1)
           /\ \A i \in DOMAIN calls' : /\ i \in Nat /\ i + 1 \in DOMAIN calls
                                      /\ calls'[i] = calls[i + 1]
           /\ \A i \in DOMAIN calls :
                 i = 1 \/ (i - 1 \in DOMAIN calls' /\ calls'[i - 1] = calls[i])
<1>1. calls \in Seq(RateCallType)
  BY DEF RateTypes, RateAppTypes
<1>2. DOMAIN calls = 1 .. Len(calls) /\ Len(calls) \in Nat
  BY <1>1, LenProperties
<1> QED
  BY <1>1, <1>2, RateTailFacts

\* The calls with those of an edit: m syncs behind the n that wait, and the
\* interval.
RateCallsAfter(rate, interval, n, m) ==
    /\ DOMAIN calls = 1 .. n /\ DOMAIN calls' = 1 .. (n + m + 1)
    /\ \A i \in DOMAIN calls : calls'[i] = calls[i]
    /\ calls'[n + m + 1].kind = "update" /\ calls'[n + m + 1].rate = rate
    /\ calls'[n + m + 1].value = interval
    /\ m = 1 => /\ calls'[n + 1].kind = "sync" /\ calls'[n + 1].value = rates'
                /\ disk' = rates' /\ trail'.lost = trail.lost
    /\ m = 0 => disk' = disk /\ trail'.lost = TRUE

LEMMA RateEditShape ==
    ASSUME RateTypes, NEW rate \in R!Rate, NEW interval \in Intervals, R!EditRate(rate,
           interval)
    PROVE  \E n \in Nat, m \in {0, 1} : RateCallsAfter(rate, interval, n, m)
<1> DEFINE a == [kind |-> "sync", rate |-> rate, value |-> rates']
           b == [kind |-> "update", rate |-> rate, value |-> interval]
           n == Len(calls)
<1>1. /\ a \in RateCallType /\ b \in RateCallType
      /\ \/ calls' = calls \o <<a, b>> /\ disk' = rates' /\ trail'.lost = trail.lost
         \/ calls' = calls \o <<b>> /\ disk' = disk /\ trail'.lost = TRUE
  BY RateEditCalls
<1>2. /\ a.kind = "sync" /\ a.value = rates'
      /\ b.kind = "update" /\ b.rate = rate /\ b.value = interval
  OBVIOUS
<1> HIDE DEF a, b
<1>3. calls \in Seq(RateCallType)
  BY DEF RateTypes, RateAppTypes
<1>4. /\ <<a, b>> \in Seq(RateCallType) /\ Len(<<a, b>>) = 2 /\ DOMAIN <<a, b>> = 1 .. 2
      /\ <<a, b>>[1] = a /\ <<a, b>>[2] = b
      /\ <<b>> \in Seq(RateCallType) /\ Len(<<b>>) = 1 /\ DOMAIN <<b>> = 1 .. 1 /\ <<b>>[1] = b
  BY <1>1
<1>5. n \in Nat /\ DOMAIN calls = 1 .. n
  BY <1>3, LenProperties
<1>6. CASE calls' = calls \o <<a, b>> /\ disk' = rates' /\ trail'.lost = trail.lost
  <2>1. /\ DOMAIN calls' = 1 .. (n + 2)
        /\ \A i \in DOMAIN calls : calls'[i] = calls[i]
        /\ \A i \in 1 .. 2 : calls'[n + i] = <<a, b>>[i]
    BY <1>3, <1>4, <1>6, RateConcatFacts
  <2>2. calls'[n + 1] = a /\ calls'[n + 2] = b
    BY <1>4, <2>1
  <2>3. n + 1 + 1 = n + 2
    BY <1>5
  <2> HIDE DEF n
  <2> QED
    BY <1>2, <1>5, <1>6, <2>1, <2>2, <2>3 DEF RateCallsAfter
<1>7. CASE calls' = calls \o <<b>> /\ disk' = disk /\ trail'.lost = TRUE
  <2>1. /\ DOMAIN calls' = 1 .. (n + 1)
        /\ \A i \in DOMAIN calls : calls'[i] = calls[i]
        /\ \A i \in 1 .. 1 : calls'[n + i] = <<b>>[i]
    BY <1>3, <1>4, <1>7, RateConcatFacts
  <2>2. calls'[n + 1] = b
    BY <1>4, <2>1
  <2>3. n + 0 + 1 = n + 1
    BY <1>5
  <2> HIDE DEF n
  <2> QED
    BY <1>2, <1>5, <1>7, <2>1, <2>2, <2>3 DEF RateCallsAfter
<1> QED
  BY <1>1, <1>6, <1>7

LEMMA RateInitWaiting == R!RateConstants /\ R!Init => RateWaiting
BY DEF R!Init, RateWaiting

LEMMA RateTailWaiting ==
    ASSUME RateTypes, RateWaiting, calls # <<>>, calls' = Tail(calls), UNCHANGED <<rates, disk>>
    PROVE  RateWaiting'
<1>1. /\ \A i \in DOMAIN calls' : /\ i \in Nat /\ i + 1 \in DOMAIN calls
                                 /\ calls'[i] = calls[i + 1]
      /\ \A i \in DOMAIN calls : i \in Nat /\
            (i = 1 \/ (i - 1 \in DOMAIN calls' /\ calls'[i - 1] = calls[i]))
  BY RateCallsTail
<1>2. ASSUME NEW i \in DOMAIN calls', NEW j \in DOMAIN calls, j > i + 1
      PROVE  j - 1 \in DOMAIN calls' /\ j - 1 > i /\ calls'[j - 1] = calls[j]
  BY <1>1, <1>2
<1>3. ASSUME NEW i \in DOMAIN calls'
      PROVE  /\ RateSync(i)' = RateSync(i + 1) /\ RateDirect(i)' = RateDirect(i + 1)
             /\ (\A j \in DOMAIN calls' : j > i => ~RateSync(j)') =>
                   \A j \in DOMAIN calls : j > i + 1 => ~RateSync(j)
             /\ (\A j \in DOMAIN calls' : j > i => ~RateDirect(j)') =>
                   \A j \in DOMAIN calls : j > i + 1 => ~RateDirect(j)
  BY <1>1, <1>2, <1>3 DEF RateSync, RateDirect
<1>4. ASSUME NEW i \in DOMAIN calls'
      PROVE  i + 1 \in DOMAIN calls /\ calls'[i] = calls[i + 1]
  BY <1>1
<1> QED
  BY <1>3, <1>4 DEF RateWaiting

LEMMA RateEditWaiting ==
    ASSUME RateTypes, RateWaiting, NEW rate \in R!Rate, NEW interval \in Intervals,
           R!EditRate(rate, interval)
    PROVE  RateWaiting'
<1> DEFINE go == "gpu_overclock"
<1>1. PICK n \in Nat, m \in {0, 1} : RateCallsAfter(rate, interval, n, m)
  BY RateEditShape
<1>2. rates'[rate] = interval /\ (rate # go => rates'[go] = rates[go])
  BY RateEditSends DEF R!Rate
<1> DEFINE final == n + m + 1
<1>3. /\ final \in DOMAIN calls' /\ \A i \in DOMAIN calls : i \in DOMAIN calls' /\ i < final
      /\ m = 1 => n + 1 \in DOMAIN calls' /\ n + 1 < final /\ \A i \in DOMAIN calls : i < n + 1
      /\ \A i \in DOMAIN calls' : i \in DOMAIN calls \/ i = final \/ (m = 1 /\ i = n + 1)
  BY <1>1 DEF RateCallsAfter
<1>4. ~RateSync(final)' /\ RateDirect(final)' = (rate = go) /\ (m = 1 => RateSync(n + 1)' /\ ~RateDirect(n + 1)')
  BY <1>1 DEF RateCallsAfter, RateSync, RateDirect
<1>5. \A i \in DOMAIN calls : RateSync(i)' = RateSync(i) /\ RateDirect(i)' = RateDirect(i) /\ calls'[i] = calls[i]
  BY <1>1 DEF RateCallsAfter, RateSync, RateDirect
<1>6. calls'[final].value = interval /\ (m = 1 => calls'[n + 1].value = rates' /\ disk' = rates')
      /\ (m # 1 => disk' = disk)
  BY <1>1 DEF RateCallsAfter
<1>7. \A i, j \in DOMAIN calls' : j > i <=> i < j
  BY <1>1 DEF RateCallsAfter
<1> HIDE DEF final
<1> SUFFICES ASSUME NEW i \in DOMAIN calls'
             PROVE  /\ RateSync(i)' /\ (\A j \in DOMAIN calls' : j > i => ~RateSync(j)') =>
                          calls'[i].value = disk'
                    /\ RateDirect(i)' /\ (\A j \in DOMAIN calls' : j > i => ~RateDirect(j)') =>
                          calls'[i].value = rates'[go]
                    /\ RateSync(i)' /\ (\A j \in DOMAIN calls' : j > i => ~RateDirect(j)') =>
                          calls'[i].value[go] = rates'[go]
  BY DEF RateWaiting
<1>8. CASE i \in DOMAIN calls
  <2>1. (\A j \in DOMAIN calls' : j > i => ~RateSync(j)') =>
            (m # 1 /\ \A j \in DOMAIN calls : j > i => ~RateSync(j))
    BY <1>3, <1>4, <1>5, <1>7, <1>8
  <2>2. (\A j \in DOMAIN calls' : j > i => ~RateDirect(j)') =>
            (rate # go /\ \A j \in DOMAIN calls : j > i => ~RateDirect(j))
    BY <1>3, <1>4, <1>5, <1>7, <1>8
  <2> QED
    BY <1>2, <1>5, <1>6, <1>8, <2>1, <2>2 DEF RateWaiting
<1>9. CASE i = final
  BY <1>2, <1>4, <1>6, <1>9
<1>10. CASE m = 1 /\ i = n + 1
  BY <1>4, <1>6, <1>10
<1> QED
  BY <1>3, <1>8, <1>9, <1>10

LEMMA RateStepWaiting == RateTypes /\ RateWaiting /\ [R!Next]_(R!vars) => RateWaiting'
<1> SUFFICES ASSUME RateTypes, RateWaiting, [R!Next]_(R!vars) PROVE RateWaiting'
  OBVIOUS
<1>1. ASSUME NEW rate \in R!Rate, NEW interval \in Intervals, R!EditRate(rate, interval)
      PROVE  RateWaiting'
  BY <1>1, RateEditWaiting
<1>2. CASE R!Deliver \/ R!Lose
  BY <1>2, RateTailWaiting DEF R!Deliver, R!Lose
<1>3. CASE R!Relaunch
  <2>1. calls' = <<>>
    BY <1>3 DEF R!Relaunch
  <2> QED
    BY <2>1 DEF RateWaiting
<1>4. CASE UNCHANGED <<calls, rates, disk>>
  BY <1>4 DEF RateWaiting, RateSync, RateDirect
<1> QED
  BY <1>1, <1>2, <1>3, <1>4
     DEF R!Next, R!vars, R!HandleCommand, R!Refresh, R!Tick, R!Restart, R!appVars

\* The names of the rate and the job that the daemon keeps apart.
LEMMA RateJobFacts ==
    /\ "hardware_monitor" \in R!Job /\ "gpu_overclock" \in R!Job
    /\ "gpu_overclock" \in R!Rate /\ "hardware_monitor" \notin R!Rate
    /\ \A job \in R!Job : job = "hardware_monitor" \/ job = "gpu_overclock"
BY DEF R!Job, R!Rate

LEMMA RateInitFollowed == R!RateConstants /\ R!Init => RateFollowed
<1> SUFFICES ASSUME R!RateConstants, R!Init PROVE RateFollowed
  OBVIOUS
<1>1. stored = R!Loaded /\ jobs = R!Loaded /\ trail.current = home /\ disk = Defaults /\ rates = disk
  BY DEF R!Init
<1>2. R!Loaded = R!FromSections(disk)
  BY <1>1 DEF R!Loaded
<1> QED
  BY <1>1, <1>2 DEF RateFollowed

\* A sync leaves every job at its rate, if the job was at the rate that was
\* stored or at the one to come.
LEMMA RateSyncFollowed ==
    ASSUME RateTypes, RateTypes', RateWaiting, RateFollowed, R!Deliver, calls[1].kind = "sync"
    PROVE  RateFollowed'
<1> DEFINE go == "gpu_overclock"
           hm == "hardware_monitor"
           v == calls[1].value
           next == R!FromSections(v)
<1>1. calls # <<>> /\ calls' = Tail(calls) /\ rates' = rates /\ disk' = disk
  BY DEF R!Deliver
<1>2. Head(calls) = calls[1] /\ v \in RateSections
  BY <1>1, RateCallFacts
<1>3. R!SyncFrom(next) /\ trail' = [trail EXCEPT !.current = (v = rates)]
  BY <1>2 DEF R!Deliver
<1>4. /\ stored' = next /\ \A job \in R!Job :
            jobs'[job] = IF stored[job] # next[job] THEN next[job] ELSE jobs[job]
  BY <1>3 DEF R!SyncFrom, R!Rescheduled
<1>5. next[go] = v[go]
  BY <1>2, RateSectionsFacts DEF RateTypes
<1>6. /\ 1 \in DOMAIN calls /\ \A i \in DOMAIN calls : i = 1 \/ i > 1
      /\ \A i \in DOMAIN calls :
            i = 1 \/ (i - 1 \in DOMAIN calls' /\ calls'[i - 1] = calls[i])
      /\ ~(1 > 1)
  BY <1>1, RateCallsTail
<1>7. trail' \in [current : BOOLEAN, lost : BOOLEAN] /\ trail \in [current : BOOLEAN, lost : BOOLEAN]
  BY DEF RateTypes
<1>8. (trail'.current => v = rates) /\ trail'.lost = trail.lost
  BY <1>3, <1>7
<1> HIDE DEF next, v
<1>9. RateNoSync' => \A i \in DOMAIN calls : i > 1 => ~RateSync(i)
  <2>1. \A i \in DOMAIN calls : i > 1 => i # 1
    BY <1>6
  <2> QED
    BY <1>6, <2>1 DEF RateNoSync, RateSync
<1>10. RateNoDirect' => \A i \in DOMAIN calls : ~RateDirect(i)
  BY <1>6 DEF RateNoDirect, RateDirect
<1>11. RateSync(1) /\ calls[1].value = v
  BY DEF RateSync, v
<1>12. jobs'[hm] = stored'[hm]
  BY <1>4, RateJobFacts DEF RateFollowed
<1>13. trail'.current => stored' = R!FromSections(rates')
  BY <1>1, <1>4, <1>8 DEF next
<1>14. trail'.current /\ RateNoSync' => rates' = disk'
  BY <1>1, <1>6, <1>8, <1>9, <1>11 DEF RateWaiting
<1>15. ASSUME ~trail'.lost, RateNoDirect'
       PROVE  jobs'[go] \in {stored'[go], rates'[go]}
  <2>1. v[go] = rates[go]
    BY <1>6, <1>10, <1>11, <1>15 DEF RateWaiting
  <2>2. jobs[go] \in {stored[go], rates[go]}
    BY <1>8, <1>10, <1>15 DEF RateFollowed, RateNoDirect
  <2> QED
    BY <1>1, <1>4, <1>5, <2>1, <2>2, RateJobFacts
<1> QED
  BY <1>12, <1>13, <1>14, <1>15 DEF RateFollowed

\* The interval from a slider reaches the one job that has a slider's name.
LEMMA RateDirectFollowed ==
    ASSUME RateTypes, RateWaiting, RateFollowed, R!Deliver, calls[1].kind # "sync"
    PROVE  RateFollowed'
<1> DEFINE go == "gpu_overclock"
           hm == "hardware_monitor"
           call == calls[1]
<1>1. calls # <<>> /\ calls' = Tail(calls) /\ rates' = rates /\ disk' = disk
  BY DEF R!Deliver
<1>2. Head(calls) = call /\ call.rate \in R!Rate /\ call.kind = "update"
  BY <1>1, RateCallFacts
<1>3. /\ stored' = stored /\ trail' = trail
      /\ \A job \in R!Job : jobs'[job] = IF job = call.rate THEN call.value ELSE jobs[job]
  BY <1>2 DEF R!Deliver
<1>4. /\ 1 \in DOMAIN calls /\ \A i \in DOMAIN calls : i = 1 \/ i > 1
      /\ \A i \in DOMAIN calls : i > 1 => i # 1
      /\ \A i \in DOMAIN calls :
            i = 1 \/ (i - 1 \in DOMAIN calls' /\ calls'[i - 1] = calls[i])
  BY <1>1, RateCallsTail
<1>5. RateNoSync' => RateNoSync
  BY <1>2, <1>4 DEF RateNoSync, RateSync
<1>6. RateNoDirect' => \A i \in DOMAIN calls : i > 1 => ~RateDirect(i)
  BY <1>4 DEF RateNoDirect, RateDirect
<1>7. jobs'[hm] = stored'[hm]
  BY <1>2, <1>3, RateJobFacts DEF RateFollowed
<1>8. trail'.current => stored' = R!FromSections(rates')
  BY <1>1, <1>3 DEF RateFollowed
<1>9. trail'.current /\ RateNoSync' => rates' = disk'
  BY <1>1, <1>3, <1>5 DEF RateFollowed
<1>10. ASSUME ~trail'.lost, RateNoDirect'
       PROVE  jobs'[go] \in {stored'[go], rates'[go]}
  <2>1. CASE call.rate = go
    <3>1. RateDirect(1)
      BY <1>2, <2>1 DEF RateDirect
    <3>2. call.value = rates[go]
      BY <1>4, <1>6, <1>10, <3>1 DEF RateWaiting
    <3> QED
      BY <1>1, <1>3, <2>1, <3>2, RateJobFacts
  <2>2. CASE call.rate # go
    <3>1. RateNoDirect
      BY <1>4, <1>6, <1>10, <2>2 DEF RateNoDirect, RateDirect
    <3> QED
      BY <1>1, <1>3, <1>10, <2>2, <3>1, RateJobFacts DEF RateFollowed
  <2> QED
    BY <2>1, <2>2
<1> QED
  BY <1>7, <1>8, <1>9, <1>10 DEF RateFollowed

LEMMA RateLoseFollowed ==
    ASSUME RateTypes, RateFollowed, R!Lose
    PROVE  RateFollowed'
<1>1. calls # <<>> /\ calls' = Tail(calls) /\ UNCHANGED <<rates, disk, stored, jobs>>
  BY DEF R!Lose, R!daemonVars
<1>2. /\ trail'.current => trail.current /\ calls[1].kind # "sync"
      /\ trail'.lost
  BY <1>1, RateCallFacts DEF R!Lose
<1>3. /\ \A i \in DOMAIN calls :
            i = 1 \/ (i - 1 \in DOMAIN calls' /\ calls'[i - 1] = calls[i])
  BY <1>1, RateCallsTail
<1>4. trail'.current /\ RateNoSync' => RateNoSync
  BY <1>2, <1>3 DEF RateNoSync, RateSync
<1> QED
  BY <1>1, <1>2, <1>4 DEF RateFollowed

LEMMA RateEditFollowed ==
    ASSUME RateTypes, RateFollowed, NEW rate \in R!Rate, NEW interval \in Intervals,
           R!EditRate(rate, interval)
    PROVE  RateFollowed'
<1> DEFINE go == "gpu_overclock"
<1>1. /\ ~trail'.current /\ stored' = stored /\ jobs' = jobs
  BY RateEditCalls
<1>2. rate # go => rates'[go] = rates[go]
  BY RateEditSends DEF R!Rate
<1>3. ASSUME ~trail'.lost, RateNoDirect'
      PROVE  rate # go /\ RateNoDirect /\ ~trail.lost
  <2>1. PICK n \in Nat, m \in {0, 1} : RateCallsAfter(rate, interval, n, m)
    BY RateEditShape
  <2>2. n + m + 1 \in DOMAIN calls' /\ DOMAIN calls \subseteq DOMAIN calls'
    BY <2>1 DEF RateCallsAfter
  <2>3. rate # go
    BY <1>3, <2>1, <2>2 DEF RateCallsAfter, RateNoDirect, RateDirect
  <2>4. RateNoDirect
    BY <1>3, <2>1, <2>2 DEF RateCallsAfter, RateNoDirect, RateDirect
  <2>5. ~trail.lost
    BY <1>3, <2>1 DEF RateCallsAfter
  <2> QED
    BY <2>3, <2>4, <2>5
<1> QED
  BY <1>1, <1>2, <1>3 DEF RateFollowed

LEMMA RateRelaunchFollowed ==
    ASSUME RateTypes, RateFollowed, R!Relaunch
    PROVE  RateFollowed'
<1>1. rates' = disk /\ disk' = disk /\ calls' = <<>> /\ stored' = stored /\ jobs' = jobs
  BY DEF R!Relaunch, R!daemonVars
<1>2. /\ trail'.current => trail.current /\ RateNoSync
      /\ ~trail'.lost => ~trail.lost /\ calls = <<>> /\ rates = disk
  BY DEF R!Relaunch, RateNoSync, RateSync
<1>3. trail'.current => stored' = R!FromSections(rates')
  BY <1>1, <1>2 DEF RateFollowed
<1>4. ~trail'.lost => jobs'["gpu_overclock"] \in {stored'["gpu_overclock"], rates'["gpu_overclock"]}
  <2>1. calls = <<>> => RateNoDirect
    BY DEF RateNoDirect
  <2> QED
    BY <1>1, <1>2, <2>1 DEF RateFollowed
<1> QED
  BY <1>1, <1>3, <1>4 DEF RateFollowed

LEMMA RateRestartFollowed ==
    ASSUME RateTypes, R!Restart
    PROVE  RateFollowed'
<1>1. /\ stored' = R!Loaded /\ jobs' = R!Loaded /\ rates' = rates /\ disk' = disk
      /\ trail'.current = (home /\ disk = rates)
  BY DEF R!Restart, R!appVars
<1>2. home => R!Loaded = R!FromSections(disk)
  BY DEF R!Loaded
<1> QED
  BY <1>1, <1>2 DEF RateFollowed

LEMMA RateStepFollowed ==
    RateTypes /\ RateTypes' /\ RateWaiting /\ RateFollowed /\ [R!Next]_(R!vars) => RateFollowed'
<1> SUFFICES ASSUME RateTypes, RateTypes', RateWaiting, RateFollowed,
                    [R!Next]_(R!vars) PROVE RateFollowed'
  OBVIOUS
<1>1. ASSUME NEW rate \in R!Rate, NEW interval \in Intervals, R!EditRate(rate, interval)
      PROVE  RateFollowed'
  BY <1>1, RateEditFollowed
<1>2. CASE UNCHANGED <<calls, rates, disk, stored, jobs, trail>>
  BY <1>2 DEF RateFollowed, RateNoSync, RateNoDirect, RateSync, RateDirect
<1> QED
  BY <1>1, <1>2, RateSyncFollowed, RateDirectFollowed, RateLoseFollowed,
     RateRelaunchFollowed, RateRestartFollowed
     DEF R!Next, R!vars, R!HandleCommand, R!Refresh, R!Tick, R!appVars, R!daemonVars

-----------------------------------------------------------------------------
LEMMA RatesInitially == R!RateConstants /\ R!Init => RatesInv
BY RateInitTypes, RateInitAwake, RateInitHeard, RateInitWaiting, RateInitFollowed
   DEF RatesInv

LEMMA RatesMove == RatesInv /\ [R!Next]_(R!vars) => RatesInv'
BY RateStepTypes, RateStepAwake, RateStepHeard, RateStepWaiting, RateStepFollowed
   DEF RatesInv

LEMMA RatesTypesSafe == RatesInv => R!TypeOK
<1> SUFFICES ASSUME RatesInv PROVE R!TypeOK
  OBVIOUS
<1>1. RateTypes
  BY DEF RatesInv
<1>2. \A id \in DOMAIN components : components[id] \in R!ComponentType
  BY <1>1 DEF RateTypes, RateCoordinatorTypes
<1>3. \A i \in DOMAIN commands : commands[i].id \in R!Component
  <2>1. \A i \in DOMAIN commands : commands[i] \in RateCommandType
    BY <1>1, LenProperties, ElementOfSeq DEF RateTypes, RateCoordinatorTypes
  <2> QED
    BY <2>1 DEF RateCommandType
<1>4. \A i \in DOMAIN calls : calls[i].kind \in {"sync", "update"}
  <2>1. \A i \in DOMAIN calls : calls[i] \in RateCallType
    BY <1>1, LenProperties, ElementOfSeq DEF RateTypes, RateAppTypes
  <2> QED
    BY <2>1 DEF RateCallType
<1> QED
  BY <1>1, <1>2, <1>3, <1>4
     DEF R!TypeOK, RateTypes, RateAppTypes, RateCoordinatorTypes, RateDaemonTypes,
         RateSections

LEMMA RatesSafe == RatesInv => R!RatesInForce
<1> SUFFICES ASSUME RatesInv PROVE R!RatesInForce
  OBVIOUS
<1>1. RateTypes /\ RateAwake /\ RateAllHeard /\ RateFollowed /\ R!RateConstants
  BY DEF RatesInv, RateTypes
<1>2. ASSUME NEW id \in DOMAIN components, R!Due(components[id])
      PROVE  sleep = 0
  <2>1. components[id] \in R!ComponentType /\ sleep \in Nat /\ sleep <= R!Remaining(components[id])
    BY <1>1, RateIntervalFacts DEF RateTypes, RateCoordinatorTypes, RateAwake
  <2>2. R!Remaining(components[id]) = 0
    BY <1>1, <1>2, <2>1, RateComponentFacts
  <2> QED
    BY <2>1, <2>2
<1>3. ASSUME commands = <<>>, NEW id \in R!Component
      PROVE  components[id].interval = rates[R!RateOf(id)]
  BY <1>1, <1>3 DEF RateAllHeard, RateHeard
<1>4. ASSUME calls = <<>>, trail.current
      PROVE  /\ jobs["hardware_monitor"] = R!FromSections(rates)["hardware_monitor"]
             /\ ~trail.lost => jobs = R!FromSections(rates)
  <2>1. RateNoDirect
    BY <1>4 DEF RateNoDirect
  <2>2. rates \in RateSections /\ jobs \in [R!Job -> Intervals]
    BY <1>1 DEF RateTypes, RateAppTypes, RateDaemonTypes
  <2>3. /\ R!FromSections(rates) \in [R!Job -> Intervals]
        /\ R!FromSections(rates)["gpu_overclock"] = rates["gpu_overclock"]
    BY <1>1, <2>2, RateSectionsFacts
  <2>4. /\ jobs["hardware_monitor"] = R!FromSections(rates)["hardware_monitor"]
        /\ ~trail.lost => jobs["gpu_overclock"] = R!FromSections(rates)["gpu_overclock"]
    BY <1>1, <1>4, <2>1, <2>3 DEF RateFollowed
  <2> QED
    BY <2>2, <2>3, <2>4, RateJobFacts
<1> QED
  BY <1>2, <1>3, <1>4 DEF R!RatesInForce

-----------------------------------------------------------------------------
(* The parts together *)

DesktopInv == AppInv /\ CurveInv /\ RatesInv

LEMMA DesktopInitially == DesktopInit => DesktopInv
<1> SUFFICES ASSUME DesktopInit PROVE DesktopInv
  OBVIOUS
<1>1. AppInv
  BY InitApp, GuiAppAssumption DEF DesktopInit
<1>2. CurveInv
  BY CurveInitially, DesktopPartsAssumption DEF DesktopInit
<1>3. RatesInv
  BY RatesInitially, DesktopPartsAssumption DEF DesktopInit
<1> QED
  BY <1>1, <1>2, <1>3 DEF DesktopInv

\* A part that does not move keeps its invariant.
LEMMA DesktopStay ==
    ASSUME DesktopInv
    PROVE  /\ UNCHANGED vars => AppInv'
           /\ UNCHANGED curveVars => CurveInv'
           /\ UNCHANGED rateVars => RatesInv'
<1>1. ASSUME UNCHANGED vars PROVE AppInv'
  BY <1>1, StepApp DEF DesktopInv
<1>2. ASSUME UNCHANGED curveVars PROVE CurveInv'
  <2>1. UNCHANGED F!vars
    BY <1>2 DEF curveVars, F!vars
  <2> QED
    BY <2>1, CurveMoves DEF DesktopInv
<1>3. ASSUME UNCHANGED rateVars PROVE RatesInv'
  <2>1. UNCHANGED R!vars
    BY <1>3 DEF rateVars, R!vars
  <2> QED
    BY <2>1, RatesMove DEF DesktopInv
<1> QED
  BY <1>1, <1>2, <1>3

LEMMA DesktopStep == DesktopInv /\ [DesktopNext]_desktopVars => DesktopInv'
<1> SUFFICES ASSUME DesktopInv, [DesktopNext]_desktopVars PROVE DesktopInv'
  OBVIOUS
<1>1. CASE AppStep
  <2>1. Next /\ UNCHANGED curveVars /\ UNCHANGED rateVars
    BY <1>1 DEF AppStep
  <2>2. AppInv'
    BY <2>1, StepApp DEF DesktopInv
  <2> QED
    BY <2>1, <2>2, DesktopStay DEF DesktopInv
<1>2. CASE CurveStep
  <2>1. F!Next /\ UNCHANGED vars /\ UNCHANGED rateVars
    BY <1>2 DEF CurveStep
  <2>2. CurveInv'
    BY <2>1, CurveMoves DEF DesktopInv
  <2> QED
    BY <2>1, <2>2, DesktopStay DEF DesktopInv
<1>3. CASE RateStep
  <2>1. R!Next /\ UNCHANGED vars /\ UNCHANGED curveVars
    BY <1>3 DEF RateStep
  <2>2. RatesInv'
    BY <2>1, RatesMove DEF DesktopInv
  <2> QED
    BY <2>1, <2>2, DesktopStay DEF DesktopInv
<1>4. CASE UNCHANGED desktopVars
  <2>1. UNCHANGED vars /\ UNCHANGED curveVars /\ UNCHANGED rateVars
    BY <1>4 DEF desktopVars
  <2> QED
    BY <2>1, DesktopStay DEF DesktopInv
<1> QED
  BY <1>1, <1>2, <1>3, <1>4 DEF DesktopNext

LEMMA DesktopInvariant == DesktopSpec => []DesktopInv
BY DesktopInitially, DesktopStep, PTL DEF DesktopSpec

\* Every variable of the three parts keeps its type.
THEOREM DesktopTypes == DesktopSpec => []TypesOK
<1>1. DesktopInv => TypesOK
  BY AppTypesSafe, CurveTypesSafe, RatesTypesSafe DEF DesktopInv, TypesOK
<1> QED
  BY DesktopInvariant, <1>1, PTL

\* AppConfig::save and load: while no write has failed or been cut short and no profile
\* was renamed, the profiles in memory and in profiles.json are those the user made and
\* did not delete, whatever was clicked, saved, reset or migrated between two starts.
THEOREM ProfilesSurvive == DesktopSpec => []ProfilesKept
<1>1. DesktopInv => ProfilesKept
  BY AppKept DEF DesktopInv
<1> QED
  BY DesktopInvariant, <1>1, PTL

\* The profiles page, the tuning page and the tray: what ApplyProfile last carried to
\* the daemon is the current profile, as it is shown unless sliders were moved since.
THEOREM AppliedIsCurrent == DesktopSpec => []CurrentIsApplied
<1>1. DesktopInv => CurrentIsApplied
  BY AppApplied DEF DesktopInv
<1> QED
  BY DesktopInvariant, <1>1, PTL

\* sync_tray: a frame that is drawn and a tray without waiting events agree on the
\* current profile and on the menu, but for the crossings the property names.
THEOREM MenuAgrees == DesktopSpec => []TrayAgrees
<1>1. DesktopInv => TrayAgrees
  BY AppMenu DEF DesktopInv
<1> QED
  BY DesktopInvariant, <1>1, PTL

\* calculate_fan_speed: a saved curve of any length, in any order, gives every point
\* its speed, and any curve that is not empty a speed between those of two of its
\* points at every temperature: never 0 / 0 and never the fallback.
THEOREM CurveFollowed == DesktopSpec => []CurveIsFollowed
<1>1. DesktopInv => CurveIsFollowed
  BY CurveSafe DEF DesktopInv, CurveIsFollowed
<1> QED
  BY DesktopInvariant, <1>1, PTL

\* add_point and interpolate_speed: on a curve that Save accepts, a new point changes
\* the speed at no temperature by more than one percent, wherever the gap was and
\* whatever the order of the points.
THEOREM AddKeeps == DesktopSpec => AddKeepsCurve
<1>1. DesktopInv =>
        [F!AddPoint /\ F!Valid(points) =>
           LET fan == F!CalculateFanSpeed(points)
               new == F!CalculateFanSpeed(points') IN
           \A t \in 0 .. F!Full : F!Diff(fan[t], new[t]) <= 1]_(F!vars)
  BY CurveAddSafe DEF DesktopInv
<1> QED
  BY DesktopInvariant, <1>1, PTL DEF AddKeepsCurve, F!AddKeepsCurve

\* RefreshCoordinator and sync_from: for any intervals and any number of edits, failures
\* and restarts, the coordinator never sleeps past what is due, has every rate once it
\* has read its commands, and the daemon's jobs run at the rates of the page whenever
\* the property says that they should.
THEOREM RatesAreInForce == DesktopSpec => []RatesInForce
<1>1. DesktopInv => RatesInForce
  BY RatesSafe DEF DesktopInv, RatesInForce
<1> QED
  BY DesktopInvariant, <1>1, PTL
=============================================================================
