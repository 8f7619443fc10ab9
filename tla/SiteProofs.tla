------------------------------- MODULE SiteProofs -------------------------------
(***************************************************************************)
(* Proofs about what lies beside the public site: the two kinds of caches  *)
(* catch up with the tables, there is one default language, and the tree   *)
(* of categories is whole until moves cross, for any number of requests in *)
(* flight.                                                                 *)
(***************************************************************************)
EXTENDS MCSite, FiniteSetTheorems, WellFoundedInduction, TLAPS

(***************************************************************************)
(* The cache of answers.                                                   *)
(***************************************************************************)
FedByAnother(c) == \E d \in Controllers \ {c} : <<d, c>> \in Feeds

AnswersTypeOK ==
  /\ edition \in [Controllers -> Nat]
  /\ answers \in [Controllers -> {None} \cup [data : Nat, timestamp : Nat, crossed : BOOLEAN]]
  /\ asking \in [Askers -> [of : Controllers \cup {None}, data : Nat, crossed : BOOLEAN]]
  /\ changing \in [Changers -> Controllers \cup {None}]
  /\ clock \in Nat
  /\ editedAt \in [Controllers -> Nat]

(* A GET that holds what the tables no longer say has been crossed.        *)
GetKnows(get) == get.of # None => get.crossed \/ get.data = edition[get.of]

(* An entry is marked as crossed, or no write through its own controller   *)
(* is on the way, and it is what the tables say or was stored before       *)
(* another controller changed them.                                        *)
EntryKnows(c, entry) ==
  entry # None =>
    /\ entry.timestamp <= clock
    /\ \/ entry.crossed
       \/ /\ \A w \in Changers : changing[w] # c
          /\ entry.data = edition[c] \/ (FedByAnother(c) /\ entry.timestamp <= editedAt[c])

AnswersKnow ==
  /\ \A r \in Askers : GetKnows(asking[r])
  /\ \A c \in Controllers : EntryKnows(c, answers[c])

AnswersIInv == AnswersTypeOK /\ AnswersKnow

LEMMA AnswersStart == AnswersInit => AnswersIInv
  BY DEF AnswersInit, AnswersIInv, AnswersTypeOK, AnswersKnow, GetKnows, EntryKnows, NoGet

LEMMA HandlePreserves ==
  ASSUME AnswersIInv, NEW r \in Askers, NEW c \in Controllers, Handle(r, c)
  PROVE  AnswersIInv'
  BY DEF Handle, AnswersIInv, AnswersTypeOK, AnswersKnow, GetKnows, EntryKnows

LEMMA SetAnswerPreserves ==
  ASSUME AnswersIInv, NEW r \in Askers, SetAnswer(r)
  PROVE  AnswersIInv'
<1> DEFINE c == asking[r].of
           entry == [data |-> asking[r].data, timestamp |-> clock,
                     crossed |-> asking[r].crossed \/ \E w \in Changers : changing[w] = c]
<1>1. /\ c \in Controllers /\ asking[r].data \in Nat /\ asking[r].crossed \in BOOLEAN
      /\ answers' = [answers EXCEPT ![c] = entry]
      /\ asking' = [asking EXCEPT ![r] = NoGet]
      /\ UNCHANGED <<edition, changing, clock, editedAt>>
      /\ GetKnows(asking[r]) /\ c # None
  BY DEF SetAnswer, AnswersIInv, AnswersTypeOK, AnswersKnow
<1>2. entry \in [data : Nat, timestamp : Nat, crossed : BOOLEAN]
  BY <1>1 DEF AnswersIInv, AnswersTypeOK
<1>3. EntryKnows(c, entry)
  <2>1. entry.data = edition[c] \/ entry.crossed
    BY <1>1 DEF GetKnows
  <2>2. entry.crossed \/ \A w \in Changers : changing[w] # c
    OBVIOUS
  <2> QED
    BY <2>1, <2>2 DEF EntryKnows, AnswersIInv, AnswersTypeOK
<1> HIDE DEF entry
<1>4. \A d \in Controllers : EntryKnows(d, answers'[d])
  BY <1>1, <1>3 DEF AnswersIInv, AnswersTypeOK, AnswersKnow
<1>5. AnswersTypeOK'
  BY <1>1, <1>2 DEF NoGet, AnswersIInv, AnswersTypeOK
<1> QED
  BY <1>1, <1>4, <1>5 DEF NoGet, AnswersIInv, AnswersTypeOK, AnswersKnow, GetKnows, EntryKnows

LEMMA StartChangePreserves ==
  ASSUME AnswersIInv, NEW w \in Changers, NEW c \in Controllers, StartChange(w, c)
  PROVE  AnswersIInv'
  BY NoneIsNoController
     DEF StartChange, Cleared, AnswersIInv, AnswersTypeOK, AnswersKnow, GetKnows, EntryKnows

LEMMA ChangePreserves ==
  ASSUME AnswersIInv, NEW w \in Changers, Change(w)
  PROVE  AnswersIInv'
<1> DEFINE through == changing[w]
           shown == {d \in Controllers : <<through, d>> \in Feeds}
<1>1. /\ through \in Controllers
      /\ edition' = [d \in Controllers |-> IF d \in shown THEN edition[d] + 1 ELSE edition[d]]
      /\ editedAt' = [d \in Controllers |-> IF d \in shown THEN clock ELSE editedAt[d]]
      /\ asking' = [r \in Askers |-> [asking[r] EXCEPT !.crossed = @ \/ asking[r].of \in shown]]
      /\ changing' = [changing EXCEPT ![w] = None]
      /\ UNCHANGED <<answers, clock>>
  BY DEF Change, AnswersIInv, AnswersTypeOK
<1> HIDE DEF through, shown
<1>2. AnswersTypeOK'
  <2>1. asking' \in [Askers -> [of : Controllers \cup {None}, data : Nat, crossed : BOOLEAN]]
    BY <1>1 DEF AnswersIInv, AnswersTypeOK
  <2> QED
    BY <1>1, <2>1 DEF AnswersIInv, AnswersTypeOK
<1>3. ASSUME NEW r \in Askers PROVE GetKnows(asking[r])'
  <2>1. /\ asking'[r].of = asking[r].of /\ asking'[r].data = asking[r].data
        /\ asking'[r].crossed = (asking[r].crossed \/ asking[r].of \in shown)
        /\ asking[r].of \in Controllers \cup {None}
    BY <1>1 DEF AnswersIInv, AnswersTypeOK
  <2>2. GetKnows(asking[r])
    BY DEF AnswersIInv, AnswersKnow
  <2> QED
    BY <1>1, <2>1, <2>2 DEF GetKnows
<1>4. ASSUME NEW d \in Controllers PROVE EntryKnows(d, answers[d])'
  <2> SUFFICES ASSUME answers[d] # None, ~answers[d].crossed
               PROVE  /\ answers[d].timestamp <= clock
                      /\ \A v \in Changers : changing'[v] # d
                      /\ \/ answers[d].data = edition'[d]
                         \/ FedByAnother(d) /\ answers[d].timestamp <= editedAt'[d]
    BY <1>1 DEF AnswersIInv, AnswersKnow, EntryKnows
  <2>1. /\ answers[d].timestamp <= clock
        /\ \A v \in Changers : changing[v] # d
        /\ \/ answers[d].data = edition[d]
           \/ FedByAnother(d) /\ answers[d].timestamp <= editedAt[d]
    BY DEF AnswersIInv, AnswersKnow, EntryKnows
  <2>2. d \in shown => FedByAnother(d)
    BY <1>1, <2>1 DEF shown, through, FedByAnother
  <2>3. \A v \in Changers : changing'[v] # d
    BY <1>1, <2>1, NoneIsNoController DEF AnswersIInv, AnswersTypeOK
  <2> QED
    BY <1>1, <2>1, <2>2, <2>3
<1> QED
  BY <1>2, <1>3, <1>4 DEF AnswersIInv, AnswersKnow

LEMMA NoChangePreserves ==
  ASSUME AnswersIInv, NEW w \in Changers, NoChange(w)
  PROVE  AnswersIInv'
  BY NoneIsNoController
     DEF NoChange, AnswersIInv, AnswersTypeOK, AnswersKnow, GetKnows, EntryKnows

LEMMA ClockTicksPreserves ==
  ASSUME AnswersIInv, ClockTicks
  PROVE  AnswersIInv'
  BY DEF ClockTicks, AnswersIInv, AnswersTypeOK, AnswersKnow, GetKnows, EntryKnows

LEMMA AnswersKept == AnswersIInv /\ [AnswersNext]_answerVars => AnswersIInv'
<1> SUFFICES ASSUME AnswersIInv, [AnswersNext]_answerVars PROVE AnswersIInv'
  OBVIOUS
<1>1. ASSUME NEW r \in Askers, SetAnswer(r) PROVE AnswersIInv'
  BY <1>1, SetAnswerPreserves
<1>2. ASSUME NEW r \in Askers, NEW c \in Controllers, Handle(r, c) PROVE AnswersIInv'
  BY <1>2, HandlePreserves
<1>3. ASSUME NEW w \in Changers, Change(w) PROVE AnswersIInv'
  BY <1>3, ChangePreserves
<1>4. ASSUME NEW w \in Changers, NoChange(w) PROVE AnswersIInv'
  BY <1>4, NoChangePreserves
<1>5. ASSUME NEW w \in Changers, NEW c \in {f[1] : f \in Feeds}, StartChange(w, c)
      PROVE  AnswersIInv'
  BY <1>5, StartChangePreserves, AnswerBounds
<1>6. CASE ClockTicks
  BY <1>6, ClockTicksPreserves
<1>7. CASE UNCHANGED answerVars
  BY <1>7 DEF answerVars, AnswersIInv, AnswersTypeOK, AnswersKnow, GetKnows, EntryKnows
<1> QED
  BY <1>1, <1>2, <1>3, <1>4, <1>5, <1>6, <1>7 DEF AnswersNext

(* A served answer is younger than a time to live, hence so is the change  *)
(* that it has not seen.                                                   *)
LEMMA AnswersShow == AnswersIInv => AnswersCatchUp
<1> SUFFICES ASSUME AnswersIInv, NEW c \in Controllers,
                    Served(c), answers[c].data # edition[c], ~answers[c].crossed
             PROVE  FedByAnother(c) /\ clock < editedAt[c] + CacheTTL
  BY DEF AnswersCatchUp, FedByAnother
<1>1. /\ answers[c].timestamp \in Nat /\ clock \in Nat /\ editedAt[c] \in Nat /\ CacheTTL \in Nat
      /\ clock < answers[c].timestamp + CacheTTL
  BY AnswerBounds DEF Served, AnswersIInv, AnswersTypeOK
<1>2. FedByAnother(c) /\ answers[c].timestamp <= editedAt[c]
  BY DEF Served, AnswersIInv, AnswersKnow, EntryKnows
<1> QED
  BY <1>1, <1>2

(* An answer that is served and is not what the tables say was read beside *)
(* the write that changed them, or was changed through another controller  *)
(* a time to live ago at most (CacheInterceptor.intercept).                *)
THEOREM CachedAnswersCatchUp == AnswersSpec => []AnswersCatchUp
  BY AnswersStart, AnswersKept, AnswersShow, PTL DEF AnswersSpec

(***************************************************************************)
(* The caches of the settings.                                             *)
(***************************************************************************)
ReadingShape(x) ==
  /\ x = [cache |-> x.cache, lang |-> x.lang, data |-> x.data, crossed |-> x.crossed]
  /\ x.cache \in {None, "public", "layout"} /\ x.crossed \in BOOLEAN

SettingsTypeOK ==
  /\ time \in Nat /\ changedAt \in Nat
  /\ reading = [r \in Readers |-> reading[r]]
  /\ \A r \in Readers : ReadingShape(reading[r])
  /\ \A l \in DOMAIN layoutCache : layoutCache[l].expiresAt \in Nat

(* What is held or cached of the public settings is what the tables say,   *)
(* or somebody has still to empty the cache, or an emptying was crossed.   *)
PublicKnown(l, inHand) == inHand.data = PublicSettings(l) \/ toInvalidate # {} \/ inHand.crossed

PublicInv ==
  /\ \A r \in Readers : reading[r].cache = "public" => PublicKnown(reading[r].lang, reading[r])
  /\ \A l \in DOMAIN publicCache : PublicKnown(l, publicCache[l])

(* A layout that is held is what the tables say or was crossed by a write; *)
(* one that is cached may also have been stored before the last write.     *)
LayoutKnown(l, inHand) == inHand.data = LayoutSettings(l) \/ inHand.crossed

LayoutInv ==
  /\ \A r \in Readers : reading[r].cache = "layout" => LayoutKnown(reading[r].lang, reading[r])
  /\ \A l \in DOMAIN layoutCache :
       /\ layoutCache[l].expiresAt <= time + TimeToLive
       /\ \/ LayoutKnown(l, layoutCache[l])
          \/ layoutCache[l].expiresAt <= changedAt + TimeToLive

SettingsIInv == SettingsTypeOK /\ PublicInv /\ LayoutInv

LEMMA SameSettings ==
  ASSUME UNCHANGED settings, NEW l
  PROVE  PublicSettings(l)' = PublicSettings(l) /\ LayoutSettings(l)' = LayoutSettings(l)
  BY DEF PublicSettings, LayoutSettings

LEMMA SettingsStart == SettingsInit => SettingsIInv
<1> SUFFICES ASSUME SettingsInit PROVE SettingsIInv
  OBVIOUS
<1>1. /\ time = 0 /\ changedAt = 0 /\ DOMAIN publicCache = {} /\ DOMAIN layoutCache = {}
      /\ reading = [r \in Readers |-> NoReading]
  BY DEF SettingsInit
<1>2. ReadingShape(NoReading) /\ NoReading.cache = None
  BY DEF NoReading, ReadingShape
<1> QED
  BY <1>1, <1>2, NoneIsNoCache DEF SettingsIInv, SettingsTypeOK, PublicInv, LayoutInv

(* Every write of the tables, whatever it writes.                          *)
LEMMA WrittenPreserves ==
  ASSUME SettingsIInv, NEW e, NEW table, Written(e, table)
  PROVE  SettingsIInv'
<1>1. /\ time' = time /\ changedAt' = time /\ e \in toInvalidate'
      /\ publicCache' = publicCache /\ layoutCache' = layoutCache
      /\ reading' = Crosses("layout")
  BY DEF Written
<1>2. ASSUME NEW r \in Readers
      PROVE  /\ ReadingShape(reading'[r]) /\ reading'[r].cache = reading[r].cache
             /\ reading[r].cache = "layout" => reading'[r].crossed
  <2>1. reading'[r] = [reading[r] EXCEPT !.crossed = @ \/ reading[r].cache = "layout"]
    BY <1>1 DEF Crosses
  <2>2. ReadingShape(reading[r])
    BY DEF SettingsIInv, SettingsTypeOK
  <2> QED
    BY <2>1, <2>2 DEF ReadingShape
<1>3. SettingsTypeOK'
  BY <1>1, <1>2 DEF Crosses, SettingsIInv, SettingsTypeOK
<1>4. PublicInv'
  BY <1>1 DEF PublicInv, PublicKnown
<1>5. LayoutInv'
  BY <1>1, <1>2, SettingBounds DEF LayoutInv, LayoutKnown, SettingsIInv, SettingsTypeOK
<1> QED
  BY <1>3, <1>4, <1>5 DEF SettingsIInv

LEMMA InvalidateCachePreserves ==
  ASSUME SettingsIInv, NEW e, InvalidateCache(e)
  PROVE  SettingsIInv'
<1>1. /\ UNCHANGED <<settings, time, changedAt, layoutCache>>
      /\ DOMAIN publicCache' = {}
      /\ reading' = Crosses("public")
  BY DEF InvalidateCache, EmptyCache, settingTables
<1>2. ASSUME NEW r \in Readers
      PROVE  /\ ReadingShape(reading'[r])
             /\ reading'[r].cache = reading[r].cache
             /\ reading'[r].lang = reading[r].lang /\ reading'[r].data = reading[r].data
             /\ reading[r].crossed => reading'[r].crossed
             /\ reading[r].cache = "public" => reading'[r].crossed
  <2>1. reading'[r] = [reading[r] EXCEPT !.crossed = @ \/ reading[r].cache = "public"]
    BY <1>1 DEF Crosses
  <2>2. ReadingShape(reading[r])
    BY DEF SettingsIInv, SettingsTypeOK
  <2> QED
    BY <2>1, <2>2 DEF ReadingShape
<1>3. SettingsTypeOK'
  BY <1>1, <1>2 DEF Crosses, SettingsIInv, SettingsTypeOK
<1>4. PublicInv'
  BY <1>1, <1>2 DEF PublicInv, PublicKnown
<1>5. LayoutInv'
  BY <1>1, <1>2 DEF LayoutInv, LayoutKnown, LayoutSettings, SettingsIInv
<1> QED
  BY <1>3, <1>4, <1>5 DEF SettingsIInv

LEMMA ReadPreserves ==
  ASSUME SettingsIInv, NEW r \in Readers, NEW l,
         \/ Read(r, "public", l, PublicSettings(l)) \/ Read(r, "layout", l, LayoutSettings(l))
  PROVE  SettingsIInv'
<1> PICK cache, data :
         /\ cache \in {"public", "layout"} /\ Read(r, cache, l, data)
         /\ cache = "public" => data = PublicSettings(l)
         /\ cache = "layout" => data = LayoutSettings(l)
  OBVIOUS
<1> DEFINE inHand == [cache |-> cache, lang |-> l, data |-> data, crossed |-> FALSE]
<1>1. /\ UNCHANGED <<settings, time, changedAt, publicCache, layoutCache, toInvalidate>>
      /\ reading' = [reading EXCEPT ![r] = inHand]
  BY DEF Read, settingTables
<1>2. /\ ReadingShape(inHand) /\ inHand.cache = cache /\ inHand.lang = l /\ inHand.data = data
  BY DEF ReadingShape
<1> HIDE DEF inHand
<1>3. reading' = [q \in Readers |-> IF q = r THEN inHand ELSE reading[q]]
  BY <1>1 DEF SettingsIInv, SettingsTypeOK
<1>4. SettingsTypeOK'
  BY <1>1, <1>2, <1>3 DEF SettingsIInv, SettingsTypeOK
<1>5. PublicInv'
  BY <1>1, <1>2, <1>3, SameSettings DEF PublicInv, PublicKnown, SettingsIInv, SettingsTypeOK
<1>6. LayoutInv'
  BY <1>1, <1>2, <1>3, SameSettings DEF LayoutInv, LayoutKnown, SettingsIInv, SettingsTypeOK
<1> QED
  BY <1>4, <1>5, <1>6 DEF SettingsIInv

LEMMA StorePreserves ==
  ASSUME SettingsIInv, NEW r \in Readers, Store(r)
  PROVE  SettingsIInv'
<1> DEFINE inHand == reading[r]
           entry == [data |-> inHand.data, expiresAt |-> time + TimeToLive, crossed |-> inHand.crossed]
<1>1. /\ UNCHANGED <<settings, time, changedAt, toInvalidate>>
      /\ reading' = [reading EXCEPT ![r] = NoReading]
      /\ publicCache' = IF inHand.cache = "public" THEN Put(publicCache, inHand.lang, entry) ELSE publicCache
      /\ layoutCache' = IF inHand.cache = "layout" THEN Put(layoutCache, inHand.lang, entry) ELSE layoutCache
  BY DEF Store, settingTables
<1>2. reading' = [q \in Readers |-> IF q = r THEN NoReading ELSE reading[q]]
  BY <1>1 DEF SettingsIInv, SettingsTypeOK
<1>3. /\ time \in Nat /\ TimeToLive \in Nat
      /\ entry.data = inHand.data /\ entry.crossed = inHand.crossed
      /\ entry.expiresAt = time + TimeToLive
  BY SettingBounds DEF SettingsIInv, SettingsTypeOK
<1> HIDE DEF entry
<1>4. ReadingShape(NoReading) /\ NoReading.cache = None
  BY DEF ReadingShape, NoReading
<1>5. /\ \A l \in DOMAIN publicCache' :
           publicCache'[l] = IF inHand.cache = "public" /\ l = inHand.lang THEN entry ELSE publicCache[l]
      /\ DOMAIN publicCache' = DOMAIN publicCache \cup
           IF inHand.cache = "public" THEN {inHand.lang} ELSE {}
  BY <1>1 DEF Put
<1>6. /\ \A l \in DOMAIN layoutCache' :
           layoutCache'[l] = IF inHand.cache = "layout" /\ l = inHand.lang THEN entry ELSE layoutCache[l]
      /\ DOMAIN layoutCache' = DOMAIN layoutCache \cup
           IF inHand.cache = "layout" THEN {inHand.lang} ELSE {}
  BY <1>1 DEF Put
<1>7. SettingsTypeOK'
  BY <1>1, <1>2, <1>3, <1>4, <1>6 DEF SettingsIInv, SettingsTypeOK
<1>8. PublicInv'
  BY <1>1, <1>2, <1>3, <1>4, <1>5, NoneIsNoCache
     DEF PublicInv, PublicKnown, PublicSettings, SettingsIInv
<1>9. LayoutInv'
  BY <1>1, <1>2, <1>3, <1>4, <1>6, NoneIsNoCache
     DEF LayoutInv, LayoutKnown, LayoutSettings, SettingsIInv
<1> QED
  BY <1>7, <1>8, <1>9 DEF SettingsIInv

LEMMA TimePassesPreserves ==
  ASSUME SettingsIInv, TimePasses
  PROVE  SettingsIInv'
<1>1. /\ UNCHANGED <<settings, changedAt, publicCache, layoutCache, toInvalidate, reading>>
      /\ time' = time + 1
  BY DEF TimePasses
<1> QED
  BY <1>1, SettingBounds
     DEF SettingsIInv, SettingsTypeOK, PublicInv, PublicKnown, PublicSettings, LayoutInv,
         LayoutKnown, LayoutSettings

LEMMA SettingsKept == SettingsIInv /\ [SettingsNext]_settingVars => SettingsIInv'
<1> SUFFICES ASSUME SettingsIInv, [SettingsNext]_settingVars PROVE SettingsIInv'
  OBVIOUS
<1>1. ASSUME NEW e \in SettingEditors, SettingRoutes(e), ~InvalidateCache(e)
      PROVE  \E table : Written(e, table)
  BY <1>1 DEF SettingRoutes, CreateSetting, UpdateSetting, UpdateGlobalContent,
              UpdateLocalizedContent, DeleteSetting
<1>2. ASSUME NEW e \in SettingEditors, SettingRoutes(e) PROVE SettingsIInv'
  BY <1>1, <1>2, WrittenPreserves, InvalidateCachePreserves
<1>3. ASSUME NEW r \in Readers, NEW l \in SettingLangs, GetPublicSettings(r, l) \/ GetLayout(r, l)
      PROVE  SettingsIInv'
  BY <1>3, ReadPreserves DEF GetPublicSettings, GetLayout
<1>4. ASSUME NEW r \in Readers, Store(r) PROVE SettingsIInv'
  BY <1>4, StorePreserves
<1>5. CASE TimePasses
  BY <1>5, TimePassesPreserves
<1>6. CASE UNCHANGED settingVars
  BY <1>6 DEF settingVars, settingTables, SettingsIInv, SettingsTypeOK, PublicInv, PublicKnown,
              PublicSettings, LayoutInv, LayoutKnown, LayoutSettings
<1> QED
  BY <1>2, <1>3, <1>4, <1>5, <1>6 DEF SettingsNext

LEMMA SettingsShow == SettingsIInv => SettingsCatchUp
<1> SUFFICES ASSUME SettingsIInv PROVE PublicCatchesUp /\ LayoutCatchesUp
  BY DEF SettingsCatchUp
<1>1. PublicCatchesUp
  BY DEF PublicCatchesUp, SettingsIInv, PublicInv, PublicKnown
<1>2. LayoutCatchesUp
  BY SettingBounds
     DEF LayoutCatchesUp, Fresh, SettingsIInv, SettingsTypeOK, LayoutInv, LayoutKnown
<1> QED
  BY <1>1, <1>2

(* A cached answer that is still served and is not what the tables say:    *)
(* the public settings only between a write and its emptying, the layout   *)
(* only for a time to live after the last write, unless either was read    *)
(* before and stored after (SettingsService, SiteService.getLayout).       *)
THEOREM CachedSettingsCatchUp == SettingsSpec => []SettingsCatchUp
  BY SettingsStart, SettingsKept, SettingsShow, PTL DEF SettingsSpec

(* Both at once, in the system where a behaviour is about either.          *)
THEOREM SiteCachesCatchUp == MCSpec => []CachesCatchUp
<1> DEFINE Both == AnswersIInv /\ SettingsIInv
<1>1. MCInit => Both
  BY AnswersStart, SettingsStart DEF MCInit
<1>2. MCNext => [AnswersNext]_answerVars /\ [SettingsNext]_settingVars
  BY DEF MCNext
<1>3. Both /\ [MCNext]_<<siteVars, categoryVars, settingVars, languageVars, answerVars, subject>> => Both'
  <2>1. CASE MCNext
    BY <1>2, <2>1, AnswersKept, SettingsKept
  <2>2. CASE UNCHANGED <<settingVars, answerVars>>
    BY <2>2, AnswersKept, SettingsKept
  <2> QED
    BY <2>1, <2>2
<1>4. Both => CachesCatchUp
  BY AnswersShow, SettingsShow DEF CachesCatchUp
<1> QED
  BY <1>1, <1>3, <1>4, PTL DEF MCSpec

(***************************************************************************)
(* Languages.                                                              *)
(***************************************************************************)
EditType ==
  [at : {"idle", "finding", "unsetting", "writing", "removing", "toggling"},
   id : Nat, old : Nat, dto : LanguageDto \cup {None}]

LanguagesTypeOK ==
  /\ nextLanguage \in Nat \ {0}
  /\ DOMAIN languages \subseteq 1 .. nextLanguage - 1
  /\ languages \in [DOMAIN languages -> [active : BOOLEAN, default : BOOLEAN]]
  /\ languageEdit \in [LanguageEditors -> EditType]
  /\ \A e \in LanguageEditors :
       /\ languageEdit[e].at = "writing" => languageEdit[e].dto \in LanguageDto
       /\ languageEdit[e].at \in {"finding", "unsetting"} =>
            languageEdit[e].dto \in LanguageDto /\ languageEdit[e].dto.default = TRUE

IsTheDefault(d) == Defaults = {d}

(* What the one request about the default knows of it at each place.       *)
KnowsDefault(e) ==
  /\ languageEdit[e].at = "finding" => \E d : IsTheDefault(d)
  /\ languageEdit[e].at = "unsetting" => IsTheDefault(languageEdit[e].old)
  /\ languageEdit[e].at = "writing" /\ languageEdit[e].dto.default = TRUE => Defaults = {}
  /\ languageEdit[e].at = "removing" => \E d : IsTheDefault(d) /\ d # languageEdit[e].id

Undisturbed ==
  /\ \A e, o \in LanguageEditors : AboutDefault(e) /\ AboutDefault(o) => e = o
  /\ \A e \in LanguageEditors : KnowsDefault(e)
  /\ \/ \E e \in LanguageEditors : AboutDefault(e)
     \/ \E d : IsTheDefault(d)

LanguagesIInv == LanguagesTypeOK /\ (upset \/ Undisturbed)

LEMMA LanguagesStart == LanguagesInit => LanguagesIInv
<1> SUFFICES ASSUME LanguagesInit PROVE LanguagesIInv
  OBVIOUS
<1>1. LanguagesTypeOK
  BY DEF LanguagesInit, NoLanguageEdit, LanguagesTypeOK, EditType
<1>2. IsTheDefault(1)
  BY DEF LanguagesInit, IsTheDefault, Defaults
<1>3. \A e \in LanguageEditors : languageEdit[e].at = "idle"
  BY DEF LanguagesInit, NoLanguageEdit
<1> QED
  BY <1>1, <1>2, <1>3 DEF LanguagesIInv, Undisturbed, AboutDefault, KnowsDefault

LEMMA SameDefaults ==
  ASSUME UNCHANGED languages
  PROVE  Defaults' = Defaults
  BY DEF Defaults

LEMMA SameEdit ==
  ASSUME NEW o, languageEdit'[o] = languageEdit[o]
  PROVE  /\ AboutDefault(o)' <=> AboutDefault(o)
         /\ Defaults' = Defaults /\ KnowsDefault(o) => KnowsDefault(o)'
  BY DEF AboutDefault, KnowsDefault, IsTheDefault

LEMMA StartWritePreserves ==
  ASSUME LanguagesIInv, NEW e \in LanguageEditors, NEW dto \in LanguageDto,
         NEW i \in DOMAIN languages \cup {0}, StartWrite(e, i, dto)
  PROVE  LanguagesIInv'
<1> DEFINE asked == [at |-> IF dto.default = TRUE THEN "finding" ELSE "writing",
                     id |-> i, old |-> 0, dto |-> dto]
<1>1. /\ languageEdit' = [languageEdit EXCEPT ![e] = asked]
      /\ upset' = (upset \/ (dto.default = TRUE /\ \E o \in LanguageEditors : AboutDefault(o)))
      /\ UNCHANGED <<languages, nextLanguage>>
      /\ languageEdit[e].at = "idle" /\ i \in Nat
  BY DEF StartWrite, Begins, LanguagesIInv, LanguagesTypeOK
<1>2. asked \in EditType /\ asked.dto = dto /\ asked.at = IF dto.default = TRUE THEN "finding" ELSE "writing"
  BY <1>1 DEF EditType
<1> HIDE DEF asked
<1>3. LanguagesTypeOK'
  BY <1>1, <1>2 DEF LanguagesIInv, LanguagesTypeOK
<1>4. ASSUME ~upset' PROVE Undisturbed'
  <2>1. Undisturbed /\ (dto.default = TRUE => \A o \in LanguageEditors : ~AboutDefault(o))
    BY <1>1, <1>4 DEF LanguagesIInv
  <2>2. \A o \in LanguageEditors : o # e => languageEdit'[o] = languageEdit[o]
    BY <1>1 DEF LanguagesIInv, LanguagesTypeOK
  <2>3. languageEdit'[e] = asked
    BY <1>1 DEF LanguagesIInv, LanguagesTypeOK
  <2>4. \A o \in LanguageEditors : o # e => (AboutDefault(o)' <=> AboutDefault(o)) /\ KnowsDefault(o)'
    BY <1>1, <2>1, <2>2, SameDefaults, SameEdit DEF Undisturbed
  <2>5. CASE dto.default = TRUE
    <3>1. \E d : Defaults' = {d}
      BY <1>1, <2>1, <2>5, SameDefaults DEF Undisturbed, IsTheDefault
    <3>2. AboutDefault(e)' /\ KnowsDefault(e)'
      BY <1>2, <2>3, <2>5, <3>1 DEF AboutDefault, KnowsDefault, IsTheDefault
    <3> QED
      BY <2>1, <2>4, <2>5, <3>2 DEF Undisturbed
  <2>6. CASE dto.default # TRUE
    <3>1. ~AboutDefault(e)' /\ KnowsDefault(e)' /\ ~AboutDefault(e)
      BY <1>1, <1>2, <2>3, <2>6 DEF AboutDefault, KnowsDefault
    <3>2. (\E d : IsTheDefault(d)) => (\E d : IsTheDefault(d))'
      BY <1>1, SameDefaults DEF IsTheDefault
    <3> QED
      BY <2>1, <2>4, <3>1, <3>2 DEF Undisturbed
  <2> QED
    BY <2>5, <2>6
<1> QED
  BY <1>3, <1>4 DEF LanguagesIInv

(* The steps of a request e that leave the others and upset alone.         *)
LEMMA FindDefaultPreserves ==
  ASSUME LanguagesIInv, NEW e \in LanguageEditors, FindDefault(e)
  PROVE  LanguagesIInv'
<1>1. PICK edit : /\ languageEdit' = [languageEdit EXCEPT ![e] = edit]
                  /\ edit \in EditType /\ edit.dto = languageEdit[e].dto
                  /\ \/ edit.at = "writing" /\ Defaults = {}
                     \/ edit.at = "unsetting" /\ edit.old \in Defaults
  <2>1. CASE Defaults = {}
    <3>1. languageEdit' = [languageEdit EXCEPT ![e] = [languageEdit[e] EXCEPT !.at = "writing"]]
      BY <2>1 DEF FindDefault
    <3>2. [languageEdit[e] EXCEPT !.at = "writing"] \in EditType
      BY DEF LanguagesIInv, LanguagesTypeOK, EditType
    <3> QED
      BY <2>1, <3>1, <3>2 DEF LanguagesIInv, LanguagesTypeOK, EditType
  <2>2. CASE Defaults # {}
    <3>1. PICK d \in Defaults :
            languageEdit' = [languageEdit EXCEPT ![e].at = "unsetting", ![e].old = d]
      BY <2>2 DEF FindDefault
    <3>2. d \in Nat
      BY DEF Defaults, LanguagesIInv, LanguagesTypeOK
    <3> DEFINE edit == [languageEdit[e] EXCEPT !.at = "unsetting", !.old = d]
    <3>3. languageEdit' = [languageEdit EXCEPT ![e] = edit]
      BY <3>1 DEF LanguagesIInv, LanguagesTypeOK, EditType
    <3>4. /\ edit \in EditType /\ edit.at = "unsetting" /\ edit.old = d
          /\ edit.dto = languageEdit[e].dto
      BY <3>2 DEF LanguagesIInv, LanguagesTypeOK, EditType
    <3> QED
      BY <3>3, <3>4
  <2> QED
    BY <2>1, <2>2
<1>2. UNCHANGED <<languages, nextLanguage, upset>> /\ languageEdit[e].at = "finding"
  BY DEF FindDefault
<1>3. LanguagesTypeOK'
  BY <1>1, <1>2 DEF LanguagesIInv, LanguagesTypeOK
<1>4. ASSUME Undisturbed PROVE Undisturbed'
  <2>2. \A o \in LanguageEditors : o # e => languageEdit'[o] = languageEdit[o]
    BY <1>1 DEF LanguagesIInv, LanguagesTypeOK
  <2>3. languageEdit'[e] = edit
    BY <1>1 DEF LanguagesIInv, LanguagesTypeOK
  <2>1. PICK d : Defaults = {d}
    BY <1>2, <1>4 DEF Undisturbed, KnowsDefault, IsTheDefault
  <2>4. edit.at = "unsetting" /\ IsTheDefault(edit.old)
    BY <1>1, <2>1 DEF IsTheDefault
  <2>5. AboutDefault(e)
    BY <1>2 DEF AboutDefault
  <2>6. \A o \in LanguageEditors : AboutDefault(o) => o = e
    BY <1>4, <2>5 DEF Undisturbed
  <2> QED
    BY <1>2, <2>2, <2>3, <2>4, <2>6, SameDefaults DEF Undisturbed, AboutDefault, KnowsDefault, IsTheDefault
<1> QED
  BY <1>2, <1>3, <1>4 DEF LanguagesIInv

LEMMA UnsetDefaultPreserves ==
  ASSUME LanguagesIInv, NEW e \in LanguageEditors, UnsetDefault(e)
  PROVE  LanguagesIInv'
<1> DEFINE d == languageEdit[e].old
           row == NoDefault(languages[d])
<1>1. /\ languageEdit[e].at = "unsetting" /\ d \in DOMAIN languages
      /\ languages' = [languages EXCEPT ![d] = row]
      /\ languageEdit' = [languageEdit EXCEPT ![e].at = "writing"]
      /\ UNCHANGED <<nextLanguage, upset>>
  BY DEF UnsetDefault
<1>2. row \in [active : BOOLEAN, default : BOOLEAN] /\ row.default = FALSE
  BY <1>1 DEF NoDefault, LanguagesIInv, LanguagesTypeOK
<1> HIDE DEF row
<1>3. LanguagesTypeOK'
  BY <1>1, <1>2 DEF LanguagesIInv, LanguagesTypeOK, EditType
<1>4. Defaults' = Defaults \ {d}
  BY <1>1, <1>2 DEF Defaults, LanguagesIInv, LanguagesTypeOK
<1>5. ASSUME Undisturbed PROVE Undisturbed'
  <2>1. Defaults' = {}
    BY <1>1, <1>4, <1>5 DEF Undisturbed, KnowsDefault, IsTheDefault
  <2>2. \A o \in LanguageEditors : o # e => languageEdit'[o] = languageEdit[o] /\ ~AboutDefault(o)
    BY <1>1, <1>5 DEF LanguagesIInv, LanguagesTypeOK, Undisturbed, AboutDefault
  <2>3. /\ languageEdit'[e].at = "writing" /\ languageEdit'[e].dto = languageEdit[e].dto
        /\ languageEdit[e].dto.default = TRUE
    BY <1>1 DEF LanguagesIInv, LanguagesTypeOK, EditType
  <2> QED
    BY <2>1, <2>2, <2>3 DEF Undisturbed, AboutDefault, KnowsDefault
<1> QED
  BY <1>1, <1>3, <1>5 DEF LanguagesIInv

(* A request that ends in a write of row i, of which default is what it    *)
(* says or what it was.                                                    *)
LEMMA EndsInWrite ==
  ASSUME LanguagesIInv, NEW e \in LanguageEditors, languageEdit[e].at = "writing",
         NEW i \in 1 .. nextLanguage' - 1, NEW row \in [active : BOOLEAN, default : BOOLEAN],
         nextLanguage' \in Nat \ {0}, nextLanguage <= nextLanguage',
         languages' = Put(languages, i, row),
         languageEdit' = [languageEdit EXCEPT ![e] = NoLanguageEdit],
         upset => upset',
         languageEdit[e].dto.default = TRUE => row.default = TRUE,
         languageEdit[e].dto.default # TRUE => upset' \/ (row.default <=> i \in Defaults)
  PROVE  LanguagesIInv'
<1>1. /\ DOMAIN languages' = DOMAIN languages \cup {i}
      /\ \A j \in DOMAIN languages' : languages'[j] = IF j = i THEN row ELSE languages[j]
  BY DEF Put
<1>2. NoLanguageEdit \in EditType /\ NoLanguageEdit.at = "idle"
  BY DEF NoLanguageEdit, EditType
<1>3. languages' \in [DOMAIN languages' -> [active : BOOLEAN, default : BOOLEAN]]
  <2>1. \A j \in DOMAIN languages : languages[j] \in [active : BOOLEAN, default : BOOLEAN]
    BY DEF LanguagesIInv, LanguagesTypeOK
  <2>2. languages' = [j \in DOMAIN languages' |-> languages'[j]]
    BY DEF Put
  <2> QED
    BY <1>1, <2>1, <2>2
<1>4. LanguagesTypeOK'
  BY <1>1, <1>2, <1>3 DEF LanguagesIInv, LanguagesTypeOK
<1>5. Defaults' = (Defaults \ {i}) \cup (IF row.default THEN {i} ELSE {})
  BY <1>1 DEF Defaults
<1>6. \A o \in LanguageEditors : languageEdit'[o] = IF o = e THEN NoLanguageEdit ELSE languageEdit[o]
  BY DEF LanguagesIInv, LanguagesTypeOK
<1>7. ASSUME ~upset' PROVE Undisturbed'
  <2>1. Undisturbed
    BY <1>7 DEF LanguagesIInv
  <2>2. CASE languageEdit[e].dto.default = TRUE
    <3>1. Defaults = {} /\ row.default
      BY <2>1, <2>2 DEF Undisturbed, KnowsDefault
    <3>2. Defaults' = {i}
      BY <1>5, <3>1
    <3>3. AboutDefault(e)
      BY <2>2 DEF AboutDefault
    <3>4. \A o \in LanguageEditors : AboutDefault(o) => o = e
      BY <2>1, <3>3 DEF Undisturbed
    <3> QED
      BY <1>2, <1>6, <3>2, <3>4 DEF Undisturbed, KnowsDefault, AboutDefault, IsTheDefault
  <2>3. CASE languageEdit[e].dto.default # TRUE
    <3>1. Defaults' = Defaults /\ ~AboutDefault(e)
      BY <1>5, <1>7, <2>3 DEF AboutDefault
    <3>2. \A o \in LanguageEditors : o # e => (AboutDefault(o)' <=> AboutDefault(o)) /\ KnowsDefault(o)'
      BY <1>6, <2>1, <3>1, SameEdit DEF Undisturbed
    <3>3. ~AboutDefault(e)' /\ KnowsDefault(e)'
      BY <1>2, <1>6 DEF AboutDefault, KnowsDefault
    <3>4. (\E d : IsTheDefault(d)) => (\E d : IsTheDefault(d))'
      BY <3>1 DEF IsTheDefault
    <3> QED
      BY <2>1, <3>1, <3>2, <3>3, <3>4 DEF Undisturbed
  <2> QED
    BY <2>2, <2>3
<1> QED
  BY <1>4, <1>7 DEF LanguagesIInv

LEMMA WriteNewPreserves ==
  ASSUME LanguagesIInv, NEW e \in LanguageEditors, WriteNew(e)
  PROVE  LanguagesIInv'
<1> DEFINE dto == languageEdit[e].dto
           row == [active |-> Given(dto.active, TRUE), default |-> Given(dto.default, FALSE)]
<1>1. /\ languageEdit[e].at = "writing" /\ dto \in LanguageDto /\ nextLanguage \in Nat \ {0}
      /\ nextLanguage \notin DOMAIN languages
      /\ DOMAIN languages \subseteq 1 .. nextLanguage - 1
  BY DEF WriteNew, LanguagesIInv, LanguagesTypeOK
<1>2. /\ row \in [active : BOOLEAN, default : BOOLEAN]
      /\ row.default <=> dto.default = TRUE
  <2>1. dto.active \in BOOLEAN \cup {None} /\ dto.default \in BOOLEAN \cup {None}
    BY <1>1 DEF LanguageDto
  <2>2. Given(dto.active, TRUE) \in BOOLEAN /\ Given(dto.default, FALSE) \in BOOLEAN
    BY <2>1 DEF Given
  <2>3. Given(dto.default, FALSE) <=> dto.default = TRUE
    BY <2>1, NoneIsNoFlag DEF Given
  <2> QED
    BY <2>2, <2>3
<1>3. nextLanguage \in 1 .. nextLanguage' - 1 /\ nextLanguage' \in Nat \ {0} /\ nextLanguage <= nextLanguage'
  BY <1>1, LanguageBounds DEF WriteNew, LanguagesIInv, LanguagesTypeOK
<1> QED
  BY <1>1, <1>2, <1>3, EndsInWrite DEF WriteNew, Defaults

LEMMA WriteLanguagePreserves ==
  ASSUME LanguagesIInv, NEW e \in LanguageEditors, WriteLanguage(e)
  PROVE  LanguagesIInv'
<1> DEFINE i == languageEdit[e].id
           dto == languageEdit[e].dto
           row == [active |-> Given(dto.active, languages[i].active),
                   default |-> Given(dto.default, languages[i].default)]
<1>1. /\ languageEdit[e].at = "writing" /\ dto \in LanguageDto
      /\ i \in DOMAIN languages /\ languages[i] \in [active : BOOLEAN, default : BOOLEAN]
      /\ i \in 1 .. nextLanguage - 1 /\ nextLanguage \in Nat \ {0}
      /\ languageEdit' = [languageEdit EXCEPT ![e] = NoLanguageEdit]
      /\ upset' = (upset \/ (dto.default = FALSE /\ languages[i].default))
      /\ nextLanguage' = nextLanguage
  BY DEF WriteLanguage, LanguagesIInv, LanguagesTypeOK
<1>2. dto.active \in BOOLEAN \cup {None} /\ dto.default \in BOOLEAN \cup {None}
  BY <1>1 DEF LanguageDto
<1>3. /\ Given(dto.active, languages[i].active) \in BOOLEAN
      /\ Given(dto.default, languages[i].default) \in BOOLEAN
  BY <1>1, <1>2 DEF Given
<1>4. /\ dto.default = TRUE => Given(dto.default, languages[i].default) = TRUE
      /\ dto.default # TRUE =>
           upset' \/ (Given(dto.default, languages[i].default) <=> i \in Defaults)
  BY <1>1, <1>2, NoneIsNoFlag DEF Given, Defaults
<1>5. languages' = Put(languages, i, row)
  <2>1. languages' = [languages EXCEPT ![i].active = Given(dto.active, @),
                                       ![i].default = Given(dto.default, @)]
    BY DEF WriteLanguage
  <2>2. languages = [j \in DOMAIN languages |-> languages[j]] /\ i \in DOMAIN languages
    BY <1>1 DEF LanguagesIInv, LanguagesTypeOK
  <2>3. languages' = [j \in DOMAIN languages |-> IF j = i THEN languages'[i] ELSE languages[j]]
    BY <2>1, <2>2
  <2>4. languages'[i] = row
    BY <1>1, <2>1, <2>2
  <2> QED
    BY <2>2, <2>3, <2>4 DEF Put
<1>6. row \in [active : BOOLEAN, default : BOOLEAN] /\ row.default = Given(dto.default, languages[i].default)
  BY <1>3
<1>7. i \in 1 .. nextLanguage' - 1 /\ nextLanguage' \in Nat \ {0} /\ nextLanguage <= nextLanguage'
  BY <1>1
<1>8. upset => upset'
  BY <1>1
<1> HIDE DEF row
<1> QED
  BY <1>1, <1>4, <1>5, <1>6, <1>7, <1>8, EndsInWrite

LEMMA BreakOffPreserves ==
  ASSUME LanguagesIInv, NEW e \in LanguageEditors, BreakOff(e)
  PROVE  LanguagesIInv'
<1>1. /\ upset' = (upset \/ AboutDefault(e)) /\ UNCHANGED <<languages, nextLanguage>>
      /\ \A o \in LanguageEditors : languageEdit'[o] = IF o = e THEN NoLanguageEdit ELSE languageEdit[o]
      /\ languageEdit' \in [LanguageEditors -> EditType]
  BY DEF BreakOff, NoLanguageEdit, EditType, LanguagesIInv, LanguagesTypeOK
<1>2. NoLanguageEdit.at = "idle"
  BY DEF NoLanguageEdit
<1>3. LanguagesTypeOK'
  BY <1>1, <1>2 DEF LanguagesIInv, LanguagesTypeOK
<1>4. ASSUME ~upset' PROVE Undisturbed'
  <2>1. Undisturbed /\ ~AboutDefault(e)
    BY <1>1, <1>4 DEF LanguagesIInv
  <2>2. Defaults' = Defaults
    BY <1>1, SameDefaults
  <2>3. \A o \in LanguageEditors : AboutDefault(o)' <=> AboutDefault(o)
    BY <1>1, <1>2, <2>1 DEF AboutDefault
  <2>4. ASSUME NEW o \in LanguageEditors PROVE KnowsDefault(o)'
    <3>1. KnowsDefault(o)
      BY <2>1 DEF Undisturbed
    <3>2. CASE o = e
      BY <1>1, <1>2, <3>2 DEF KnowsDefault
    <3>3. CASE o # e
      <4>1. languageEdit'[o] = languageEdit[o]
        BY <1>1, <3>3
      <4> QED
        BY <2>2, <3>1, <4>1 DEF KnowsDefault, IsTheDefault
    <3> QED
      BY <3>2, <3>3
  <2> QED
    BY <2>1, <2>2, <2>3, <2>4 DEF Undisturbed, IsTheDefault
<1> QED
  BY <1>3, <1>4 DEF LanguagesIInv

LEMMA StartRemovePreserves ==
  ASSUME LanguagesIInv, NEW e \in LanguageEditors, NEW i \in DOMAIN languages, StartRemove(e, i)
  PROVE  LanguagesIInv'
<1> DEFINE asked == [NoLanguageEdit EXCEPT !.at = "removing", !.id = i]
<1>1. /\ languageEdit' = [languageEdit EXCEPT ![e] = asked]
      /\ upset' = (upset \/ \E o \in LanguageEditors : AboutDefault(o))
      /\ UNCHANGED <<languages, nextLanguage>>
      /\ i \in Nat /\ i \notin Defaults
  BY DEF StartRemove, Begins, MayRemove, Defaults, LanguagesIInv, LanguagesTypeOK
<1>2. asked \in EditType /\ asked.at = "removing" /\ asked.id = i
  BY <1>1 DEF EditType, NoLanguageEdit
<1> HIDE DEF asked
<1>3. \A o \in LanguageEditors : languageEdit'[o] = IF o = e THEN asked ELSE languageEdit[o]
  BY <1>1 DEF LanguagesIInv, LanguagesTypeOK
<1>4. LanguagesTypeOK'
  BY <1>1, <1>2, <1>3 DEF LanguagesIInv, LanguagesTypeOK
<1>5. ASSUME ~upset' PROVE Undisturbed'
  <2>1. Undisturbed /\ \A o \in LanguageEditors : ~AboutDefault(o)
    BY <1>1, <1>5 DEF LanguagesIInv
  <2>2. PICK d : Defaults = {d} /\ d # i
    BY <1>1, <2>1 DEF Undisturbed, IsTheDefault
  <2> QED
    BY <1>1, <1>2, <1>3, <2>1, <2>2, SameDefaults
       DEF Undisturbed, AboutDefault, KnowsDefault, IsTheDefault
<1> QED
  BY <1>4, <1>5 DEF LanguagesIInv

LEMMA RemovePreserves ==
  ASSUME LanguagesIInv, NEW e \in LanguageEditors, Remove(e)
  PROVE  LanguagesIInv'
<1> DEFINE i == languageEdit[e].id
<1>1. /\ languageEdit[e].at = "removing"
      /\ languages' = Only(languages, DOMAIN languages \ {i})
      /\ \A o \in LanguageEditors : languageEdit'[o] = IF o = e THEN NoLanguageEdit ELSE languageEdit[o]
      /\ languageEdit' \in [LanguageEditors -> EditType]
      /\ UNCHANGED <<nextLanguage, upset>>
  BY DEF Remove, NoLanguageEdit, EditType, LanguagesIInv, LanguagesTypeOK
<1>2. NoLanguageEdit.at = "idle"
  BY DEF NoLanguageEdit
<1>3. /\ DOMAIN languages' = DOMAIN languages \ {i}
      /\ \A j \in DOMAIN languages' : languages'[j] = languages[j]
      /\ languages' \in [DOMAIN languages' -> [active : BOOLEAN, default : BOOLEAN]]
  BY <1>1 DEF Only, LanguagesIInv, LanguagesTypeOK
<1>4. LanguagesTypeOK'
  BY <1>1, <1>2, <1>3 DEF LanguagesIInv, LanguagesTypeOK
<1>5. ASSUME Undisturbed PROVE Undisturbed'
  <2>1. PICK d : Defaults = {d} /\ d # i
    BY <1>1, <1>5 DEF Undisturbed, KnowsDefault, IsTheDefault
  <2>2. Defaults' = Defaults
    BY <1>3, <2>1 DEF Defaults
  <2>3. AboutDefault(e)
    BY <1>1 DEF AboutDefault
  <2>4. \A o \in LanguageEditors : AboutDefault(o) => o = e
    BY <1>5, <2>3 DEF Undisturbed
  <2> QED
    BY <1>1, <1>2, <2>1, <2>2, <2>4 DEF Undisturbed, AboutDefault, KnowsDefault, IsTheDefault
<1> QED
  BY <1>1, <1>4, <1>5 DEF LanguagesIInv

(* toggleActive is never about the default.                                *)
LEMMA TogglePreserves ==
  ASSUME LanguagesIInv, NEW e \in LanguageEditors,
         ReadFlag(e) \/ \E i \in DOMAIN languages : StartToggle(e, i)
  PROVE  LanguagesIInv'
<1>1. UNCHANGED <<languages, nextLanguage, upset>> /\ languageEdit[e].at \in {"idle", "toggling"}
  BY DEF ReadFlag, StartToggle, Begins
<1>2. PICK edit \in EditType :
         /\ languageEdit' = [languageEdit EXCEPT ![e] = edit]
         /\ \/ edit.at = "toggling"
            \/ edit.at = "writing" /\ edit.dto \in LanguageDto /\ edit.dto.default = None
  <2>1. CASE ReadFlag(e)
    <3> DEFINE i == languageEdit[e].id
               dto == [active |-> ~languages[i].active, default |-> None]
               edit == [languageEdit[e] EXCEPT !.at = "writing", !.dto = dto]
    <3>1. languageEdit' = [languageEdit EXCEPT ![e] = edit] /\ i \in DOMAIN languages
      BY <2>1 DEF ReadFlag
    <3>2. dto \in LanguageDto /\ dto.default = None
      BY <3>1 DEF LanguageDto, LanguagesIInv, LanguagesTypeOK
    <3>3. languageEdit[e] \in EditType
      BY DEF LanguagesIInv, LanguagesTypeOK
    <3> HIDE DEF dto
    <3>4. edit \in EditType /\ edit.at = "writing" /\ edit.dto = dto
      BY <3>2, <3>3 DEF EditType
    <3> QED
      BY <3>1, <3>2, <3>4
  <2>2. ASSUME NEW i \in DOMAIN languages, StartToggle(e, i)
        PROVE  \E edit \in EditType :
                 languageEdit' = [languageEdit EXCEPT ![e] = edit] /\ edit.at = "toggling"
    <3> DEFINE edit == [NoLanguageEdit EXCEPT !.at = "toggling", !.id = i]
    <3>1. languageEdit' = [languageEdit EXCEPT ![e] = edit]
      BY <2>2 DEF StartToggle, Begins
    <3>4. i \in Nat
      BY DEF LanguagesIInv, LanguagesTypeOK
    <3>2. edit \in EditType /\ edit.at = "toggling"
      BY <3>4 DEF NoLanguageEdit, EditType
    <3> QED
      BY <3>1, <3>2
  <2> QED
    BY <2>1, <2>2
<1>3. \A o \in LanguageEditors : languageEdit'[o] = IF o = e THEN edit ELSE languageEdit[o]
  BY <1>2 DEF LanguagesIInv, LanguagesTypeOK
<1>4. LanguagesTypeOK'
  <2>1. languageEdit' \in [LanguageEditors -> EditType]
    BY <1>2 DEF LanguagesIInv, LanguagesTypeOK
  <2> QED
    BY <1>1, <1>2, <1>3, <2>1 DEF LanguagesIInv, LanguagesTypeOK
<1>5. ASSUME Undisturbed PROVE Undisturbed'
  <2>1. Defaults' = Defaults
    BY <1>1, SameDefaults
  <2>2. \A o \in LanguageEditors : o # e => (AboutDefault(o)' <=> AboutDefault(o)) /\ KnowsDefault(o)'
    BY <1>3, <1>5, <2>1, SameEdit DEF Undisturbed
  <2>3. ~AboutDefault(e) /\ ~AboutDefault(e)' /\ KnowsDefault(e)'
    BY <1>1, <1>2, <1>3, NoneIsNoFlag DEF AboutDefault, KnowsDefault
  <2>4. (\E d : IsTheDefault(d)) => (\E d : IsTheDefault(d))'
    BY <2>1 DEF IsTheDefault
  <2> QED
    BY <1>5, <2>2, <2>3, <2>4 DEF Undisturbed
<1> QED
  BY <1>1, <1>4, <1>5 DEF LanguagesIInv

LEMMA LanguagesKept == LanguagesIInv /\ [LanguagesNext]_languageVars => LanguagesIInv'
<1> SUFFICES ASSUME LanguagesIInv, [LanguagesNext]_languageVars PROVE LanguagesIInv'
  OBVIOUS
<1>1. ASSUME NEW e \in LanguageEditors, LanguageRoutes(e) PROVE LanguagesIInv'
  BY <1>1, StartWritePreserves, FindDefaultPreserves, UnsetDefaultPreserves, WriteNewPreserves,
     WriteLanguagePreserves, BreakOffPreserves, StartRemovePreserves, RemovePreserves, TogglePreserves
     DEF LanguageRoutes
<1>2. CASE UNCHANGED languageVars
  BY <1>2 DEF languageVars, LanguagesIInv, LanguagesTypeOK, Undisturbed, AboutDefault, KnowsDefault,
              IsTheDefault, Defaults
<1> QED
  BY <1>1, <1>2 DEF LanguagesNext

(* There is one default language, but between the commands of the request  *)
(* that changes it, unless two such requests crossed, one broke off, or    *)
(* the default was unset by name (LanguagesService).                       *)
THEOREM LanguagesOneDefault == LanguagesSpec => []OneDefault
<1>1. LanguagesIInv => OneDefault
  <2>1. ASSUME NEW d, Defaults = {d} PROVE Cardinality(Defaults) = 1
    BY <2>1, FS_Singleton
  <2> QED
    BY <2>1 DEF LanguagesIInv, Undisturbed, IsTheDefault, OneDefault
<1> QED
  BY <1>1, LanguagesStart, LanguagesKept, PTL DEF LanguagesSpec

(***************************************************************************)
(* The tree of categories.                                                 *)
(***************************************************************************)
Ids == 1 .. nextCategory - 1

CategoryType == [slug : CategorySlugs, parent : Nat]
AskedType == [slug : CategorySlugs \cup {None}, parent : Nat \cup {None}]
RequestType ==
  [at : {"idle", "walking", "writing"}, id : Nat, here : Nat, dto : AskedType \cup {None},
   crossed : BOOLEAN]

CategoriesTypeOK ==
  /\ nextCategory \in 1 .. MaxCategories + 1
  /\ categories \in [DOMAIN categories -> CategoryType]
  /\ DOMAIN categories \subseteq Ids
  /\ \A c \in DOMAIN categories : categories[c].parent \in DOMAIN categories \cup {0}
  /\ categoryEdit \in [CategoryEditors -> RequestType]

(* What a request asks for: a parent that has been there.                  *)
AsksRight(e) ==
  categoryEdit[e].at # "idle" =>
    /\ categoryEdit[e].id \in Ids
    /\ categoryEdit[e].dto \in AskedType
    /\ categoryEdit[e].dto.parent \in Ids \cup {0, None}
    /\ categoryEdit[e].at = "walking" => categoryEdit[e].dto.parent \notin {0, None}

(* No circle: the categories can be ranked, parents below their children.  *)
RanksCategories(rank) ==
  /\ rank \in [DOMAIN categories -> Nat]
  /\ \A c \in DOMAIN categories :
       categories[c].parent # 0 => rank[categories[c].parent] < rank[c]

NoCircle == \E rank : RanksCategories(rank)

(* What a walk has been through: ids with the new parent among them and    *)
(* the category itself not, which has the parents of its members, but for  *)
(* the one the walk is at.                                                 *)
WalkedOver(e, met) ==
  /\ met \subseteq Ids
  /\ categoryEdit[e].dto.parent \in met
  /\ categoryEdit[e].id \notin met
  /\ \A c \in met \cap DOMAIN categories :
       \/ categories[c].parent \in met \cup {0}
       \/ categoryEdit[e].at = "walking" /\ c = categoryEdit[e].here
  /\ categoryEdit[e].at = "walking" => categoryEdit[e].here \in met

WalkKnows(e) ==
  /\ categoryEdit[e].at # "idle" /\ categoryEdit[e].dto.parent \notin {0, None}
  /\ ~categoryEdit[e].crossed
  => \E met : WalkedOver(e, met)

CategoriesIInv ==
  /\ CategoriesTypeOK
  /\ \A e \in CategoryEditors : AsksRight(e) /\ WalkKnows(e)
  /\ undermined \/ NoCircle

LEMMA CategoriesStart == CategoriesInit => CategoriesIInv
<1> SUFFICES ASSUME CategoriesInit PROVE CategoriesIInv
  OBVIOUS
<1>1. CategoriesTypeOK
  BY CategoryBounds DEF CategoriesInit, NoCategoryEdit, CategoriesTypeOK, RequestType
<1>2. RanksCategories(<< >>)
  BY DEF CategoriesInit, RanksCategories
<1> QED
  BY <1>1, <1>2 DEF CategoriesInit, NoCategoryEdit, CategoriesIInv, AsksRight, WalkKnows, NoCircle

(* A walk is not disturbed by new categories, nor by categories that are   *)
(* deleted or become roots.                                                *)
LEMMA WalkUndisturbed ==
  ASSUME CategoriesTypeOK, NEW e \in CategoryEditors, AsksRight(e), WalkKnows(e),
         categoryEdit'[e].at = categoryEdit[e].at, categoryEdit'[e].id = categoryEdit[e].id,
         categoryEdit'[e].here = categoryEdit[e].here, categoryEdit'[e].dto = categoryEdit[e].dto,
         categoryEdit'[e].crossed = categoryEdit[e].crossed,
         nextCategory' \in Nat, nextCategory <= nextCategory',
         \A c \in DOMAIN categories' \cap Ids :
           /\ c \in DOMAIN categories
           /\ categories'[c].parent \in {categories[c].parent, 0}
  PROVE  AsksRight(e)' /\ WalkKnows(e)'
<1>1. Ids \subseteq Ids'
  BY CategoryBounds DEF CategoriesTypeOK, Ids
<1>2. AsksRight(e)'
  BY <1>1 DEF AsksRight
<1>3. ASSUME NEW met, WalkedOver(e, met) PROVE WalkedOver(e, met)'
  BY <1>1, <1>3 DEF WalkedOver
<1> QED
  BY <1>2, <1>3 DEF WalkKnows

LEMMA CreateCategoryPreserves ==
  ASSUME CategoriesIInv, NEW dto \in CreatePostCategoryAggregateDto, CreateCategory(dto)
  PROVE  CategoriesIInv'
<1> DEFINE n == nextCategory
<1>1. /\ n \in Nat \ {0} /\ n <= MaxCategories /\ nextCategory' = n + 1
      /\ categories' = Put(categories, n, dto)
      /\ dto.slug \in CategorySlugs /\ dto.parent \in DOMAIN categories \cup {0}
      /\ dto = [slug |-> dto.slug, parent |-> dto.parent]
      /\ UNCHANGED <<categoryEdit, undermined>>
  BY CategoryBounds DEF CreateCategory, CreatePostCategoryAggregateDto, CategoriesIInv, CategoriesTypeOK
<1>2. /\ DOMAIN categories \subseteq 1 .. n - 1
      /\ \A c \in DOMAIN categories : categories[c] \in CategoryType
      /\ \A c \in DOMAIN categories : categories[c].parent \in DOMAIN categories \cup {0}
  BY DEF CategoriesIInv, CategoriesTypeOK, Ids
<1>3. dto \in CategoryType
  BY <1>1, <1>2 DEF CategoryType
<1>4. /\ DOMAIN categories' = DOMAIN categories \cup {n} /\ n \notin DOMAIN categories
      /\ categories'[n] = dto /\ \A c \in DOMAIN categories : categories'[c] = categories[c]
      /\ categories' \in [DOMAIN categories' -> CategoryType]
  <2>1. n \notin DOMAIN categories
    BY <1>1, <1>2
  <2> QED
    BY <1>1, <1>2, <1>3, <2>1 DEF Put
<1>5. CategoriesTypeOK'
  BY <1>1, <1>2, <1>4, CategoryBounds DEF CategoriesIInv, CategoriesTypeOK, Ids
<1>6. \A e \in CategoryEditors : AsksRight(e)' /\ WalkKnows(e)'
  <2>1. \A c \in DOMAIN categories' \cap Ids : c \in DOMAIN categories /\ categories'[c] = categories[c]
    BY <1>1, <1>4 DEF Ids
  <2>2. n <= nextCategory' /\ nextCategory' \in Nat
    BY <1>1
  <2> QED
    BY <1>1, <2>1, <2>2, WalkUndisturbed DEF CategoriesIInv
<1>7. ASSUME NoCircle PROVE NoCircle'
  <2>1. PICK rank : RanksCategories(rank)
    BY <1>7 DEF NoCircle
  <2> DEFINE under == IF dto.parent = 0 THEN 0 ELSE rank[dto.parent] + 1
  <2>2. under \in Nat /\ (dto.parent # 0 => rank[dto.parent] < under)
    BY <1>1, <2>1 DEF RanksCategories
  <2> HIDE DEF under
  <2>3. PICK wider : wider = [c \in DOMAIN categories' |-> IF c = n THEN under ELSE rank[c]]
    OBVIOUS
  <2>4. /\ wider \in [DOMAIN categories' -> Nat] /\ wider[n] = under
        /\ \A c \in DOMAIN categories : wider[c] = rank[c]
    BY <1>4, <2>1, <2>2, <2>3 DEF RanksCategories
  <2>5. ASSUME NEW c \in DOMAIN categories', categories'[c].parent # 0
        PROVE  wider[categories'[c].parent] < wider[c]
    <3>1. CASE c = n
      BY <1>1, <1>4, <2>2, <2>4, <2>5, <3>1
    <3>2. CASE c # n
      BY <1>2, <1>4, <2>1, <2>4, <2>5, <3>2 DEF RanksCategories
    <3> QED
      BY <3>1, <3>2
  <2>6. RanksCategories(wider)'
    BY <2>4, <2>5 DEF RanksCategories
  <2> QED
    BY <2>6 DEF NoCircle
<1> QED
  BY <1>1, <1>5, <1>6, <1>7 DEF CategoriesIInv

LEMMA StartUpdateCategoryPreserves ==
  ASSUME CategoriesIInv, NEW e \in CategoryEditors, NEW c \in DOMAIN categories,
         NEW dto \in UpdatePostCategoryAggregateDto, StartUpdateCategory(e, c, dto)
  PROVE  CategoriesIInv'
<1>1. /\ UNCHANGED <<categories, nextCategory, undermined>>
      /\ dto \in AskedType /\ dto.parent \in Ids \cup {0, None} /\ dto.parent # c
      /\ c \in Ids /\ c \in Nat /\ Ids \subseteq Nat
      /\ categoryEdit' \in [CategoryEditors -> RequestType]
      /\ categoryEdit'[e].at = IF dto.parent \in {0, None} THEN "writing" ELSE "walking"
      /\ categoryEdit'[e].id = c /\ categoryEdit'[e].dto = dto
      /\ dto.parent # None => categoryEdit'[e].here = dto.parent
      /\ \A o \in CategoryEditors : o # e => categoryEdit'[o] = categoryEdit[o]
  <2> DEFINE here == IF dto.parent = None THEN 0 ELSE dto.parent
             asked == [NoCategoryEdit EXCEPT
                         !.at = IF dto.parent \in {0, None} THEN "writing" ELSE "walking",
                         !.id = c, !.here = here, !.dto = dto]
  <2>1. DOMAIN categories \subseteq Ids /\ Ids \subseteq Nat
    BY DEF CategoriesIInv, CategoriesTypeOK, Ids
  <2>2. /\ dto.slug \in CategorySlugs \cup {None} /\ dto.parent \in DOMAIN categories \cup {0, None}
        /\ dto = [slug |-> dto.slug, parent |-> dto.parent]
    BY DEF UpdatePostCategoryAggregateDto
  <2>3. dto \in AskedType /\ here \in Nat
    BY <2>1, <2>2 DEF AskedType
  <2> HIDE DEF here
  <2>4. /\ asked \in RequestType /\ asked.id = c /\ asked.dto = dto /\ asked.here = here
        /\ asked.at = IF dto.parent \in {0, None} THEN "writing" ELSE "walking"
    BY <2>1, <2>3 DEF NoCategoryEdit, RequestType
  <2>5. categoryEdit' = [categoryEdit EXCEPT ![e] = asked]
    BY DEF StartUpdateCategory, here
  <2> HIDE DEF asked
  <2>6. categoryEdit \in [CategoryEditors -> RequestType]
    BY DEF CategoriesIInv, CategoriesTypeOK
  <2>7. dto.parent # c /\ UNCHANGED <<categories, nextCategory, undermined>>
    BY DEF StartUpdateCategory
  <2> QED
    BY <2>1, <2>2, <2>3, <2>4, <2>5, <2>6, <2>7 DEF here
<1>2. CategoriesTypeOK'
  BY <1>1 DEF CategoriesIInv, CategoriesTypeOK, Ids
<1>3. ASSUME NEW o \in CategoryEditors PROVE AsksRight(o)' /\ WalkKnows(o)'
  <2>1. CASE o # e
    BY <1>1, <2>1 DEF CategoriesIInv, AsksRight, WalkKnows, WalkedOver, Ids
  <2>2. CASE o = e
    <3>1. AsksRight(e)'
      BY <1>1 DEF AsksRight, Ids
    <3>2. dto.parent \notin {0, None} => WalkedOver(e, {dto.parent})'
      BY <1>1 DEF WalkedOver, Ids
    <3> QED
      BY <1>1, <2>2, <3>1, <3>2 DEF WalkKnows
  <2> QED
    BY <2>1, <2>2
<1>4. NoCircle => NoCircle'
  BY <1>1 DEF NoCircle, RanksCategories
<1> QED
  BY <1>1, <1>2, <1>3, <1>4 DEF CategoriesIInv

(* A request that ends without a write. *)
LEMMA EndsCategoryEdit ==
  ASSUME CategoriesIInv, NEW e \in CategoryEditors,
         categoryEdit' = [categoryEdit EXCEPT ![e] = NoCategoryEdit],
         UNCHANGED <<categories, nextCategory, undermined>>
  PROVE  CategoriesIInv'
<1>1. NoCategoryEdit \in RequestType /\ NoCategoryEdit.at = "idle"
  BY DEF NoCategoryEdit, RequestType
<1>2. /\ categoryEdit' \in [CategoryEditors -> RequestType]
      /\ \A o \in CategoryEditors : categoryEdit'[o] = IF o = e THEN NoCategoryEdit ELSE categoryEdit[o]
  BY <1>1 DEF CategoriesIInv, CategoriesTypeOK
<1>3. CategoriesTypeOK'
  BY <1>2 DEF CategoriesIInv, CategoriesTypeOK, Ids
<1>4. \A o \in CategoryEditors : AsksRight(o)' /\ WalkKnows(o)'
  BY <1>1, <1>2 DEF CategoriesIInv, AsksRight, WalkKnows, WalkedOver, Ids
<1>5. NoCircle => NoCircle'
  BY DEF NoCircle, RanksCategories
<1> QED
  BY <1>3, <1>4, <1>5 DEF CategoriesIInv

LEMMA WalkUpPreserves ==
  ASSUME CategoriesIInv, NEW e \in CategoryEditors, WalkUp(e)
  PROVE  CategoriesIInv'
<1> DEFINE here == categoryEdit[e].here  id == categoryEdit[e].id  p == categoryEdit[e].dto.parent
           above == IF here \in DOMAIN categories THEN categories[here].parent ELSE 0
<1>1. /\ categoryEdit[e].at = "walking" /\ UNCHANGED <<categories, nextCategory, undermined>>
      /\ categoryEdit' = [categoryEdit EXCEPT ![e] =
           IF above = 0 THEN [categoryEdit[e] EXCEPT !.at = "writing"]
           ELSE IF above = id THEN NoCategoryEdit
           ELSE [categoryEdit[e] EXCEPT !.here = above]]
  BY DEF WalkUp, Below
<1>2. /\ categoryEdit \in [CategoryEditors -> RequestType] /\ categoryEdit[e] \in RequestType
      /\ DOMAIN categories \subseteq Ids /\ Ids \subseteq Nat
      /\ \A c \in DOMAIN categories : categories[c].parent \in DOMAIN categories \cup {0}
      /\ AsksRight(e) /\ WalkKnows(e)
  BY DEF CategoriesIInv, CategoriesTypeOK, Ids
<1>3. /\ above \in DOMAIN categories \cup {0} /\ above \in Nat
      /\ above # 0 => above \in Ids
  <2>1. above \in DOMAIN categories \cup {0}
    BY <1>2
  <2>2. \A c \in DOMAIN categories : c \in Ids /\ c \in Nat
    BY <1>2
  <2> HIDE DEF above
  <2> QED
    BY <2>1, <2>2
<1>4. p \notin {0, None} /\ (categoryEdit[e].crossed \/ \E met : WalkedOver(e, met))
  BY <1>1, <1>2 DEF AsksRight, WalkKnows
<1> HIDE DEF above, here, id, p
<1>5. CASE above # 0 /\ above = id
  BY <1>1, <1>5, EndsCategoryEdit
<1>6. CASE above = 0
  <2>1. /\ categoryEdit' \in [CategoryEditors -> RequestType]
        /\ \A o \in CategoryEditors : o # e => categoryEdit'[o] = categoryEdit[o]
        /\ categoryEdit'[e].at = "writing" /\ categoryEdit'[e].id = categoryEdit[e].id
        /\ categoryEdit'[e].dto = categoryEdit[e].dto
        /\ categoryEdit'[e].crossed = categoryEdit[e].crossed
    <3>1. [categoryEdit[e] EXCEPT !.at = "writing"] \in RequestType
      BY <1>2 DEF RequestType
    <3>2. categoryEdit' = [categoryEdit EXCEPT ![e] = [categoryEdit[e] EXCEPT !.at = "writing"]]
      BY <1>1, <1>6
    <3> QED
      BY <1>2, <3>1, <3>2 DEF RequestType
  <2>2. ASSUME NEW met, WalkedOver(e, met) PROVE WalkedOver(e, met)'
    <3>1. \A c \in met \cap DOMAIN categories : categories[c].parent \in met \cup {0}
      BY <1>6, <2>2 DEF WalkedOver, above, here
    <3> QED
      BY <1>1, <2>1, <2>2, <3>1 DEF WalkedOver, Ids
  <2>3. AsksRight(e)' /\ WalkKnows(e)'
    BY <1>1, <1>2, <1>4, <2>1, <2>2 DEF AsksRight, WalkKnows, Ids, p
  <2>4. \A o \in CategoryEditors : o # e => AsksRight(o)' /\ WalkKnows(o)'
    BY <1>1, <2>1 DEF CategoriesIInv, AsksRight, WalkKnows, WalkedOver, Ids
  <2>5. CategoriesTypeOK' /\ (NoCircle => NoCircle')
    BY <1>1, <2>1 DEF CategoriesIInv, CategoriesTypeOK, Ids, NoCircle, RanksCategories
  <2> QED
    BY <1>1, <2>3, <2>4, <2>5 DEF CategoriesIInv
<1>7. CASE above # 0 /\ above # id
  <2>1. /\ categoryEdit' \in [CategoryEditors -> RequestType]
        /\ \A o \in CategoryEditors : o # e => categoryEdit'[o] = categoryEdit[o]
        /\ categoryEdit'[e].at = "walking" /\ categoryEdit'[e].id = categoryEdit[e].id
        /\ categoryEdit'[e].here = above
        /\ categoryEdit'[e].dto = categoryEdit[e].dto
        /\ categoryEdit'[e].crossed = categoryEdit[e].crossed
    <3>1. above \in Nat
      BY <1>3
    <3>2. [categoryEdit[e] EXCEPT !.here = above] \in RequestType
      BY <1>2, <3>1 DEF RequestType
    <3>3. categoryEdit' = [categoryEdit EXCEPT ![e] = [categoryEdit[e] EXCEPT !.here = above]]
      BY <1>1, <1>7
    <3> QED
      BY <1>1, <1>2, <3>2, <3>3 DEF RequestType
  <2>2. ASSUME NEW met, WalkedOver(e, met) PROVE \E more : WalkedOver(e, more)'
    <3>1. above \in Ids /\ above # categoryEdit[e].id
      BY <1>3, <1>7 DEF id
    <3>2. \A c \in met \cap DOMAIN categories : categories[c].parent \in met \cup {above, 0}
      BY <2>2 DEF WalkedOver, above, here
    <3> PICK more : more = met \cup {above}
      OBVIOUS
    <3>3. \A c \in more \cap DOMAIN categories :
            categories[c].parent \in more \cup {0} \/ c = above
      BY <3>2
    <3>4. more \subseteq Ids /\ categoryEdit[e].dto.parent \in more
          /\ categoryEdit[e].id \notin more /\ above \in more
      BY <2>2, <3>1 DEF WalkedOver
    <3>5. Ids' = Ids
      BY <1>1 DEF Ids
    <3>6. WalkedOver(e, more)'
      BY <1>1, <2>1, <3>3, <3>4, <3>5 DEF WalkedOver
    <3> QED
      BY <3>6
  <2>3. AsksRight(e)' /\ WalkKnows(e)'
    BY <1>1, <1>2, <1>4, <2>1, <2>2 DEF AsksRight, WalkKnows, Ids, p
  <2>4. \A o \in CategoryEditors : o # e => AsksRight(o)' /\ WalkKnows(o)'
    BY <1>1, <2>1 DEF CategoriesIInv, AsksRight, WalkKnows, WalkedOver, Ids
  <2>5. CategoriesTypeOK' /\ (NoCircle => NoCircle')
    BY <1>1, <2>1 DEF CategoriesIInv, CategoriesTypeOK, Ids, NoCircle, RanksCategories
  <2> QED
    BY <1>1, <2>3, <2>4, <2>5 DEF CategoriesIInv
<1> QED
  BY <1>5, <1>6, <1>7

(* A move that nobody has crossed makes no circle: what its walk has met   *)
(* keeps its ranks, and everything else goes below it.                     *)
LEMMA MoveMakesNoCircle ==
  ASSUME CategoriesIInv, NEW e \in CategoryEditors, categoryEdit[e].at = "writing",
         NEW c \in DOMAIN categories, c = categoryEdit[e].id,
         NEW p \in DOMAIN categories, p = categoryEdit[e].dto.parent, p # None,
         ~categoryEdit[e].crossed, NoCircle,
         DOMAIN categories' = DOMAIN categories, categories'[c].parent = p,
         \A d \in DOMAIN categories : d # c => categories'[d].parent = categories[d].parent
  PROVE  NoCircle'
<1>1. PICK rank : RanksCategories(rank)
  BY DEF NoCircle
<1>2. /\ p \in Nat \ {0} /\ WalkKnows(e)
      /\ \A d \in DOMAIN categories : categories[d].parent \in DOMAIN categories \cup {0}
      /\ \A d \in DOMAIN categories : d # 0
  BY DEF CategoriesIInv, CategoriesTypeOK, Ids
<1>3. PICK met : WalkedOver(e, met)
  BY <1>2 DEF WalkKnows
<1>4. /\ p \in met /\ c \notin met
      /\ \A d \in met \cap DOMAIN categories : categories[d].parent \in met \cup {0}
  BY <1>3 DEF WalkedOver
<1>5. \A d \in DOMAIN categories : rank[d] \in Nat
  BY <1>1 DEF RanksCategories
<1> DEFINE lower(d) == IF d \in met THEN rank[d] ELSE rank[d] + rank[p] + 1
           ranks == [d \in DOMAIN categories |-> lower(d)]
<1>6. \A d \in DOMAIN categories : lower(d) \in Nat
  BY <1>5
<1>7. ASSUME NEW d \in DOMAIN categories, categories'[d].parent # 0
      PROVE  /\ categories'[d].parent \in DOMAIN categories
             /\ lower(categories'[d].parent) < lower(d)
  <2>1. CASE d = c
    BY <1>4, <1>5, <2>1
  <2>2. CASE d # c
    <3> DEFINE q == categories[d].parent
    <3>1. q \in DOMAIN categories /\ categories'[d].parent = q /\ rank[q] < rank[d]
      BY <1>1, <1>2, <1>7, <2>2 DEF RanksCategories
    <3>2. d \in met => q \in met
      BY <1>2, <1>4, <3>1
    <3> HIDE DEF q
    <3> QED
      BY <1>5, <3>1, <3>2
  <2> QED
    BY <2>1, <2>2
<1>8. PICK table : table = ranks
  OBVIOUS
<1> HIDE DEF lower
<1>9. RanksCategories(table)'
  BY <1>6, <1>7, <1>8 DEF RanksCategories
<1> QED
  BY <1>9 DEF NoCircle

LEMMA WriteCategoryPreserves ==
  ASSUME CategoriesIInv, NEW e \in CategoryEditors, WriteCategory(e)
  PROVE  CategoriesIInv'
<1> DEFINE c == categoryEdit[e].id  dto == categoryEdit[e].dto  moves == dto.parent # None
           slug == Given(dto.slug, categories[c].slug)
           parent == Given(dto.parent, categories[c].parent)
           row == [slug |-> slug, parent |-> parent]
<1>1. /\ categoryEdit[e].at = "writing" /\ c \in DOMAIN categories
      /\ moves => dto.parent \in DOMAIN categories \cup {0}
      /\ undermined' = (undermined \/ (moves /\ categoryEdit[e].crossed))
      /\ UNCHANGED nextCategory
      /\ categories' = [categories EXCEPT ![c].slug = slug, ![c].parent = parent]
      /\ categoryEdit' = [o \in CategoryEditors |->
           IF o = e THEN NoCategoryEdit
           ELSE [categoryEdit[o] EXCEPT !.crossed = categoryEdit[o].crossed \/ (moves /\ categoryEdit[o].at # "idle")]]
  BY DEF WriteCategory, Given
<1>2. /\ categories \in [DOMAIN categories -> CategoryType]
      /\ DOMAIN categories \subseteq Ids /\ Ids \subseteq Nat
      /\ \A d \in DOMAIN categories : categories[d].parent \in DOMAIN categories \cup {0}
      /\ categoryEdit \in [CategoryEditors -> RequestType]
      /\ dto \in AskedType
  BY <1>1 DEF CategoriesIInv, CategoriesTypeOK, AsksRight, Ids
<1>3. /\ parent \in DOMAIN categories \cup {0} /\ parent \in Nat /\ slug \in CategorySlugs
      /\ moves => parent = dto.parent
      /\ ~moves => parent = categories[c].parent
  <2>1. slug \in CategorySlugs
    BY <1>1, <1>2 DEF Given, AskedType, CategoryType
  <2> QED
    BY <1>1, <1>2, <2>1 DEF Given
<1>4. /\ DOMAIN categories' = DOMAIN categories
      /\ categories'[c].parent = parent /\ categories'[c] \in CategoryType
      /\ \A d \in DOMAIN categories : d # c => categories'[d] = categories[d]
  <2>1. categories' = [categories EXCEPT ![c] = [categories[c] EXCEPT !.slug = slug, !.parent = parent]]
    BY <1>1
  <2>2. categories[c] \in CategoryType
    BY <1>1, <1>2
  <2> HIDE DEF c, slug, parent
  <2>3. /\ [categories[c] EXCEPT !.slug = slug, !.parent = parent] \in CategoryType
        /\ [categories[c] EXCEPT !.slug = slug, !.parent = parent].parent = parent
    BY <1>3, <2>2 DEF CategoryType
  <2> QED
    BY <1>1, <1>2, <2>1, <2>3
<1>5. /\ categoryEdit' \in [CategoryEditors -> RequestType] /\ categoryEdit'[e].at = "idle"
      /\ \A o \in CategoryEditors : o # e =>
           /\ categoryEdit'[o].at = categoryEdit[o].at /\ categoryEdit'[o].id = categoryEdit[o].id
           /\ categoryEdit'[o].here = categoryEdit[o].here /\ categoryEdit'[o].dto = categoryEdit[o].dto
           /\ categoryEdit'[o].crossed =
                (categoryEdit[o].crossed \/ (moves /\ categoryEdit[o].at # "idle"))
  <2> HIDE DEF moves
  <2>1. NoCategoryEdit \in RequestType /\ NoCategoryEdit.at = "idle"
    BY DEF NoCategoryEdit, RequestType
  <2> QED
    BY <1>1, <1>2, <2>1 DEF RequestType
<1> HIDE DEF c, dto, slug, parent, moves
<1>6. CategoriesTypeOK'
  <2>1. categories' \in [DOMAIN categories' -> CategoryType]
    <3>1. \A d \in DOMAIN categories : categories'[d] \in CategoryType
      BY <1>2, <1>4
    <3>2. categories' = [d \in DOMAIN categories' |-> categories'[d]]
      BY <1>1
    <3> QED
      BY <1>4, <3>1, <3>2
  <2>2. \A d \in DOMAIN categories' : categories'[d].parent \in DOMAIN categories' \cup {0}
    BY <1>2, <1>3, <1>4
  <2> QED
    BY <1>1, <1>2, <1>4, <1>5, <2>1, <2>2 DEF CategoriesIInv, CategoriesTypeOK, Ids
<1>7. ASSUME NEW o \in CategoryEditors PROVE AsksRight(o)' /\ WalkKnows(o)'
  <2>1. CASE o = e
    BY <1>5, <2>1 DEF AsksRight, WalkKnows
  <2>2. CASE o # e /\ moves
    <3>1. AsksRight(o)
      BY <1>1 DEF CategoriesIInv
    <3>2. /\ categoryEdit'[o].at = categoryEdit[o].at /\ categoryEdit'[o].id = categoryEdit[o].id
          /\ categoryEdit'[o].dto = categoryEdit[o].dto
          /\ categoryEdit'[o].at # "idle" => categoryEdit'[o].crossed
      BY <1>5, <2>2
    <3>3. AsksRight(o)'
      <4>1. SUFFICES ASSUME categoryEdit'[o].at # "idle" PROVE AsksRight(o)'
        BY DEF AsksRight
      <4>2. /\ categoryEdit[o].id \in Ids /\ categoryEdit[o].dto \in AskedType
            /\ categoryEdit[o].dto.parent \in Ids \cup {0, None}
            /\ categoryEdit[o].at = "walking" => categoryEdit[o].dto.parent \notin {0, None}
        BY <3>1, <3>2, <4>1 DEF AsksRight
      <4>3. Ids' = Ids
        BY <1>1 DEF Ids
      <4> QED
        BY <3>2, <4>2, <4>3 DEF AsksRight
    <3>4. WalkKnows(o)'
      BY <3>2 DEF WalkKnows
    <3> QED
      BY <3>3, <3>4
  <2>3. CASE o # e /\ ~moves
    <3>1. /\ categoryEdit'[o].crossed = categoryEdit[o].crossed
          /\ CategoriesTypeOK /\ AsksRight(o) /\ WalkKnows(o)
      <4>1. categoryEdit[o].crossed \in BOOLEAN
        BY <1>2 DEF RequestType
      <4> QED
        BY <1>5, <2>3, <4>1 DEF CategoriesIInv
    <3>2. \A d \in DOMAIN categories' \cap Ids :
            d \in DOMAIN categories /\ categories'[d].parent \in {categories[d].parent, 0}
      BY <1>3, <1>4, <2>3
    <3>3. nextCategory' \in Nat /\ nextCategory <= nextCategory'
      BY <1>1, CategoryBounds DEF CategoriesIInv, CategoriesTypeOK
    <3> QED
      BY <1>5, <2>3, <3>1, <3>2, <3>3, WalkUndisturbed
  <2> QED
    BY <2>1, <2>2, <2>3
<1>8. ASSUME ~undermined', NoCircle PROVE NoCircle'
  <2>1. CASE parent = 0 \/ ~moves
    <3>1. PICK rank : RanksCategories(rank)
      BY <1>8 DEF NoCircle
    <3>2. RanksCategories(rank)'
      BY <1>1, <1>3, <1>4, <2>1, <3>1 DEF RanksCategories
    <3> QED
      BY <3>2 DEF NoCircle
  <2>2. CASE parent # 0 /\ moves
    <3>1. /\ ~categoryEdit[e].crossed /\ parent \in DOMAIN categories
          /\ parent = categoryEdit[e].dto.parent /\ parent # None /\ c = categoryEdit[e].id
      BY <1>1, <1>3, <1>8, <2>2 DEF c, dto, moves
    <3>2. \A d \in DOMAIN categories : d # c => categories'[d].parent = categories[d].parent
      BY <1>4
    <3> QED
      BY <1>1, <1>4, <1>8, <3>1, <3>2, MoveMakesNoCircle
  <2> QED
    BY <2>1, <2>2
<1> QED
  BY <1>1, <1>6, <1>7, <1>8 DEF CategoriesIInv

LEMMA DeleteCategoryPreserves ==
  ASSUME CategoriesIInv, NEW c \in DOMAIN categories, DeleteCategory(c)
  PROVE  CategoriesIInv'
<1>1. /\ UNCHANGED <<nextCategory, categoryEdit, undermined>>
      /\ DOMAIN categories' = DOMAIN categories \ {c}
      /\ \A d \in DOMAIN categories \ {c} : categories'[d] = Freed(c, categories[d])
      /\ categories' = [d \in DOMAIN categories' |-> categories'[d]]
  BY DEF DeleteCategory
<1>2. /\ DOMAIN categories \subseteq Ids
      /\ \A d \in DOMAIN categories : categories[d] \in CategoryType
      /\ \A d \in DOMAIN categories : categories[d].parent \in DOMAIN categories \cup {0}
  BY DEF CategoriesIInv, CategoriesTypeOK
<1>3. ASSUME NEW d \in DOMAIN categories'
      PROVE  /\ categories'[d] \in CategoryType
             /\ categories'[d].parent = IF categories[d].parent = c THEN 0 ELSE categories[d].parent
             /\ categories'[d].parent \in DOMAIN categories' \cup {0}
  <2>1. categories'[d] = Freed(c, categories[d]) /\ d \in DOMAIN categories
    BY <1>1
  <2>2. categories[d] \in CategoryType
    BY <1>2, <2>1
  <2>3. /\ Freed(c, categories[d]) \in CategoryType
        /\ Freed(c, categories[d]).parent = IF categories[d].parent = c THEN 0 ELSE categories[d].parent
    BY <2>2 DEF Freed, CategoryType
  <2> QED
    BY <1>1, <1>2, <2>1, <2>3
<1>4. CategoriesTypeOK'
  <2>1. categories' \in [DOMAIN categories' -> CategoryType]
    BY <1>1, <1>3
  <2> QED
    BY <1>1, <1>2, <1>3, <2>1 DEF CategoriesIInv, CategoriesTypeOK, Ids
<1>5. \A e \in CategoryEditors : AsksRight(e)' /\ WalkKnows(e)'
  <2>1. nextCategory' \in Nat /\ nextCategory <= nextCategory'
    BY <1>1, CategoryBounds DEF CategoriesIInv, CategoriesTypeOK
  <2>2. \A d \in DOMAIN categories' \cap Ids :
          d \in DOMAIN categories /\ categories'[d].parent \in {categories[d].parent, 0}
    BY <1>1, <1>3
  <2> QED
    BY <1>1, <2>1, <2>2, WalkUndisturbed DEF CategoriesIInv
<1>6. ASSUME NoCircle PROVE NoCircle'
  <2>1. PICK rank : RanksCategories(rank)
    BY <1>6 DEF NoCircle
  <2>2. PICK fewer : fewer = [d \in DOMAIN categories' |-> rank[d]]
    OBVIOUS
  <2>3. RanksCategories(fewer)'
    BY <1>1, <1>3, <2>1, <2>2 DEF RanksCategories
  <2> QED
    BY <2>3 DEF NoCircle
<1> QED
  BY <1>1, <1>4, <1>5, <1>6 DEF CategoriesIInv

LEMMA CategoriesKept == CategoriesIInv /\ [CategoriesNext]_categoryVars => CategoriesIInv'
<1> SUFFICES ASSUME CategoriesIInv, [CategoriesNext]_categoryVars PROVE CategoriesIInv'
  OBVIOUS
<1>1. CASE UNCHANGED categoryVars
  BY <1>1 DEF categoryVars, CategoriesIInv, CategoriesTypeOK, Ids, AsksRight, WalkKnows, WalkedOver,
              NoCircle, RanksCategories
<1>2. ASSUME NEW e \in CategoryEditors, UpdateCategoryFails(e) PROVE CategoriesIInv'
  BY <1>2, EndsCategoryEdit DEF UpdateCategoryFails
<1>3. ASSUME NEW e \in CategoryEditors, CategoryRoutes(e) PROVE CategoriesIInv'
  BY <1>2, <1>3, StartUpdateCategoryPreserves, WalkUpPreserves, WriteCategoryPreserves DEF CategoryRoutes
<1> QED
  BY <1>1, <1>3, CreateCategoryPreserves, DeleteCategoryPreserves DEF CategoriesNext

(* What holds of 0 and goes from each number to the next holds of all up   *)
(* to the last: P is the set of the numbers that have it.                  *)
LEMMA LeastNumber ==
  ASSUME NEW S \in SUBSET Nat, S # {}
  PROVE  \E m \in S : \A n \in S : m <= n
<1> DEFINE R == OpToRel(<, Nat)
<1>1. IsWellFoundedOn(R, Nat) /\ \A x, y \in Nat : y < x => <<y, x>> \in R
  BY NatLessThanWellFounded DEF OpToRel
<1> HIDE DEF R
<1>2. PICK m \in S : \A n \in S : ~ (<<n, m>> \in R)
  BY <1>1, WFMin
<1>3. \A n \in S : m <= n
  <2> TAKE n \in S
  <2>1. m \in Nat /\ n \in Nat /\ ~ (<<n, m>> \in R)
    BY <1>2
  <2>2. ~ (n < m)
    BY <1>1, <2>1
  <2> QED
    BY <2>1, <2>2
<1> QED
  BY <1>3

LEMMA UpTo ==
  ASSUME NEW P, NEW last \in Nat, 0 \in P, \A n \in 1 .. last : n - 1 \in P => n \in P
  PROVE  \A n \in 0 .. last : n \in P
<1> DEFINE out == {n \in 0 .. last : n \notin P}
<1>1. ASSUME out # {} PROVE FALSE
  <2>1. out \in SUBSET Nat
    OBVIOUS
  <2>2. PICK m \in out : \A n \in out : m <= n
    BY <1>1, <2>1, LeastNumber
  <2>3. m \in 1 .. last /\ m \notin P /\ m - 1 \in 0 .. last /\ ~(m <= m - 1)
    BY <2>2
  <2> QED
    BY <2>2, <2>3
<1> QED
  BY <1>1

(* The levels of the tree, as BuildTree fills them.                        *)
NextLevel(found) ==
  {c \in DOMAIN categories : categories[c].parent = 0 \/ categories[c].parent \in found}

Levels(last, level) ==
  level = [n \in 0 .. last |-> IF n = 0 THEN {} ELSE NextLevel(level[n - 1])]

LEMMA LevelsExist == \E level : Levels(MaxCategories, level)
<1> DEFINE P == {k \in Nat : \E level : Levels(k, level)}
<1>1. 0 \in P
  <2>1. Levels(0, [n \in 0 .. 0 |-> {}])
    BY DEF Levels
  <2> QED
    BY <2>1
<1>2. ASSUME NEW k \in 1 .. MaxCategories, k - 1 \in P PROVE k \in P
  <2>1. PICK level : Levels(k - 1, level)
    BY <1>2
  <2>2. k \in Nat /\ k - 1 \in Nat /\ k # 0
    BY CategoryBounds
  <2> DEFINE more == [n \in 0 .. k |-> IF n = k THEN NextLevel(level[k - 1]) ELSE level[n]]
  <2>3. \A n \in 0 .. k : more[n] = IF n = 0 THEN {} ELSE NextLevel(more[n - 1])
    <3> TAKE n \in 0 .. k
    <3>1. CASE n = k
      BY <2>2, <3>1
    <3>2. CASE n # k
      <4>1. n \in 0 .. k - 1 /\ n - 1 # k
        BY <2>2, <3>2
      <4>2. more[n] = level[n] /\ (n # 0 => more[n - 1] = level[n - 1])
        BY <2>2, <4>1
      <4>3. level[n] = IF n = 0 THEN {} ELSE NextLevel(level[n - 1])
        BY <2>1, <4>1 DEF Levels
      <4> QED
        BY <4>2, <4>3
    <3> QED
      BY <3>1, <3>2
  <2>4. Levels(k, more)
    BY <2>3 DEF Levels
  <2> QED
    BY <2>2, <2>4
<1> HIDE DEF P
<1>3. MaxCategories \in P
  BY <1>1, <1>2, CategoryBounds, UpTo
<1> QED
  BY <1>3 DEF P

(* Without a circle every level reaches one category more, until all are   *)
(* reached: the first of those that are not has its parent among them.     *)
LEMMA TreeIsWhole ==
  ASSUME CategoriesTypeOK, NoCircle
  PROVE  BuildTree(DOMAIN categories) = DOMAIN categories
<1> DEFINE all == DOMAIN categories
<1>1. PICK rank : RanksCategories(rank)
  BY DEF NoCircle
<1> DEFINE level == CHOOSE l : Levels(MaxCategories, l)
<1>2. Levels(MaxCategories, level)
  BY LevelsExist
<1>3. BuildTree(all) = level[MaxCategories]
  BY DEF BuildTree, Levels, NextLevel
<1>4. MaxCategories \in Nat
  BY CategoryBounds
<1> HIDE DEF level
<1>5. /\ level[0] = {}
      /\ \A n \in 1 .. MaxCategories : level[n] = NextLevel(level[n - 1])
  <2>1. \A n \in 0 .. MaxCategories : level[n] = IF n = 0 THEN {} ELSE NextLevel(level[n - 1])
    BY <1>2 DEF Levels
  <2> QED
    BY <1>4, <2>1
<1>6. \A n \in 0 .. MaxCategories : level[n] \subseteq all
  BY <1>4, <1>5 DEF NextLevel
<1>7. IsFiniteSet(all) /\ Cardinality(all) \in Nat /\ Cardinality(all) <= MaxCategories
  <2>1. all \subseteq 1 .. MaxCategories
    BY <1>4 DEF CategoriesTypeOK, Ids
  <2>2. IsFiniteSet(1 .. MaxCategories) /\ Cardinality(1 .. MaxCategories) = MaxCategories
    BY <1>4, FS_Interval
  <2> QED
    BY <2>1, <2>2, FS_Subset, FS_CardinalityType
<1>8. \A n \in 1 .. MaxCategories : level[n - 1] \subseteq level[n]
  <2> DEFINE P == {n \in Nat : n # 0 => level[n - 1] \subseteq level[n]}
  <2>1. 0 \in P
    OBVIOUS
  <2>2. ASSUME NEW n \in 1 .. MaxCategories, n - 1 \in P PROVE n \in P
    <3>1. CASE n = 1
      BY <1>4, <1>5, <3>1
    <3>2. CASE n # 1
      <4>1. n - 1 \in 1 .. MaxCategories /\ level[(n - 1) - 1] \subseteq level[n - 1]
        BY <1>4, <2>2, <3>2
      <4> QED
        BY <1>4, <1>5, <4>1 DEF NextLevel
    <3> QED
      BY <3>1, <3>2
  <2> HIDE DEF P
  <2>3. \A n \in 0 .. MaxCategories : n \in P
    BY <1>4, <2>1, <2>2, UpTo
  <2> QED
    BY <1>4, <2>3 DEF P
<1>9. \A n \in 0 .. MaxCategories : level[n] = all \/ n <= Cardinality(level[n])
  <2> DEFINE P == {n \in Nat : level[n] = all \/ n <= Cardinality(level[n])}
  <2>1. 0 \in P
    BY <1>5, FS_EmptySet
  <2>2. ASSUME NEW n \in 1 .. MaxCategories, n - 1 \in P PROVE n \in P
    <3> DEFINE below == level[n - 1]  rest == all \ below
    <3>1. below \subseteq level[n] /\ level[n] \subseteq all /\ level[n] = NextLevel(below) /\ n \in Nat
      BY <1>4, <1>5, <1>6, <1>8
    <3>2. CASE below = all
      BY <3>1, <3>2
    <3>3. CASE below # all
      <4>1. below \subseteq all /\ rest # {}
        BY <3>1, <3>3
      <4>2. PICK c \in rest : \A d \in rest : rank[c] <= rank[d]
        <5> DEFINE ranks == {rank[d] : d \in rest}
        <5>1. ranks \in SUBSET Nat /\ ranks # {}
          BY <1>1, <4>1 DEF RanksCategories
        <5>2. PICK m \in ranks : \A k \in ranks : m <= k
          BY <5>1, LeastNumber
        <5> QED
          BY <5>2
      <4>3. categories[c].parent = 0 \/ categories[c].parent \in below
        <5>1. categories[c].parent # 0 =>
                /\ categories[c].parent \in all
                /\ rank[categories[c].parent] \in Nat /\ rank[c] \in Nat
                /\ rank[categories[c].parent] < rank[c]
          BY <1>1, <4>2 DEF RanksCategories, CategoriesTypeOK
        <5> QED
          BY <4>2, <5>1
      <4>4. c \in level[n] /\ c \notin below
        BY <3>1, <4>2, <4>3 DEF NextLevel
      <4>5. IsFiniteSet(level[n]) /\ IsFiniteSet(below)
        BY <1>7, <3>1, FS_Subset
      <4>6. /\ Cardinality(below) \in Nat /\ Cardinality(level[n]) \in Nat
            /\ Cardinality(below) <= Cardinality(level[n])
            /\ Cardinality(below) # Cardinality(level[n])
        BY <3>1, <4>4, <4>5, FS_Subset, FS_CardinalityType
      <4>7. n - 1 <= Cardinality(below)
        BY <2>2, <3>3
      <4> HIDE DEF below
      <4> QED
        BY <3>1, <4>6, <4>7
    <3> QED
      BY <3>2, <3>3
  <2> HIDE DEF P
  <2>3. \A n \in 0 .. MaxCategories : n \in P
    BY <1>4, <2>1, <2>2, UpTo
  <2> QED
    BY <2>3 DEF P
<1>10. level[MaxCategories] = all
  <2>1. MaxCategories \in 0 .. MaxCategories
    BY <1>4
  <2>2. level[MaxCategories] \subseteq all
    BY <1>6, <2>1
  <2>3. Cardinality(level[MaxCategories]) <= Cardinality(all)
        /\ (Cardinality(level[MaxCategories]) = Cardinality(all) => level[MaxCategories] = all)
        /\ Cardinality(level[MaxCategories]) \in Nat
    BY <1>7, <2>2, FS_Subset, FS_CardinalityType
  <2>4. level[MaxCategories] = all \/ MaxCategories <= Cardinality(level[MaxCategories])
    BY <1>9, <2>1
  <2> QED
    BY <1>4, <1>7, <2>3, <2>4
<1> QED
  BY <1>3, <1>10

(* For any number of categories and requests in flight, however deletions, *)
(* creations and walks interleave: every category is in the tree that      *)
(* findAllTree builds, unless two moves have crossed (validateParent,      *)
(* PostCategoryService).                                                   *)
THEOREM TreeKeepsCategories == CategoriesSpec => []TreeLosesByCrossingOnly
<1>1. CategoriesIInv => TreeLosesByCrossingOnly
  BY TreeIsWhole DEF CategoriesIInv, TreeLosesByCrossingOnly
<1> QED
  BY <1>1, CategoriesStart, CategoriesKept, PTL DEF CategoriesSpec
=============================================================================
