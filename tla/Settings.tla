--------------------------------- MODULE Settings ---------------------------------
(***************************************************************************)
(* Settings and the two caches that are filled from them: the public       *)
(* settings of a language (SettingsService), which every write empties,    *)
(* and the layout of the site (SiteService.getLayout), which nothing       *)
(* empties, both good for a time to live.  A write and the emptying, and a *)
(* read and the filling, are steps apart.                                  *)
(*                                                                         *)
(* Keys and labels are left out, and the menus and media in the layout.    *)
(* No route calls getPublicSettings at present: its controller is a        *)
(* comment.                                                                *)
(***************************************************************************)
EXTENDS Tables

CONSTANTS
  SettingEditors, \* requests that write settings, in flight
  Readers,        \* requests that fill a cache, in flight
  SettingLangs,
  Values,
  TimeToLive,     \* of a cached answer, in periods
  MaxSettings,    \* bound: settings ever made
  MaxTime         \* bound: periods

ASSUME SettingBounds ==
  MaxSettings \in Nat /\ MaxTime \in Nat /\ TimeToLive \in Nat \ {0}
ASSUME NoneIsNoCache == None \notin {"public", "layout"}

VARIABLES
  settings,    \* id -> public, active, global value, localized values
  nextSetting,
  time, changedAt, \* now, and (history) when the settings were last written
  publicCache, layoutCache, \* language -> data, expiresAt, crossed (history)
  toInvalidate, \* requests that have written and have still to empty the cache
  reading      \* what each reader has read and not stored yet

settingTables == <<settings, nextSetting, time, changedAt>>
settingVars == <<settingTables, publicCache, layoutCache, toInvalidate, reading>>

NoReading == [cache |-> None, lang |-> None, data |-> None, crossed |-> FALSE]

SettingsInit ==
  /\ settings = << >> /\ nextSetting = 1 /\ time = 0 /\ changedAt = 0
  /\ publicCache = << >> /\ layoutCache = << >>
  /\ toInvalidate = {}
  /\ reading = [r \in Readers |-> NoReading]

-----------------------------------------------------------------------------
(* A write crosses what has been read for the layout, an emptying what has *)
(* been read for the public settings.                                      *)
Crosses(cache) ==
  [r \in Readers |-> [reading[r] EXCEPT !.crossed = @ \/ reading[r].cache = cache]]

Written(e, table) ==
  /\ e \notin toInvalidate
  /\ settings' = table
  /\ changedAt' = time
  /\ toInvalidate' = toInvalidate \cup {e}
  /\ reading' = Crosses("layout")
  /\ UNCHANGED <<time, publicCache, layoutCache>>

CreateSettingDto == [public : BOOLEAN, active : BOOLEAN]

CreateSetting(e, dto) ==
  /\ nextSetting <= MaxSettings
  /\ Written(e, Put(settings, nextSetting,
       [public |-> dto.public, active |-> dto.active, global |-> None, localized |-> << >>]))
  /\ nextSetting' = nextSetting + 1

UpdateSetting(e, s, dto) ==
  Written(e, [settings EXCEPT ![s].public = dto.public, ![s].active = dto.active])
    /\ UNCHANGED nextSetting

UpdateGlobalContent(e, s, v) ==
  Written(e, [settings EXCEPT ![s].global = v]) /\ UNCHANGED nextSetting

UpdateLocalizedContent(e, s, l, v) ==
  Written(e, [settings EXCEPT ![s].localized = Put(@, l, v)]) /\ UNCHANGED nextSetting

DeleteSetting(e, s) ==
  Written(e, Only(settings, DOMAIN settings \ {s})) /\ UNCHANGED nextSetting

KeepCache == publicCache
EmptyCache == << >>

InvalidateCache(e) ==
  /\ e \in toInvalidate
  /\ publicCache' = EmptyCache
  /\ toInvalidate' = toInvalidate \ {e}
  /\ reading' = Crosses("public")
  /\ UNCHANGED <<settingTables, layoutCache>>

-----------------------------------------------------------------------------
(* The public answer: each public active setting, localized or global.     *)
PublicSettings(l) ==
  [s \in {s \in DOMAIN settings : settings[s].public /\ settings[s].active} |->
     IF l \in DOMAIN settings[s].localized THEN settings[s].localized[l] ELSE settings[s].global]

(* The layout has every active setting, public or not, and lays the        *)
(* localized value over the global one.                                    *)
LayoutSettings(l) ==
  [s \in {s \in DOMAIN settings : settings[s].active} |->
     <<settings[s].global,
       IF l \in DOMAIN settings[s].localized THEN settings[s].localized[l] ELSE None>>]

FreshForEver(cache, l) == l \in DOMAIN cache
Fresh(cache, l) == l \in DOMAIN cache /\ time < cache[l].expiresAt

Read(r, cache, l, data) ==
  /\ reading[r].cache = None
  /\ reading' = [reading EXCEPT ![r] =
       [cache |-> cache, lang |-> l, data |-> data, crossed |-> FALSE]]
  /\ UNCHANGED <<settingTables, publicCache, layoutCache, toInvalidate>>

GetPublicSettings(r, l) == ~Fresh(publicCache, l) /\ Read(r, "public", l, PublicSettings(l))
GetLayout(r, l) == ~Fresh(layoutCache, l) /\ Read(r, "layout", l, LayoutSettings(l))

Store(r) ==
  LET entry == [data |-> reading[r].data, expiresAt |-> time + TimeToLive,
                crossed |-> reading[r].crossed]
  IN
    /\ reading[r].cache # None
    /\ publicCache' = IF reading[r].cache = "public" THEN Put(publicCache, reading[r].lang, entry)
                                                     ELSE publicCache
    /\ layoutCache' = IF reading[r].cache = "layout" THEN Put(layoutCache, reading[r].lang, entry)
                                                     ELSE layoutCache
    /\ reading' = [reading EXCEPT ![r] = NoReading]
    /\ UNCHANGED <<settingTables, toInvalidate>>

TimePasses ==
  /\ time < MaxTime
  /\ time' = time + 1
  /\ UNCHANGED <<settings, nextSetting, changedAt, publicCache, layoutCache, toInvalidate, reading>>

SettingRoutes(e) ==
  \/ \E dto \in CreateSettingDto :
       CreateSetting(e, dto) \/ \E s \in DOMAIN settings : UpdateSetting(e, s, dto)
  \/ \E s \in DOMAIN settings :
       \/ \E v \in Values :
            UpdateGlobalContent(e, s, v) \/ \E l \in SettingLangs : UpdateLocalizedContent(e, s, l, v)
       \/ DeleteSetting(e, s)
  \/ InvalidateCache(e)

SettingsNext ==
  \/ \E e \in SettingEditors : SettingRoutes(e)
  \/ \E r \in Readers, l \in SettingLangs : GetPublicSettings(r, l) \/ GetLayout(r, l)
  \/ \E r \in Readers : Store(r)
  \/ TimePasses

SettingsSpec == SettingsInit /\ [][SettingsNext]_settingVars

-----------------------------------------------------------------------------
(* A cached answer that is still served and is not what the tables say:    *)
(* the public settings only between a write and its emptying, or if they   *)
(* had been read before an emptying and were stored after it; the layout   *)
(* only for a time to live after the last write, or if it was read before  *)
(* that write and stored after it (settings.service.ts:256-294,            *)
(* site.service.ts:642-661).                                               *)
PublicCatchesUp ==
  \A l \in DOMAIN publicCache :
    Fresh(publicCache, l) /\ publicCache[l].data # PublicSettings(l) =>
      toInvalidate # {} \/ publicCache[l].crossed

LayoutCatchesUp ==
  \A l \in DOMAIN layoutCache :
    time >= changedAt + TimeToLive /\ ~layoutCache[l].crossed
      /\ layoutCache[l].data # LayoutSettings(l) => ~Fresh(layoutCache, l)

SettingsCatchUp == PublicCatchesUp /\ LayoutCatchesUp
===================================================================================
