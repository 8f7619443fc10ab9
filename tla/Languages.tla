-------------------------------- MODULE Languages --------------------------------
(***************************************************************************)
(* Languages and which one is the default (LanguagesService).  Making a    *)
(* language the default is three commands: find the default there is,      *)
(* unset it, write the new one.  Codes, names and order are left out.      *)
(***************************************************************************)
EXTENDS Tables

CONSTANTS
  LanguageEditors, \* requests about languages in flight
  MaxLanguages     \* bound: languages ever made, the seeded one included

ASSUME LanguageBounds == MaxLanguages \in Nat \ {0}
ASSUME NoneIsNoFlag == None \notin BOOLEAN

VARIABLES
  languages,    \* id -> active, default
  nextLanguage,
  languageEdit, \* what each request asks for and has done of it
  upset         \* history: requests about the default were in flight together, or
                \* one broke off, or somebody unset it by name

languageVars == <<languages, nextLanguage, languageEdit, upset>>

NoLanguageEdit == [at |-> "idle", id |-> 0, old |-> 0, dto |-> None]

(* The seeds make one language, the default. *)
LanguagesInit ==
  /\ languages = [i \in {1} |-> [active |-> TRUE, default |-> TRUE]]
  /\ nextLanguage = 2
  /\ languageEdit = [e \in LanguageEditors |-> NoLanguageEdit]
  /\ upset = FALSE

-----------------------------------------------------------------------------
Defaults == {i \in DOMAIN languages : languages[i].default}

(* In flight and about the default: it sets one, or found that a language  *)
(* is not the default and is going to delete it.                           *)
AboutDefault(e) ==
  \/ languageEdit[e].at \in {"finding", "unsetting", "removing"}
  \/ languageEdit[e].at = "writing" /\ languageEdit[e].dto.default = TRUE

Begins(e, request) ==
  /\ languageEdit[e].at = "idle"
  /\ languageEdit' = [languageEdit EXCEPT ![e] = request]

(* POST, with id 0, and PATCH: a request for the default unsets first.     *)
LanguageDto == [active : BOOLEAN \cup {None}, default : BOOLEAN \cup {None}]

StartWrite(e, i, dto) ==
  /\ i = 0 => nextLanguage <= MaxLanguages
  /\ Begins(e, [at |-> IF dto.default = TRUE THEN "finding" ELSE "writing",
                id |-> i, old |-> 0, dto |-> dto])
  /\ upset' = (upset \/ (dto.default = TRUE /\ \E o \in LanguageEditors : AboutDefault(o)))
  /\ UNCHANGED <<languages, nextLanguage>>

(* unsetAllDefaults finds the first default and unsets that one.           *)
FindDefault(e) ==
  /\ languageEdit[e].at = "finding"
  /\ IF Defaults = {}
       THEN languageEdit' = [languageEdit EXCEPT ![e].at = "writing"]
       ELSE \E d \in Defaults :
              languageEdit' = [languageEdit EXCEPT ![e].at = "unsetting", ![e].old = d]
  /\ UNCHANGED <<languages, nextLanguage, upset>>

StillDefault(row) == row
NoDefault(row) == [row EXCEPT !.default = FALSE]

UnsetDefault(e) ==
  /\ languageEdit[e].at = "unsetting"
  /\ languageEdit[e].old \in DOMAIN languages
  /\ languages' = [languages EXCEPT ![languageEdit[e].old] = NoDefault(@)]
  /\ languageEdit' = [languageEdit EXCEPT ![e].at = "writing"]
  /\ UNCHANGED <<nextLanguage, upset>>

WriteNew(e) ==
  LET dto == languageEdit[e].dto IN
    /\ languageEdit[e].at = "writing" /\ languageEdit[e].id = 0
    /\ nextLanguage <= MaxLanguages
    /\ languages' = Put(languages, nextLanguage,
         [active |-> Given(dto.active, TRUE), default |-> Given(dto.default, FALSE)])
    /\ nextLanguage' = nextLanguage + 1
    /\ languageEdit' = [languageEdit EXCEPT ![e] = NoLanguageEdit]
    /\ UNCHANGED upset

WriteLanguage(e) ==
  LET i == languageEdit[e].id  dto == languageEdit[e].dto IN
    /\ languageEdit[e].at = "writing"
    /\ i \in DOMAIN languages
    /\ languages' = [languages EXCEPT ![i].active = Given(dto.active, @),
                                      ![i].default = Given(dto.default, @)]
    /\ upset' = (upset \/ (dto.default = FALSE /\ languages[i].default))
    /\ languageEdit' = [languageEdit EXCEPT ![e] = NoLanguageEdit]
    /\ UNCHANGED nextLanguage

(* A command fails, because its row is gone or for a reason of its own;    *)
(* what was done before stays.                                             *)
BreakOff(e) ==
  /\ languageEdit[e].at # "idle"
  /\ upset' = (upset \/ AboutDefault(e))
  /\ languageEdit' = [languageEdit EXCEPT ![e] = NoLanguageEdit]
  /\ UNCHANGED <<languages, nextLanguage>>

(* DELETE: the default is not deleted, ...                                 *)
MayRemoveAny(i) == TRUE
MayRemove(i) == ~languages[i].default

StartRemove(e, i) ==
  /\ MayRemove(i)
  /\ Begins(e, [NoLanguageEdit EXCEPT !.at = "removing", !.id = i])
  /\ upset' = (upset \/ \E o \in LanguageEditors : AboutDefault(o))
  /\ UNCHANGED <<languages, nextLanguage>>

Remove(e) ==
  /\ languageEdit[e].at = "removing"
  /\ languages' = Only(languages, DOMAIN languages \ {languageEdit[e].id})
  /\ languageEdit' = [languageEdit EXCEPT ![e] = NoLanguageEdit]
  /\ UNCHANGED <<nextLanguage, upset>>

(* ... and toggleActive does not put the default out of use, as far as it  *)
(* has read; it reads the flag again to turn it over.                      *)
StartToggle(e, i) ==
  /\ ~(languages[i].default /\ languages[i].active)
  /\ Begins(e, [NoLanguageEdit EXCEPT !.at = "toggling", !.id = i])
  /\ UNCHANGED <<languages, nextLanguage, upset>>

ReadFlag(e) ==
  LET i == languageEdit[e].id IN
    /\ languageEdit[e].at = "toggling"
    /\ i \in DOMAIN languages
    /\ languageEdit' = [languageEdit EXCEPT ![e].at = "writing",
         ![e].dto = [active |-> ~languages[i].active, default |-> None]]
    /\ UNCHANGED <<languages, nextLanguage, upset>>

LanguageRoutes(e) ==
  \/ \E dto \in LanguageDto, i \in DOMAIN languages \cup {0} : StartWrite(e, i, dto)
  \/ \E i \in DOMAIN languages : StartRemove(e, i) \/ StartToggle(e, i)
  \/ FindDefault(e) \/ UnsetDefault(e) \/ WriteNew(e) \/ WriteLanguage(e) \/ Remove(e)
  \/ ReadFlag(e) \/ BreakOff(e)

LanguagesNext == \E e \in LanguageEditors : LanguageRoutes(e)

LanguagesSpec == LanguagesInit /\ [][LanguagesNext]_languageVars

-----------------------------------------------------------------------------
(* There is one default language, but between the commands of the request  *)
(* that changes it; unless two such requests crossed, or one broke off     *)
(* half-way, or a PATCH said isDefault: false of the default               *)
(* (create, update, remove, unsetAllDefaults, languages.service.ts:73-192).*)
OneDefault ==
  \/ upset \/ \E e \in LanguageEditors : AboutDefault(e)
  \/ Cardinality(Defaults) = 1
==================================================================================
