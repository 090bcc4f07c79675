-------------------------------- MODULE Profile --------------------------------
(***************************************************************************)
(* The JSON columns of one users row: `profile` (api/v1/profile.py,        *)
(* resume.py, settings.py), `resume_text` and `byok_keys` (settings.py,    *)
(* services/byok.py).  Each request loads the row in get_current_user,     *)
(* computes a whole new column from it and commits; a resume upload waits  *)
(* for the LLM in between.  A stored value is the request that wrote it.   *)
(***************************************************************************)
EXTENDS Naturals, FiniteSets

CONSTANTS Writers, Prefs, Providers, Nothing

VARIABLES
    profile,    \* fields of the profile column
    resumeText,
    byok,       \* provider -> the request and the server secret it was encrypted with
    alive,      \* the row exists
    usage,      \* resume_parse usage rows committed
    secret,     \* the server's current secret_key
    preq,       \* requests: kind, what they change, the row they loaded
    said,       \* history: the last request about each field that was answered 200
    edited,     \* history: edits of a resume answered 200 that changed the loaded dict in place
    mixed       \* history: columns that two overlapping requests have changed

profileVars == <<profile, resumeText, byok, alive, usage, secret, preq, said, edited, mixed>>

Fields == Prefs \cup {"self_assessment", "interview_date", "resume"}

(* A stored key: the request that set it, the secret that encrypted it. *)
Key == [by : Writers, secret : 0..1]

ASSUME ProfileAssumption ==
    Fields \cap Providers = {} /\ Nothing \notin Writers \cup Key

ProfileKinds == {"settings", "assessment", "date", "clear_date", "upload", "put_resume"}
ByokKinds == {"keys", "delete_keys"}

Unsent == [kind |-> Nothing, at |-> "new", part |-> {}, drop |-> {},
           profile |-> Nothing, byok |-> Nothing, text |-> Nothing]

ColumnOf(kind) == IF kind \in ByokKinds THEN "byok" ELSE "profile"

NoKeys == [p \in Providers |-> Nothing]

ProfileInit ==
    /\ profile = [f \in Fields |-> Nothing]
    /\ resumeText = Nothing
    /\ byok = NoKeys
    /\ alive = TRUE
    /\ usage = {}
    /\ secret \in 0..1
    /\ preq = [w \in Writers |-> Unsent]
    /\ said = [x \in Fields \cup Providers |-> Nothing]
    /\ edited = {}
    /\ mixed = {}

Finish(w) == preq' = [preq EXCEPT ![w] = [Unsent EXCEPT !.at = "end"]]

-------------------------------------------------------------------------------
(* get_current_user loads the row; 401 without one.  `part` and `drop` are the preferences
   or providers the body sets and clears. *)
Load(w, kind, part, drop) ==
    /\ preq[w].at = "new"
    /\ IF alive
       THEN /\ preq' = [preq EXCEPT ![w] = [kind |-> kind, part |-> part, drop |-> drop,
                   at |-> IF kind = "upload" THEN "llm" ELSE "commit",
                   profile |-> profile, byok |-> byok, text |-> resumeText]]
            /\ mixed' = mixed \cup
                   {ColumnOf(kind) : o \in {v \in Writers : preq[v].at \in {"llm", "commit"}
                                               /\ ColumnOf(preq[v].kind) = ColumnOf(kind)}}
       ELSE Finish(w) /\ UNCHANGED mixed
    /\ UNCHANGED <<profile, resumeText, byok, alive, usage, secret, said, edited>>

(* upload_resume: a bad file ends it before the LLM, a failing LLM or an unreadable answer
   after it; get_db then rolls the usage row back. *)
UploadFails(w) ==
    /\ preq[w].at = "llm"
    /\ Finish(w)
    /\ UNCHANGED <<profile, resumeText, byok, alive, usage, secret, said, edited, mixed>>

ResumeParsed(w) ==
    /\ preq[w].at = "llm"
    /\ preq' = [preq EXCEPT ![w].at = "commit"]
    /\ UNCHANGED <<profile, resumeText, byok, alive, usage, secret, said, edited, mixed>>

-------------------------------------------------------------------------------
(* The column each handler computes from the row it loaded. *)

\* mutant: the settings replace the column instead of being merged into it
SettingsProfile_Replaces(w) == [f \in Fields |-> IF f \in preq[w].part THEN w ELSE Nothing]

SettingsProfile(w) ==
    [f \in Fields |-> IF f \in preq[w].part THEN w ELSE preq[w].profile[f]]

AssessmentProfile(w) == [preq[w].profile EXCEPT !["self_assessment"] = w]

DateProfile(w) ==
    [preq[w].profile EXCEPT !["interview_date"] = IF preq[w].kind = "date" THEN w ELSE Nothing]

ResumeProfile(w) == [preq[w].profile EXCEPT !["resume"] = w]

NewProfile(w) ==
    CASE preq[w].kind = "settings" -> SettingsProfile(w)
      [] preq[w].kind = "assessment" -> AssessmentProfile(w)
      [] preq[w].kind \in {"date", "clear_date"} -> DateProfile(w)
      [] preq[w].kind \in {"upload", "put_resume"} -> ResumeProfile(w)

(* update_profile changes the loaded resume dict in place, so SQLAlchemy compares the new
   column with itself and writes nothing; only a missing resume makes a difference. *)
InPlace(w) == preq[w].kind = "put_resume" /\ preq[w].profile["resume"] # Nothing

LoadedProfile(w) == IF InPlace(w) THEN ResumeProfile(w) ELSE preq[w].profile

Sets(w) ==
    CASE preq[w].kind = "settings" -> preq[w].part
      [] preq[w].kind = "assessment" -> {"self_assessment"}
      [] preq[w].kind \in {"date", "clear_date"} -> {"interview_date"}
      [] OTHER -> {"resume"}

(* The commit of a handler of the profile column, and its answer: 200, whether there was
   anything to write or not.  An UPDATE, or a refresh, of a row that is gone fails. *)
CommitProfile(w) ==
    LET new == NewProfile(w)
        written == new # LoadedProfile(w)
    IN /\ preq[w].kind \in ProfileKinds /\ preq[w].at = "commit"
       /\ Finish(w)
       /\ IF alive
          THEN /\ profile' = IF written THEN new ELSE profile
               /\ resumeText' = IF preq[w].kind = "upload" THEN w ELSE resumeText
               /\ usage' = IF preq[w].kind = "upload" THEN usage \cup {w} ELSE usage
               /\ said' = [x \in DOMAIN said |-> IF x \in Sets(w) THEN new[x] ELSE said[x]]
               /\ edited' = IF InPlace(w) THEN edited \cup {w} ELSE edited
          ELSE UNCHANGED <<profile, resumeText, usage, said, edited>>
       /\ UNCHANGED <<byok, alive, secret, mixed>>

(* upsert_byok_keys: a key sets its provider, an empty string removes it; delete_byok_keys
   removes all.  None is stored for an empty map. *)
NewKeys(w) ==
    IF preq[w].kind = "delete_keys" THEN NoKeys
    ELSE [p \in Providers |->
             IF p \in preq[w].part THEN [by |-> w, secret |-> secret]
             ELSE IF p \in preq[w].drop THEN Nothing ELSE preq[w].byok[p]]

CommitKeys(w) ==
    LET new == NewKeys(w)
        named == IF preq[w].kind = "delete_keys" THEN Providers
                 ELSE preq[w].part \cup preq[w].drop
    IN /\ preq[w].kind \in ByokKinds /\ preq[w].at = "commit"
       /\ Finish(w)
       /\ IF alive
          THEN /\ byok' = IF new = preq[w].byok THEN byok ELSE new
               /\ said' = [x \in DOMAIN said |->
                      IF x \notin named THEN said[x]
                      ELSE IF new[x] = Nothing THEN Nothing ELSE w]
          ELSE UNCHANGED <<byok, said>>
       /\ UNCHANGED <<profile, resumeText, alive, usage, secret, edited, mixed>>

(* settings.delete_account; and a deployment with another secret_key. *)
DeleteRow ==
    /\ alive
    /\ alive' = FALSE
    /\ UNCHANGED <<profile, resumeText, byok, usage, secret, preq, said, edited, mixed>>

ChangeSecret ==
    /\ secret = 0
    /\ \A w \in Writers : preq[w].at \in {"new", "end"}
    /\ secret' = 1
    /\ UNCHANGED <<profile, resumeText, byok, alive, usage, preq, said, edited, mixed>>

-------------------------------------------------------------------------------
(* What the reads answer. *)

(* get_settings, decrypt_byok_keys: the providers whose key the current secret decrypts. *)
UsableKeys == {p \in Providers : byok[p] # Nothing /\ byok[p].secret = secret}

(* get_self_assessment, get_interview_date, get_profile *)
Answer == [completed |-> profile["self_assessment"] # Nothing,
           date |-> profile["interview_date"],
           resume |-> profile["resume"],
           hasResume |-> profile["resume"] # Nothing /\ resumeText # Nothing]

-------------------------------------------------------------------------------
ProfileNext ==
    \/ \E w \in Writers :
          \/ \E part \in (SUBSET Prefs) \ {{}} : Load(w, "settings", part, {})
          \/ \E kind \in (ProfileKinds \ {"settings"}) \cup {"delete_keys"} : Load(w, kind, {}, {})
          \/ \E part \in SUBSET Providers : \E drop \in SUBSET (Providers \ part) :
                Load(w, "keys", part, drop)
          \/ UploadFails(w) \/ ResumeParsed(w) \/ CommitProfile(w) \/ CommitKeys(w)
    \/ DeleteRow
    \/ ChangeSecret

ProfileSpec == ProfileInit /\ [][ProfileNext]_profileVars

-------------------------------------------------------------------------------
(* "Merge into existing profile JSONB (preserve other keys like resume data)": unless two
   requests on the same column overlap, each field holds what the last request about it that
   was answered 200 gave it - the resume only if that was not an edit in place, which is
   answered and not stored - whatever the other column's requests do; a key is usable exactly
   when the last request about its provider set it under the present secret; and a shown
   resume comes with its text and its usage row. *)
FieldsKept ==
    /\ "profile" \notin mixed => \A f \in Fields :
           profile[f] = said[f] \/ (f = "resume" /\ said[f] \in edited)
    /\ "byok" \notin mixed => \A p \in Providers :
           /\ (byok[p] = Nothing) = (said[p] = Nothing)
           /\ p \in UsableKeys => byok[p].by = said[p]
    /\ "profile" \notin mixed /\ resumeText # Nothing => /\ Answer.hasResume
                                                        /\ resumeText \in usage
=============================================================================
