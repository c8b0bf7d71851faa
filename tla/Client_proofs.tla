---------------------------- MODULE Client_proofs ----------------------------
(***************************************************************************)
(* Proofs about what the client learns of the router (the two components of   *)
(* MCClient).                                                                *)
(*                                                                         *)
(* DeviceProfile, for all firmwares and whatever their files say, and any     *)
(* number of outages, updates and restarts: ProfileSafe, and, where at most    *)
(* one request is dropped, FactsAreKept.  ProfileSafe tells what a write's     *)
(* verdict, a profile and its copy are once they are there; the strengthening *)
(* says what is known while they are made: of the files read so far (Reading), *)
(* of the version kept with cr_version (Cached) and of each part of the token *)
(* (TokenKnown).                                                             *)
(*                                                                         *)
(* Login, for every kind of router, any number of attempts, and whatever      *)
(* others do and the network loses: FirstFormIsSafe and FailuresAreTold.      *)
(***************************************************************************)
EXTENDS Login, DeviceProfile, TLAPS, WellFoundedInduction

\* What has been crawled is the running firmware's, unless it was updated.
Reading ==
    /\ learner.stage \in {"off", "due", "save"} =>
        learner.read = Nothing /\ learner.at = 1 /\ ~learner.again
    /\ learner.stage \in {"off", "due"} => ~learner.torn
    /\ learner.stage \in {"crawl", "label"} /\ ~learner.torn =>
        \A x \in FileNames : learner.read[x] \in {Nil, fw}

\* No version is ahead of the firmware; one kept for the running firmware is its.
Cached ==
    /\ crCache # Nil => /\ crCache[1] <= fw
                        /\ crCache[1] = fw => crCache[2] = fw
    /\ write.stage = "operands" =>
        write.token.version \in Firmwares /\ write.token.version <= fw

\* The token of a write without excuse, as far as it has got.
TokenKnown ==
    ~write.excused /\ write.stage # "idle" =>
        /\ Whole(profile, fw)
        /\ write.token.field = Web[fw].fields
        /\ write.stage \in {"operands", "salt"} =>
            write.token.version = fw /\ write.token.digest = Web[fw].digest
        /\ write.stage = "salt" => write.token.cr = fw
        /\ write.stage = "send" =>
            \/ Web[fw].gateOff
            \/ /\ write.token.version = fw /\ write.token.cr = fw
               /\ write.token.digest = Web[fw].digest

ProfileIInv == ProfileSafe /\ Reading /\ Cached /\ TokenKnown

-----------------------------------------------------------------------------
(* Parts of the state, and what each may depend on.                          *)

LearnerTyped ==
    learner \in [stage : {"off", "due", "crawl", "label", "save"},
                 at : 1..Len(Files), read : [FileNames -> Heard],
                 again : BOOLEAN, torn : BOOLEAN, deaf : BOOLEAN]

WriteTyped ==
    write \in [stage : {"idle", "version", "operands", "salt", "send"},
               token : [field : Spellings, version : Heard,
                        digest : Digests \cup {Nil}, cr : Heard],
               excused : BOOLEAN,
               verdict : {Nil, "accepted", "refused", "failed"}]

SpentTyped ==
    spent \in [outages : 0..MaxOutages, updates : 0..MaxUpdates,
               drops : 0..MaxDrops, restarts : 0..MaxRestarts]

RouterTyped == fw \in Firmwares /\ up \in BOOLEAN /\ build \in Builds

KeptTyped ==
    /\ profile \in Profiles \cup {Nil} /\ disk \in Profiles \cup {Nil}
    /\ crCache \in {Nil} \cup (Firmwares \X Firmwares)

LEMMA ProfileTypeParts ==
    ProfileTypeOK <=> RouterTyped /\ KeptTyped /\ LearnerTyped /\ WriteTyped
                      /\ SpentTyped
  BY DEF ProfileTypeOK, RouterTyped, KeptTyped, LearnerTyped, WriteTyped, SpentTyped

\* The learner's part of the invariant, the profiles' and the write's.
LearnerInv == LearnerTyped /\ Reading
ProfilesInv == KeptTyped /\ OneFirmware /\ ShapeIsOurs
WriteInv == WriteTyped /\ Cached /\ TokenKnown /\ TokenFits

LEMMA ProfileParts ==
    ProfileIInv <=> RouterTyped /\ SpentTyped /\ LearnerInv /\ ProfilesInv /\ WriteInv
  BY ProfileTypeParts DEF ProfileIInv, ProfileSafe, LearnerInv, ProfilesInv, WriteInv

LEMMA ProfilePartsNext ==
    ProfileIInv' <=> RouterTyped' /\ SpentTyped' /\ LearnerInv' /\ ProfilesInv'
                     /\ WriteInv'
  BY DEF ProfileIInv, ProfileSafe, LearnerInv, ProfilesInv, WriteInv, ProfileTypeOK,
         RouterTyped, KeptTyped, LearnerTyped, WriteTyped, SpentTyped

\* Each part stays while what it speaks of does.
LEMMA LearnerRests ==
  ASSUME LearnerInv, UNCHANGED <<fw, learner>>
  PROVE  LearnerInv'
  BY DEF LearnerInv, LearnerTyped, Reading

LEMMA ProfilesRest ==
  ASSUME ProfilesInv, UNCHANGED <<profile, disk, build, crCache>>
  PROVE  ProfilesInv'
  BY DEF ProfilesInv, KeptTyped, OneFirmware, ShapeIsOurs

LEMMA WriteRests ==
  ASSUME WriteInv, UNCHANGED <<fw, profile, crCache, write>>
  PROVE  WriteInv'
  BY DEF WriteInv, WriteTyped, Cached, TokenKnown, TokenFits, Whole

-----------------------------------------------------------------------------
(* The learner.                                                              *)

LEMMA FileFacts ==
    /\ Len(Files) = 4 /\ DOMAIN Files = 1..4
    /\ FileNames = {Files[i] : i \in 1..4}
    /\ \A i \in 1..4 : Files[i] \in FileNames
    /\ FileNames = {"main", "service", "util", "config"}
  <1>1. DOMAIN Files = 1..4
    BY DEF Files
  <1>2. /\ 1..4 = {1, 2, 3, 4}
        /\ Files[1] = "main" /\ Files[2] = "service"
        /\ Files[3] = "util" /\ Files[4] = "config"
    BY DEF Files
  <1> QED
    BY <1>1, <1>2 DEF FileNames, Files

LEMMA WaitingLearner ==
  ASSUME learner' \in {Waiting, [Waiting EXCEPT !.stage = "due"]}
  PROVE  LearnerInv'
  <1>1. Nothing \in [FileNames -> Heard] /\ FALSE \in BOOLEAN /\ 1 \in 1..Len(Files)
    BY FileFacts DEF Nothing, Heard
  <1>2. LearnerTyped'
    <2>1. CASE learner' = Waiting
      BY <1>1, <2>1 DEF Waiting, LearnerTyped
    <2>2. CASE learner' = [Waiting EXCEPT !.stage = "due"]
      BY <1>1, <2>2 DEF Waiting, LearnerTyped
    <2> QED
      BY <2>1, <2>2
  <1>3. /\ learner'.stage \in {"off", "due"} /\ learner'.read = Nothing
        /\ learner'.at = 1 /\ ~learner'.again /\ ~learner'.torn
    BY DEF Waiting
  <1> QED
    BY <1>2, <1>3 DEF LearnerInv, Reading

LEMMA LearnInv ==
  ASSUME RouterTyped, LearnerInv, NEW heard, async_learn_profile(heard)
  PROVE  LearnerInv'
  <1>1. CASE learner' = Waiting
    BY <1>1, WaitingLearner
  <1>2. CASE learner' = [learner EXCEPT !.stage = "crawl", !.deaf = ~up]
    <2>1. learner.stage = "due" /\ learner.read = Nothing
      BY DEF async_learn_profile, LearnerInv, Reading
    <2>2. (~up) \in BOOLEAN
      OBVIOUS
    <2>3. LearnerTyped'
      BY <1>2, <2>2 DEF LearnerInv, LearnerTyped
    <2>4. learner'.stage = "crawl" /\ learner'.read = Nothing
      BY <1>2, <2>1 DEF LearnerInv, LearnerTyped
    <2> QED
      BY <2>3, <2>4 DEF LearnerInv, Reading, Nothing
  <1> QED
    BY <1>1, <1>2 DEF async_learn_profile

\* The file next in turn is read, from the running firmware, or missed.
LEMMA NextFileInv ==
  ASSUME RouterTyped, LearnerInv, learner.stage = "crawl", NEW read \in {Nil, fw},
         NEW deaf \in BOOLEAN, fw' = fw, learner' = [NextFile(read) EXCEPT !.deaf = deaf]
  PROVE  LearnerInv'
  <1> DEFINE last == learner.at = Len(Files)
             next == [learner EXCEPT !.read[Files[learner.at]] = read, !.again = FALSE,
                        !.at = IF last THEN 1 ELSE @ + 1,
                        !.stage = IF last THEN "label" ELSE @]
  <1>1. learner' = [next EXCEPT !.deaf = deaf]
    BY DEF NextFile
  <1>2. /\ LearnerTyped /\ FALSE \in BOOLEAN /\ read \in Heard
        /\ learner.at \in 1..4 /\ Files[learner.at] \in FileNames
    BY FileFacts DEF LearnerInv, LearnerTyped, RouterTyped, Heard
  <1>3. (IF last THEN 1 ELSE learner.at + 1) \in 1..Len(Files)
    BY <1>2, FileFacts
  <1>4. (IF last THEN "label" ELSE learner.stage) \in {"crawl", "label"}
    OBVIOUS
  <1>5. [learner.read EXCEPT ![Files[learner.at]] = read] \in [FileNames -> Heard]
    BY <1>2 DEF LearnerTyped
  <1>6. /\ LearnerTyped' /\ learner'.stage \in {"crawl", "label"}
        /\ learner'.torn = learner.torn
        /\ learner'.read = [learner.read EXCEPT ![Files[learner.at]] = read]
    <2> HIDE DEF last
    <2> QED
      BY <1>1, <1>2, <1>3, <1>4, <1>5 DEF LearnerTyped
  <1>7. ~learner'.torn => \A x \in FileNames : learner'.read[x] \in {Nil, fw'}
    BY <1>2, <1>6 DEF LearnerInv, LearnerTyped, Reading
  <1> QED
    BY <1>6, <1>7 DEF LearnerInv, Reading

LEMMA FetchInv ==
  ASSUME RouterTyped, LearnerInv, NEW answered \in BOOLEAN, _fetch_text(answered)
  PROVE  LearnerInv'
  <1>1. learner.stage = "crawl" /\ fw' = fw /\ LearnerTyped
    BY DEF _fetch_text, LearnerInv
  <1>2. CASE answered
    <2>1. learner' = NextFile(fw)
      BY <1>2 DEF _fetch_text
    <2>2. NextFile(fw) = [NextFile(fw) EXCEPT !.deaf = learner.deaf]
      BY <1>1 DEF NextFile, LearnerTyped
    <2> QED
      BY <1>1, <2>1, <2>2, NextFileInv DEF LearnerTyped
  <1>3. CASE ~answered /\ ~learner.again
    <2>1. learner' = [learner EXCEPT !.again = TRUE, !.deaf = @ \/ ~up]
      BY <1>3 DEF _fetch_text
    <2>2. TRUE \in BOOLEAN /\ (learner.deaf \/ ~up) \in BOOLEAN
      OBVIOUS
    <2>3. LearnerTyped' /\ learner'.stage = learner.stage
          /\ learner'.torn = learner.torn /\ learner'.read = learner.read
      BY <1>1, <2>1, <2>2 DEF LearnerTyped
    <2> QED
      BY <1>1, <2>3 DEF LearnerInv, Reading
  <1>4. CASE ~answered /\ learner.again
    <2> DEFINE deaf == learner.deaf \/ ~up
    <2>1. learner' = [NextFile(Nil) EXCEPT !.deaf = @ \/ ~up]
      BY <1>4 DEF _fetch_text
    <2>2. learner' = [NextFile(Nil) EXCEPT !.deaf = deaf]
      BY <1>1, <2>1 DEF NextFile, LearnerTyped
    <2>3. deaf \in BOOLEAN
      OBVIOUS
    <2> QED
      BY <1>1, <2>2, <2>3, NextFileInv
  <1> QED
    BY <1>2, <1>3, <1>4

\* The profile labelled is the learner's, of the firmware heard or of none.
LEMMA LabelInv ==
  ASSUME RouterTyped, LearnerInv, ProfilesInv, NEW heard \in {fw, Nil},
         learn_profile(heard)
  PROVE  LearnerInv' /\ ProfilesInv'
  <1>1. /\ learner.stage = "label" /\ profile' = parse_profile(heard)
        /\ UNCHANGED <<fw, disk, build, crCache>> /\ LearnerTyped
    BY DEF learn_profile, LearnerInv
  <1> DEFINE deaf == learner.deaf \/ ~up
  <1>2. learner' = [Waiting EXCEPT !.stage = "save", !.torn = learner.torn,
                                   !.deaf = deaf]
    BY DEF learn_profile
  <1>3. /\ deaf \in BOOLEAN /\ FALSE \in BOOLEAN /\ learner.torn \in BOOLEAN
        /\ Nothing \in [FileNames -> Heard] /\ 1 \in 1..Len(Files)
    BY <1>1, FileFacts DEF LearnerTyped, Nothing, Heard
  <1>4. LearnerInv'
    <2> HIDE DEF deaf
    <2>1. LearnerTyped' /\ learner'.stage = "save" /\ learner'.read = Nothing
          /\ learner'.at = 1 /\ ~learner'.again
      BY <1>2, <1>3 DEF Waiting, LearnerTyped
    <2> QED
      BY <2>1 DEF LearnerInv, Reading
  <1>5. profile' = [profile_version |-> build, firmware |-> heard,
                    read |-> learner.read, torn |-> learner.torn]
    BY <1>1 DEF parse_profile
  <1>6. profile' \in Profiles
    BY <1>1, <1>5 DEF LearnerTyped, Profiles, RouterTyped, Heard
  <1>7. \/ profile'.torn \/ profile'.firmware = Nil
        \/ \A x \in FileNames : profile'.read[x] \in {Nil, profile'.firmware}
    BY <1>1, <1>5 DEF LearnerInv, Reading
  <1>8. KeptTyped'
    BY <1>1, <1>6 DEF ProfilesInv, KeptTyped
  <1>9. OneFirmware'
    BY <1>1, <1>7 DEF ProfilesInv, OneFirmware
  <1>10. ShapeIsOurs'
    BY <1>1, <1>5 DEF ShapeIsOurs
  <1> QED
    BY <1>4, <1>8, <1>9, <1>10 DEF ProfilesInv

LEMMA SaveInv ==
  ASSUME LearnerInv, ProfilesInv, SaveProfile
  PROVE  LearnerInv' /\ ProfilesInv'
  <1>1. learner' = Waiting /\ disk' = profile /\ UNCHANGED <<profile, build, crCache>>
    BY DEF SaveProfile
  <1>2. LearnerInv'
    BY <1>1, WaitingLearner
  <1>3. ProfilesInv'
    BY <1>1 DEF ProfilesInv, KeptTyped, OneFirmware, ShapeIsOurs
  <1> QED
    BY <1>2, <1>3

-----------------------------------------------------------------------------
(* The token.                                                                *)

LEMMA WebFacts ==
  ASSUME NEW f \in Firmwares
  PROVE  /\ Web[f].fields \in Spellings /\ Web[f].digest \in Digests
         /\ Web[f].model \in Digests /\ f # Nil
  BY WebAssumption, NilAssumption DEF WebFiles, Spellings, Digests

\* What a whole profile tells of a command is what its firmware's files say.
LEMMA WholeTells ==
  ASSUME NEW f \in Firmwares, NEW p, Whole(p, f)
  PROVE  /\ profile_field(p) = Web[f].fields
         /\ _ad_hash_func(p, f) = Web[f].digest
         /\ _token_required(p) \/ Web[f].gateOff
  <1>1. /\ p # Nil /\ f # Nil
        /\ p.read["service"] = f /\ p.read["util"] = f
        /\ p.read["main"] = f /\ p.read["config"] = f
    BY FileFacts, WebFacts DEF Whole
  <1>2. Web[f].digest # Nil
    BY WebFacts, NilAssumption
  <1>3. _resolve_digest(p) = Web[f].digest
    BY <1>1 DEF _resolve_digest
  <1> QED
    BY <1>1, <1>2, <1>3
       DEF profile_field, parse_commands, _ad_hash_func, _token_required, parse_flags

\* What any profile tells stays in range.
LEMMA AnyTells ==
  ASSUME NEW p \in Profiles \cup {Nil}, NEW f \in Firmwares
  PROVE  /\ profile_field(p) \in Spellings
         /\ _ad_hash_func(p, f) \in Digests
  <1>1. CASE p = Nil
    BY <1>1, WebFacts DEF profile_field, Spellings, _ad_hash_func, _model_hash_func
  <1>2. CASE p # Nil
    <2>1. p.read["service"] \in Heard /\ p.read["util"] \in Heard
      BY <1>2, FileFacts DEF Profiles
    <2>2. profile_field(p) \in Spellings
      BY <1>2, <2>1, WebFacts DEF profile_field, parse_commands, Heard, Spellings
    <2>3. _resolve_digest(p) \in Digests \cup {Nil}
      BY <2>1, WebFacts DEF _resolve_digest, Heard
    <2> QED
      BY <2>2, <2>3, WebFacts DEF _ad_hash_func, _model_hash_func
  <1> QED
    BY <1>1, <1>2

\* A write that is over, for whatever reason but a refusal.
LEMMA OverInv ==
  ASSUME WriteInv, KeptTyped', fw' = fw, crCache' = crCache,
         NEW excused \in BOOLEAN, NEW verdict \in {Nil, "accepted", "refused", "failed"},
         verdict = "refused" => excused,
         write' = [stage |-> "idle", token |-> NoToken, excused |-> excused,
                   verdict |-> verdict]
  PROVE  WriteInv'
  <1>1. /\ write'.stage = "idle" /\ write'.excused = excused
        /\ write'.verdict = verdict
    OBVIOUS
  <1>2. WriteTyped'
    <2>1. NoToken \in [field : Spellings, version : Heard,
                       digest : Digests \cup {Nil}, cr : Heard]
      BY DEF NoToken, Spellings, Heard
    <2> QED
      BY <2>1 DEF WriteTyped
  <1> QED
    BY <1>1, <1>2 DEF WriteInv, Cached, TokenKnown, TokenFits

LEMMA FailInv ==
  ASSUME WriteInv, KeptTyped', fw' = fw, crCache' = crCache, Fail
  PROVE  WriteInv'
  <1>1. write' = [stage |-> "idle", token |-> NoToken, excused |-> FALSE,
                  verdict |-> "failed"]
    BY DEF Fail, Idle
  <1>2. "failed" \in {Nil, "accepted", "refused", "failed"} /\ FALSE \in BOOLEAN
    OBVIOUS
  <1> QED
    BY <1>1, <1>2, OverInv

\* A token that grows is typed when what is added is.
LEMMA SuffixInv ==
  ASSUME RouterTyped, KeptTyped, WriteInv, ad_suffix
  PROVE  WriteInv'
  <1> DEFINE field == profile_field(profile)
             stage == IF _token_required(profile) THEN "version" ELSE "send"
             excused == ~Whole(profile, fw)
  <1>1. /\ UNCHANGED <<fw, profile, crCache>>
        /\ write' = [Idle EXCEPT !.token.field = field, !.stage = stage,
                                 !.excused = excused]
    BY DEF ad_suffix
  <1>2. /\ field \in Spellings /\ stage \in {"version", "send"} /\ excused \in BOOLEAN
    BY AnyTells DEF RouterTyped, KeptTyped
  <1>3. ~excused => field = Web[fw].fields /\ (stage = "version" \/ Web[fw].gateOff)
    BY WholeTells DEF RouterTyped
  <1>4. Whole(profile, fw)' <=> Whole(profile, fw)
    BY <1>1 DEF Whole
  <1>5. ~excused => Whole(profile, fw)
    OBVIOUS
  <1> HIDE DEF field, stage, excused
  <1>6. write' = [stage |-> stage,
                  token |-> [field |-> field, version |-> Nil, digest |-> Nil,
                             cr |-> Nil],
                  excused |-> excused, verdict |-> Nil]
    BY <1>1 DEF Idle, NoToken
  <1>7. WriteTyped'
    BY <1>2, <1>6 DEF WriteTyped, Heard
  <1>8. Cached'
    BY <1>1, <1>2, <1>6 DEF WriteInv, Cached
  <1>9. TokenKnown'
    <2>1. /\ write'.stage = stage /\ write'.excused = excused
          /\ write'.token.field = field
      BY <1>6, <1>2
    <2>2. stage \notin {"operands", "salt"} /\ (stage = "send" => stage # "version")
      BY <1>2
    <2> QED
      BY <1>1, <1>3, <1>4, <1>5, <2>1, <2>2 DEF TokenKnown
  <1>10. TokenFits'
    BY <1>6, NilAssumption DEF TokenFits
  <1> QED
    BY <1>7, <1>8, <1>9, <1>10 DEF WriteInv

LEMMA VersionInv ==
  ASSUME RouterTyped, KeptTyped, WriteInv, Version
  PROVE  WriteInv'
  <1>1. UNCHANGED <<fw, profile, crCache>> /\ write.stage = "version" /\ KeptTyped'
    BY DEF Version, KeptTyped
  <1>2. CASE ~up
    BY <1>1, <1>2, FailInv DEF Version
  <1>3. CASE up
    <2> DEFINE digest == _ad_hash_func(profile, fw)
    <2>1. write' = [write EXCEPT !.stage = "operands", !.token.version = fw,
                                 !.token.digest = digest]
      BY <1>3 DEF Version
    <2>2. digest \in Digests /\ fw \in Heard /\ fw <= fw /\ fw \in Firmwares
      BY AnyTells, FirmwaresAssumption DEF KeptTyped, RouterTyped, Heard
    <2>3. Whole(profile, fw) => digest = Web[fw].digest
      BY WholeTells DEF RouterTyped
    <2>4. Whole(profile, fw)' <=> Whole(profile, fw)
      BY <1>1 DEF Whole
    <2> HIDE DEF digest
    <2>5. WriteTyped'
      BY <2>1, <2>2 DEF WriteInv, WriteTyped
    <2>6. /\ write'.stage = "operands" /\ write'.token.version = fw
          /\ write'.token.digest = digest
          /\ write'.token.field = write.token.field
          /\ write'.excused = write.excused /\ write'.verdict = write.verdict
      BY <2>1 DEF WriteInv, WriteTyped
    <2> QED
      BY <1>1, <2>2, <2>3, <2>4, <2>5, <2>6
         DEF WriteInv, Cached, TokenKnown, TokenFits
  <1> QED
    BY <1>2, <1>3

LEMMA AdInv ==
  ASSUME RouterTyped, KeptTyped, WriteInv, get_ad
  PROVE  WriteInv' /\ KeptTyped'
  <1>1. /\ UNCHANGED <<fw, profile, disk>> /\ write.stage = "operands"
        /\ write.token.version \in Firmwares /\ write.token.version <= fw
        /\ fw \in Firmwares /\ fw <= fw
    BY FirmwaresAssumption DEF get_ad, WriteInv, Cached, RouterTyped
  <1>2. Whole(profile, fw)' <=> Whole(profile, fw)
    BY <1>1 DEF Whole
  <1>3. CASE get_cr_version(write.token.version) /\ crCache # Nil
                /\ crCache[1] = write.token.version
    <2>1. /\ write' = [write EXCEPT !.token.cr = crCache[2], !.stage = "salt"]
          /\ crCache' = crCache
      BY <1>3 DEF get_cr_version
    <2>2. crCache[2] \in Heard
      BY <1>3 DEF KeptTyped, Heard
    <2>3. WriteTyped'
      BY <2>1, <2>2 DEF WriteInv, WriteTyped
    <2>4. /\ write'.stage = "salt" /\ write'.token.cr = crCache[2]
          /\ write'.token.version = write.token.version
          /\ write'.token.digest = write.token.digest
          /\ write'.token.field = write.token.field
          /\ write'.excused = write.excused /\ write'.verdict = write.verdict
      BY <2>1 DEF WriteInv, WriteTyped
    <2> QED
      BY <1>1, <1>2, <1>3, <2>1, <2>3, <2>4
         DEF WriteInv, Cached, TokenKnown, TokenFits, KeptTyped
  <1>4. CASE get_cr_version(write.token.version) /\ up
                /\ ~(crCache # Nil /\ crCache[1] = write.token.version)
    <2>1. /\ write' = [write EXCEPT !.token.cr = fw, !.stage = "salt"]
          /\ crCache' = <<write.token.version, fw>>
      BY <1>4 DEF get_cr_version
    <2>2. fw \in Heard
      BY <1>1 DEF Heard
    <2>3. WriteTyped'
      BY <2>1, <2>2 DEF WriteInv, WriteTyped
    <2>4. /\ write'.stage = "salt" /\ write'.token.cr = fw
          /\ write'.token.version = write.token.version
          /\ write'.token.digest = write.token.digest
          /\ write'.token.field = write.token.field
          /\ write'.excused = write.excused /\ write'.verdict = write.verdict
      BY <2>1 DEF WriteInv, WriteTyped
    <2>5. KeptTyped'
      BY <1>1, <2>1 DEF KeptTyped
    <2> QED
      BY <1>1, <1>2, <2>1, <2>3, <2>4, <2>5
         DEF WriteInv, Cached, TokenKnown, TokenFits
  <1>5. CASE _read_operands /\ up
    <2>1. /\ write' = [write EXCEPT !.token.version = fw, !.token.cr = fw,
                                    !.stage = "salt"]
          /\ crCache' = crCache
      BY <1>5 DEF _read_operands
    <2>2. fw \in Heard
      BY <1>1 DEF Heard
    <2>3. WriteTyped'
      BY <2>1, <2>2 DEF WriteInv, WriteTyped
    <2>4. /\ write'.stage = "salt" /\ write'.token.cr = fw
          /\ write'.token.version = fw
          /\ write'.token.digest = write.token.digest
          /\ write'.token.field = write.token.field
          /\ write'.excused = write.excused /\ write'.verdict = write.verdict
      BY <2>1 DEF WriteInv, WriteTyped
    <2> QED
      BY <1>1, <1>2, <2>1, <2>3, <2>4
         DEF WriteInv, Cached, TokenKnown, TokenFits, KeptTyped
  <1>6. CASE Fail /\ crCache' = crCache
    <2>1. KeptTyped'
      BY <1>1, <1>6 DEF KeptTyped
    <2> QED
      BY <1>1, <1>6, <2>1, FailInv
  <1> QED
    BY <1>3, <1>4, <1>5, <1>6 DEF get_ad, get_cr_version, _read_operands

LEMMA RdInv ==
  ASSUME RouterTyped, KeptTyped, WriteInv, get_rd
  PROVE  WriteInv'
  <1>1. UNCHANGED <<fw, profile, crCache>> /\ write.stage = "salt" /\ KeptTyped'
    BY DEF get_rd, KeptTyped
  <1>2. CASE ~up
    BY <1>1, <1>2, FailInv DEF get_rd
  <1>3. CASE up
    <2>1. write' = [write EXCEPT !.stage = "send"]
      BY <1>3 DEF get_rd, Step
    <2>2. WriteTyped' /\ write'.stage = "send" /\ write'.token = write.token
          /\ write'.excused = write.excused /\ write'.verdict = write.verdict
      BY <2>1 DEF WriteInv, WriteTyped
    <2>3. Whole(profile, fw)' <=> Whole(profile, fw)
      BY <1>1 DEF Whole
    <2> QED
      BY <1>1, <2>2, <2>3 DEF WriteInv, Cached, TokenKnown, TokenFits
  <1> QED
    BY <1>2, <1>3

\* A token without excuse is the router's own, or not asked for.
LEMMA SentInv ==
  ASSUME RouterTyped, KeptTyped, WriteInv, Sent
  PROVE  WriteInv'
  <1> DEFINE verdict == IF ~up THEN "failed"
                        ELSE IF Accepts(write.token) THEN "accepted" ELSE "refused"
  <1>1. /\ UNCHANGED <<fw, profile, crCache>> /\ write.stage = "send" /\ KeptTyped'
        /\ write' = [Idle EXCEPT !.excused = write.excused, !.verdict = verdict]
    BY DEF Sent, KeptTyped
  <1>2. ~write.excused => Accepts(write.token)
    BY <1>1 DEF WriteInv, TokenKnown, Accepts
  <1>3. verdict = "refused" => write.excused
    BY <1>2
  <1>4. verdict \in {Nil, "accepted", "refused", "failed"} /\ write.excused \in BOOLEAN
    BY DEF WriteInv, WriteTyped
  <1> HIDE DEF verdict
  <1>5. write' = [stage |-> "idle", token |-> NoToken, excused |-> write.excused,
                  verdict |-> verdict]
    BY <1>1 DEF Idle
  <1> QED
    BY <1>1, <1>3, <1>4, <1>5, OverInv

\* A write under way that sees another profile is excused.
LEMMA SeenInv ==
  ASSUME WriteInv, fw' = fw, crCache' = crCache, Seen
  PROVE  WriteInv'
  <1>1. (write.excused \/ write.stage # "idle") \in BOOLEAN
    OBVIOUS
  <1>2. /\ WriteTyped' /\ write'.stage = write.stage /\ write'.token = write.token
        /\ write'.verdict = write.verdict
        /\ write'.excused = (write.excused \/ write.stage # "idle")
    BY <1>1 DEF Seen, WriteInv, WriteTyped
  <1> QED
    BY <1>2 DEF WriteInv, Cached, TokenKnown, TokenFits

-----------------------------------------------------------------------------
(* The router, Home Assistant, and the whole.                                *)

LEMMA UpdateInv ==
  ASSUME RouterTyped, LearnerInv, ProfilesInv, WriteInv, Update
  PROVE  RouterTyped' /\ LearnerInv' /\ ProfilesInv' /\ WriteInv'
  <1>1. /\ fw' \in Firmwares /\ fw' > fw /\ fw \in Nat /\ fw' \in Nat
        /\ UNCHANGED <<up, build, profile, disk, crCache>>
    BY FirmwaresAssumption DEF Update, RouterTyped
  <1>2. LearnerInv'
    <2> DEFINE torn == learner.torn \/ learner.stage \in {"crawl", "label"}
    <2>1. learner' = [learner EXCEPT !.torn = torn] /\ torn \in BOOLEAN
      BY DEF Update, LearnerInv, LearnerTyped
    <2> HIDE DEF torn
    <2>2. LearnerTyped' /\ learner' = [learner EXCEPT !.torn = torn]
          /\ learner'.stage = learner.stage /\ learner'.read = learner.read
          /\ learner'.at = learner.at /\ learner'.again = learner.again
          /\ learner'.torn = torn
      BY <2>1 DEF LearnerInv, LearnerTyped
    <2> QED
      BY <2>2 DEF LearnerInv, Reading, torn
  <1>3. WriteInv'
    <2>1. (write.excused \/ write.stage # "idle") \in BOOLEAN
      OBVIOUS
    <2>2. /\ WriteTyped' /\ write'.stage = write.stage /\ write'.token = write.token
          /\ write'.verdict = write.verdict
          /\ write'.excused = (write.excused \/ write.stage # "idle")
      BY <2>1 DEF Update, WriteInv, WriteTyped
    <2>3. Cached'
      <3>1. crCache # Nil => crCache[1] \in Nat
        BY FirmwaresAssumption DEF ProfilesInv, KeptTyped
      <3>2. write.stage = "operands" => write.token.version \in Nat
        BY FirmwaresAssumption DEF WriteInv, Cached
      <3> QED
        BY <1>1, <2>2, <3>1, <3>2 DEF WriteInv, Cached
    <2> QED
      BY <2>2, <2>3 DEF WriteInv, TokenKnown, TokenFits
  <1>4. ProfilesInv'
    BY <1>1, ProfilesRest
  <1> QED
    BY <1>1, <1>2, <1>3, <1>4 DEF RouterTyped

LEMMA RestartInv ==
  ASSUME RouterTyped, ProfilesInv, WriteInv, Restart
  PROVE  RouterTyped' /\ LearnerInv' /\ ProfilesInv' /\ WriteInv'
  <1> PICK b \in Builds : build' = b /\ profile' = async_load_profile(b)
    BY DEF Restart
  <1>1. /\ UNCHANGED <<fw, up, disk>> /\ crCache' = Nil /\ write' = Idle
        /\ learner' = [Waiting EXCEPT !.stage = "due"]
    BY DEF Restart
  <1>2. LearnerInv'
    BY <1>1, WaitingLearner
  <1>3. ProfilesInv'
    BY <1>1 DEF async_load_profile, ProfilesInv, KeptTyped, OneFirmware, ShapeIsOurs
  <1>4. WriteInv'
    <2>1. NoToken \in [field : Spellings, version : Heard,
                       digest : Digests \cup {Nil}, cr : Heard]
          /\ FALSE \in BOOLEAN
      BY DEF NoToken, Spellings, Heard
    <2>2. WriteTyped' /\ write'.stage = "idle" /\ write'.verdict = Nil
      BY <1>1, <2>1 DEF WriteTyped, Idle
    <2> QED
      BY <1>1, <2>2, NilAssumption DEF WriteInv, Cached, TokenKnown, TokenFits
  <1> QED
    BY <1>1, <1>2, <1>3, <1>4 DEF RouterTyped

\* Every counter stays at or below its bound.
LEMMA SpentInv ==
  ASSUME SpentTyped, ProfileNext
  PROVE  SpentTyped'
  <1>1. {MaxOutages, MaxUpdates, MaxDrops, MaxRestarts} \subseteq Nat
    BY BoundsAssumption
  <1>2. CASE spent' = spent
    BY <1>2 DEF SpentTyped
  <1>3. CASE Dropped
    BY <1>1, <1>3 DEF Dropped, SpentTyped
  <1>4. CASE GoDown
    BY <1>1, <1>4 DEF GoDown, SpentTyped
  <1>5. CASE Update
    BY <1>1, <1>5 DEF Update, SpentTyped
  <1>6. CASE Restart
    BY <1>1, <1>6 DEF Restart, SpentTyped
  <1> QED
    BY <1>2, <1>3, <1>4, <1>5, <1>6
       DEF ProfileNext, Learner, Learn, crawl, Label, SaveProfile, Writer, ad_suffix,
           Version, get_ad, get_rd, Sent, ComeUp

\* The oldest firmware is one of them.
LEMMA OldestFirmware ==
  (CHOOSE f \in Firmwares : \A g \in Firmwares : f <= g) \in Firmwares
  <1>1. \E f \in Firmwares : \A g \in Firmwares : ~(<<g, f>> \in OpToRel(<, Nat))
    BY NatLessThanWellFounded, WFMin, FirmwaresAssumption
  <1>2. \E f \in Firmwares : \A g \in Firmwares : f <= g
    <2>1. PICK f \in Firmwares : \A g \in Firmwares : ~(<<g, f>> \in OpToRel(<, Nat))
      BY <1>1
    <2>2. ASSUME NEW g \in Firmwares PROVE f <= g
      <3>1. f \in Nat /\ g \in Nat /\ <<g, f>> \in Nat \X Nat
        BY FirmwaresAssumption
      <3>2. ~(<<g, f>> \in {ss \in Nat \X Nat : ss[1] < ss[2]})
        BY <2>1 DEF OpToRel
      <3> QED
        BY <3>1, <3>2
    <2> QED
      BY <2>2
  <1> QED
    BY <1>2

LEMMA ProfileInitInv == ProfileInit => ProfileIInv
  <1> SUFFICES ASSUME ProfileInit PROVE ProfileIInv
    OBVIOUS
  <1>1. RouterTyped
    BY OldestFirmware DEF ProfileInit, RouterTyped, Builds
  <1>2. SpentTyped
    BY BoundsAssumption DEF ProfileInit, SpentTyped
  <1>3. LearnerInv
    <2>1. Nothing \in [FileNames -> Heard] /\ FALSE \in BOOLEAN /\ 1 \in 1..Len(Files)
      BY FileFacts DEF Nothing, Heard
    <2>2. learner = [stage |-> "due", at |-> 1, again |-> FALSE, read |-> Nothing,
                     torn |-> FALSE, deaf |-> FALSE]
      BY DEF ProfileInit, Waiting
    <2> QED
      BY <2>1, <2>2 DEF LearnerInv, LearnerTyped, Reading
  <1>4. ProfilesInv
    BY DEF ProfileInit, ProfilesInv, KeptTyped, OneFirmware, ShapeIsOurs
  <1>5. WriteInv
    <2>1. NoToken \in [field : Spellings, version : Heard,
                       digest : Digests \cup {Nil}, cr : Heard]
          /\ FALSE \in BOOLEAN
      BY DEF NoToken, Spellings, Heard
    <2>2. WriteTyped /\ write.stage = "idle" /\ write.verdict = Nil /\ crCache = Nil
      BY <2>1 DEF ProfileInit, WriteTyped, Idle
    <2> QED
      BY <2>2, NilAssumption DEF WriteInv, Cached, TokenKnown, TokenFits
  <1> QED
    BY <1>1, <1>2, <1>3, <1>4, <1>5, ProfileParts

\* Every step of the learner, the writer, the router and Home Assistant keeps
\* the strengthening.
LEMMA ProfileNextInv == ProfileIInv /\ [ProfileNext]_profileVars => ProfileIInv'
  <1> SUFFICES ASSUME ProfileIInv, [ProfileNext]_profileVars PROVE ProfileIInv'
    OBVIOUS
  <1> USE ProfileParts, ProfilePartsNext
  <1>0. RouterTyped /\ SpentTyped /\ LearnerInv /\ ProfilesInv /\ WriteInv /\ KeptTyped
    BY DEF ProfilesInv
  <1>1. CASE UNCHANGED profileVars
    BY <1>0, <1>1, LearnerRests, ProfilesRest, WriteRests
       DEF profileVars, RouterTyped, SpentTyped
  <1>2. ASSUME ProfileNext PROVE SpentTyped'
    BY <1>0, <1>2, SpentInv
  <1>3. CASE Learn
    <2> PICK heard \in {fw, Nil} : async_learn_profile(heard)
      BY <1>3 DEF Learn
    <2>1. UNCHANGED <<fw, up, profile, disk, build, crCache, write>>
      BY DEF async_learn_profile
    <2> QED
      BY <1>0, <1>2, <1>3, <2>1, LearnInv, ProfilesRest, WriteRests
         DEF ProfileNext, Learner, RouterTyped
  <1>4. CASE crawl
    <2> PICK answered \in BOOLEAN : _fetch_text(answered)
      BY <1>4 DEF crawl
    <2>1. UNCHANGED <<fw, up, profile, disk, build, crCache, write>>
      BY DEF _fetch_text
    <2> QED
      BY <1>0, <1>2, <1>4, <2>1, FetchInv, ProfilesRest, WriteRests
         DEF ProfileNext, Learner, RouterTyped
  <1>5. CASE Label
    <2> PICK heard \in {fw, Nil} : learn_profile(heard) /\ Seen
      BY <1>5 DEF Label
    <2>1. UNCHANGED <<fw, up, disk, build, crCache>>
      BY DEF learn_profile
    <2> QED
      BY <1>0, <1>2, <1>5, <2>1, LabelInv, SeenInv DEF ProfileNext, Learner, RouterTyped
  <1>6. CASE SaveProfile
    <2>1. UNCHANGED <<fw, up, profile, build, crCache, write>>
      BY <1>6 DEF SaveProfile
    <2> QED
      BY <1>0, <1>2, <1>6, <2>1, SaveInv, WriteRests DEF ProfileNext, Learner, RouterTyped
  <1>7. ASSUME Writer PROVE ProfileIInv'
    <2>1. UNCHANGED <<fw, up, profile, disk, build, learner>>
      BY <1>7 DEF Writer, ad_suffix, Version, get_ad, get_rd, Sent
    <2>2. LearnerInv' /\ RouterTyped' /\ SpentTyped'
      BY <1>0, <1>2, <1>7, <2>1, LearnerRests DEF RouterTyped, ProfileNext
    <2>3. WriteInv'
      BY <1>0, <1>7, SuffixInv, VersionInv, AdInv, RdInv, SentInv DEF Writer
    <2>4. KeptTyped'
      <3>1. CASE get_ad
        BY <1>0, <3>1, AdInv
      <3>2. CASE crCache' = crCache
        BY <1>0, <2>1, <3>2 DEF KeptTyped
      <3> QED
        BY <1>7, <3>1, <3>2 DEF Writer, ad_suffix, Version, get_rd, Sent
    <2>5. ProfilesInv'
      BY <1>0, <2>1, <2>4 DEF ProfilesInv, OneFirmware, ShapeIsOurs
    <2> QED
      BY <2>2, <2>3, <2>5
  <1>8. ASSUME GoDown \/ ComeUp PROVE ProfileIInv'
    <2>1. /\ UNCHANGED <<fw, profile, disk, build, learner, crCache, write>>
          /\ up' \in BOOLEAN
      BY <1>8 DEF GoDown, ComeUp
    <2> QED
      BY <1>0, <1>2, <1>8, <2>1, LearnerRests, ProfilesRest, WriteRests
         DEF ProfileNext, RouterTyped
  <1>9. CASE Update
    BY <1>0, <1>2, <1>9, UpdateInv DEF ProfileNext
  <1>10. CASE Restart
    BY <1>0, <1>2, <1>10, RestartInv DEF ProfileNext
  <1> QED
    BY <1>1, <1>3, <1>4, <1>5, <1>6, <1>7, <1>8, <1>9, <1>10 DEF ProfileNext, Learner

\* The strengthening holds in every state of the component.
THEOREM ProfileInductive == ProfileSpec => []ProfileIInv
  BY ProfileInitInv, ProfileNextInv, PTL DEF ProfileSpec

\* For all firmwares, whatever their web files say: the state has its types, a
\* write whose profile speaks for the running firmware throughout is never
\* refused over its token, a profile is of one firmware, and of this build's
\* shape (get_ad, learn_profile, async_load_profile).
THEOREM ProfileIsSafe == ProfileSpec => []ProfileSafe
  <1>1. ProfileIInv => ProfileSafe
    BY DEF ProfileIInv
  <1> QED
    BY <1>1, ProfileInductive, PTL

-----------------------------------------------------------------------------
(* A learner that was answered has every file; one that was torn speaks of a  *)
(* firmware that came after the profile in use.                              *)

Heeded ==
    /\ learner.stage = "crawl" /\ ~learner.deaf =>
        /\ learner.again => spent.drops > 0
        /\ \A i \in 1..Len(Files) : i < learner.at => learner.read[Files[i]] # Nil
    /\ learner.stage = "label" /\ ~learner.deaf =>
        \A x \in FileNames : learner.read[x] # Nil

Older ==
    /\ \A p \in {profile, disk} \ {Nil} : p.firmware # Nil => p.firmware <= fw
    /\ learner.stage \in {"crawl", "label"} /\ learner.torn =>
        profile = Nil \/ profile.firmware # fw

\* The next file was answered, or the router was down.
LEMMA NextFileHeeded ==
  ASSUME RouterTyped, LearnerInv, Heeded, learner.stage = "crawl",
         NEW read \in {Nil, fw}, NEW deaf \in BOOLEAN,
         read = Nil => deaf, learner.deaf => deaf,
         learner' = [NextFile(read) EXCEPT !.deaf = deaf]
  PROVE  Heeded' /\ learner'.torn = learner.torn
  <1> DEFINE last == learner.at = Len(Files)
             at == IF last THEN 1 ELSE learner.at + 1
             stage == IF last THEN "label" ELSE learner.stage
  <1>1. learner' = [learner EXCEPT !.read[Files[learner.at]] = read, !.again = FALSE,
                        !.at = at, !.stage = stage, !.deaf = deaf]
    BY DEF NextFile, LearnerInv, LearnerTyped
  <1>2. /\ LearnerTyped /\ learner.at \in 1..4 /\ Files[learner.at] \in FileNames
        /\ fw # Nil
    BY FileFacts, NilAssumption DEF LearnerInv, LearnerTyped, RouterTyped
  <1>3. /\ last => at = 1 /\ stage = "label"
        /\ ~last => at = learner.at + 1 /\ stage = "crawl"
    OBVIOUS
  <1> HIDE DEF at, stage, last
  <1>4. /\ learner'.stage = stage /\ learner'.at = at /\ learner'.again = FALSE
        /\ learner'.deaf = deaf /\ learner'.torn = learner.torn
        /\ learner'.read = [learner.read EXCEPT ![Files[learner.at]] = read]
    BY <1>1, <1>2 DEF LearnerTyped
  <1>5. ASSUME ~deaf
        PROVE  \A i \in 1..4 : i <= learner.at => learner'.read[Files[i]] # Nil
    <2> TAKE i \in 1..4
    <2>1. read # Nil /\ Files[i] \in DOMAIN learner.read
      BY <1>2, <1>5, FileFacts DEF LearnerTyped
    <2>2. i < learner.at => learner.read[Files[i]] # Nil
      BY <1>5, FileFacts DEF Heeded
    <2> QED
      BY <1>2, <1>4, <2>1, <2>2
  <1>6. CASE last
    <2>1. learner.at = 4
      BY <1>6, FileFacts DEF last
    <2> QED
      BY <1>3, <1>4, <1>5, <1>6, <2>1, FileFacts DEF Heeded
  <1>7. CASE ~last
    BY <1>2, <1>3, <1>4, <1>5, <1>7, FileFacts DEF Heeded
  <1> QED
    BY <1>4, <1>6, <1>7

\* A second silence was not a second dropped request.
LEMMA FetchHeeded ==
  ASSUME MaxDrops \in {0, 1}, RouterTyped, LearnerInv, SpentTyped, Heeded,
         NEW answered \in BOOLEAN, _fetch_text(answered),
         \/ up /\ answered
         \/ ~up /\ ~answered /\ spent' = spent
         \/ ~answered /\ Dropped
  PROVE  Heeded' /\ learner'.torn = learner.torn
  <1>1. learner.stage = "crawl" /\ LearnerTyped
    BY DEF _fetch_text, LearnerInv
  <1>2. CASE answered
    <2>1. learner' = NextFile(fw)
      BY <1>2 DEF _fetch_text
    <2>2. NextFile(fw) = [NextFile(fw) EXCEPT !.deaf = learner.deaf]
      BY <1>1 DEF NextFile, LearnerTyped
    <2>3. fw # Nil
      BY NilAssumption DEF RouterTyped
    <2> QED
      BY <1>1, <2>1, <2>2, <2>3, NextFileHeeded DEF LearnerTyped
  <1>3. CASE ~answered /\ ~learner.again
    <2> DEFINE deaf == learner.deaf \/ ~up
    <2>1. learner' = [learner EXCEPT !.again = TRUE, !.deaf = deaf]
      BY <1>3 DEF _fetch_text
    <2>2. up => spent'.drops > 0
      BY <1>3, BoundsAssumption DEF Dropped, SpentTyped
    <2> HIDE DEF deaf
    <2>3. /\ learner'.stage = "crawl" /\ learner'.at = learner.at
          /\ learner'.read = learner.read /\ learner'.torn = learner.torn
          /\ learner'.deaf = deaf
      BY <1>1, <2>1 DEF LearnerTyped
    <2> QED
      BY <1>1, <2>2, <2>3 DEF Heeded, deaf
  <1>4. CASE ~answered /\ learner.again
    <2> DEFINE deaf == learner.deaf \/ ~up
    <2>1. learner' = [NextFile(Nil) EXCEPT !.deaf = @ \/ ~up]
      BY <1>4 DEF _fetch_text
    <2>2. learner' = [NextFile(Nil) EXCEPT !.deaf = deaf]
      BY <1>1, <2>1 DEF NextFile, LearnerTyped
    <2>3. up => spent.drops = 0
      BY <1>4, BoundsAssumption DEF Dropped, SpentTyped
    <2>4. deaf
      BY <1>1, <1>4, <2>3 DEF Heeded
    <2>5. deaf \in BOOLEAN
      OBVIOUS
    <2> HIDE DEF deaf
    <2> QED
      BY <1>1, <2>2, <2>4, <2>5, NextFileHeeded
  <1> QED
    BY <1>2, <1>3, <1>4

LEMMA KeptRests ==
  ASSUME Heeded, Older, UNCHANGED <<fw, profile, disk, learner>>,
         spent'.drops = spent.drops
  PROVE  Heeded' /\ Older'
  BY DEF Heeded, Older

LEMMA KeptInit == ProfileInit => Heeded /\ Older
  BY DEF ProfileInit, Waiting, Heeded, Older

\* What was heeded stays so, and no profile is of a firmware still to come.
LEMMA KeptNext ==
  ASSUME MaxDrops \in {0, 1}, ProfileIInv, Heeded, Older, [ProfileNext]_profileVars
  PROVE  Heeded' /\ Older'
  <1>0. RouterTyped /\ SpentTyped /\ LearnerInv /\ ProfilesInv /\ LearnerTyped
    BY ProfileParts DEF LearnerInv
  <1>1. CASE UNCHANGED profileVars
    BY <1>1, KeptRests DEF profileVars
  <1>2. CASE Learn
    <2> PICK heard \in {fw, Nil} : async_learn_profile(heard)
      BY <1>2 DEF Learn
    <2>1. UNCHANGED <<fw, profile, disk>> /\ ~learner.torn
          /\ learner.at = 1 /\ ~learner.again
      BY <1>0 DEF async_learn_profile, LearnerInv, Reading
    <2>2. CASE learner' = Waiting
      BY <2>1, <2>2 DEF Waiting, Heeded, Older
    <2>3. CASE learner' = [learner EXCEPT !.stage = "crawl", !.deaf = ~up]
      <3>1. /\ learner'.stage = "crawl" /\ learner'.at = 1
            /\ ~learner'.again /\ ~learner'.torn
        BY <1>0, <2>1, <2>3 DEF LearnerTyped
      <3> QED
        BY <2>1, <3>1, FileFacts DEF Heeded, Older
    <2> QED
      BY <2>2, <2>3 DEF async_learn_profile
  <1>3. CASE crawl
    <2> PICK answered \in BOOLEAN :
               /\ _fetch_text(answered)
               /\ \/ up /\ answered
                  \/ ~up /\ ~answered /\ spent' = spent
                  \/ ~answered /\ Dropped
      BY <1>3 DEF crawl
    <2>1. UNCHANGED <<fw, profile, disk>> /\ learner.stage = "crawl"
      BY DEF _fetch_text
    <2>2. Heeded' /\ learner'.torn = learner.torn
      BY <1>0, FetchHeeded
    <2> QED
      BY <2>1, <2>2 DEF Older
  <1>4. CASE Label
    <2> PICK heard \in {fw, Nil} : learn_profile(heard)
      BY <1>4 DEF Label
    <2>1. /\ UNCHANGED <<fw, disk>> /\ learner'.stage = "save"
          /\ profile'.firmware = heard
      BY DEF learn_profile, parse_profile, Waiting
    <2>2. fw <= fw
      BY <1>0, FirmwaresAssumption DEF RouterTyped
    <2> QED
      BY <2>1, <2>2 DEF Heeded, Older
  <1>5. CASE SaveProfile
    <2>1. UNCHANGED <<fw, profile>> /\ disk' = profile /\ learner'.stage = "off"
      BY <1>5 DEF SaveProfile, Waiting
    <2> QED
      BY <2>1 DEF Heeded, Older
  <1>6. CASE Writer \/ GoDown \/ ComeUp
    <2>1. UNCHANGED <<fw, profile, disk, learner>>
      BY <1>6 DEF Writer, ad_suffix, Version, get_ad, get_rd, Sent, GoDown, ComeUp
    <2>2. spent'.drops = spent.drops
      BY <1>0, <1>6 DEF Writer, ad_suffix, Version, get_ad, get_rd, Sent, GoDown,
                        ComeUp, SpentTyped
    <2> QED
      BY <2>1, <2>2, KeptRests
  <1>7. CASE Update
    <2>1. /\ UNCHANGED <<profile, disk>> /\ fw' > fw /\ fw \in Nat /\ fw' \in Nat
          /\ spent'.drops = spent.drops
      BY <1>0, <1>7, FirmwaresAssumption DEF Update, RouterTyped, SpentTyped
    <2>2. /\ learner'.stage = learner.stage /\ learner'.read = learner.read
          /\ learner'.at = learner.at /\ learner'.again = learner.again
          /\ learner'.deaf = learner.deaf
      BY <1>0, <1>7 DEF Update, LearnerTyped
    <2>3. \A p \in {profile, disk} \ {Nil} :
             p.firmware # Nil => p.firmware \in Nat /\ p.firmware <= fw
      BY <1>0, FirmwaresAssumption DEF ProfilesInv, KeptTyped, Profiles, Heard, Older
    <2>4. Heeded'
      BY <2>1, <2>2 DEF Heeded
    <2>5. \A p \in {profile, disk} \ {Nil} : p.firmware # Nil =>
             p.firmware <= fw' /\ p.firmware # fw'
      BY <2>1, <2>3
    <2>6. fw' # Nil
      BY <1>7, NilAssumption DEF Update
    <2> QED
      BY <2>1, <2>4, <2>5, <2>6 DEF Older
  <1>8. CASE Restart
    <2>1. UNCHANGED <<fw, disk>> /\ profile' \in {disk, Nil} /\ learner'.stage = "due"
      BY <1>8 DEF Restart, async_load_profile, Waiting
    <2> QED
      BY <2>1 DEF Heeded, Older
  <1> QED
    BY <1>1, <1>2, <1>3, <1>4, <1>5, <1>6, <1>7, <1>8 DEF ProfileNext, Learner

\* Only a label gives a profile up, and what it replaces it holds again.
LEMMA KeptStep ==
  ASSUME ProfileIInv, Heeded, Older, [ProfileNext]_profileVars, profile # Nil,
         build' = build, spent'.restarts = spent.restarts,
         NEW x \in FileNames, profile.read[x] = fw, profile.firmware = fw
  PROVE  (profile' # Nil /\ profile'.read[x] = fw) \/ learner'.deaf
  <1>0. RouterTyped /\ SpentTyped /\ LearnerInv /\ LearnerTyped
    BY ProfileParts DEF LearnerInv
  <1>1. CASE profile' = profile
    BY <1>1
  <1>2. CASE Label
    <2> PICK heard \in {fw, Nil} : learn_profile(heard)
      BY <1>2 DEF Label
    <2>1. /\ learner.stage = "label" /\ profile' = parse_profile(heard)
          /\ learner'.deaf = (learner.deaf \/ ~up)
      BY DEF learn_profile, Waiting
    <2>2. profile' \in Profiles /\ profile'.read = learner.read
      BY <1>0, <2>1 DEF parse_profile, LearnerTyped, Profiles, RouterTyped, Heard
    <2>3. ~learner.torn
      BY <2>1 DEF Older
    <2>4. learner.read[x] \in {Nil, fw}
      BY <1>0, <2>1, <2>3 DEF LearnerInv, Reading
    <2>5. ~learner.deaf => learner.read[x] = fw
      BY <2>1, <2>4 DEF Heeded
    <2> QED
      BY <2>1, <2>2, <2>5, NilAssumption
  <1>3. CASE Restart
    <2>1. spent'.restarts = spent.restarts + 1 /\ spent.restarts \in Nat
      BY <1>0, <1>3, BoundsAssumption DEF Restart, SpentTyped
    <2> QED
      BY <2>1
  <1> QED
    BY <1>1, <1>2, <1>3
       DEF ProfileNext, Learner, Learn, async_learn_profile, crawl, _fetch_text,
           SaveProfile, Writer, ad_suffix, Version, get_ad, get_rd, Sent, GoDown, ComeUp,
           Update, profileVars

\* Where at most one request is dropped, and for any number of outages, updates
\* and restarts: outside a restart, what the profile holds of the running firmware
\* is given up only by a learning that met a silent router (_fetch_text's second
\* try, learn_profile).
THEOREM FactsKept ==
  ASSUME MaxDrops \in {0, 1}
  PROVE  ProfileSpec => FactsAreKept
  <1>1. ProfileInit => ProfileIInv /\ Heeded /\ Older
    BY ProfileInitInv, KeptInit
  <1>2. ProfileIInv /\ Heeded /\ Older /\ [ProfileNext]_profileVars
            => ProfileIInv' /\ Heeded' /\ Older'
    BY ProfileNextInv, KeptNext
  <1>3. ProfileIInv /\ Heeded /\ Older /\ [ProfileNext]_profileVars =>
          [profile # Nil /\ build' = build /\ spent'.restarts = spent.restarts =>
            \A x \in FileNames :
                profile.read[x] = fw /\ profile.firmware = fw
                    => \/ profile' # Nil /\ profile'.read[x] = fw
                       \/ learner'.deaf]_profileVars
    BY KeptStep
  <1> QED
    BY <1>1, <1>2, <1>3, PTL DEF ProfileSpec, FactsAreKept

-----------------------------------------------------------------------------
(* Logging in.                                                               *)

\* What the login read itself allows its first form, unless others moved it.
ReadIsSafe ==
    login.stage \in {"ad", "first"} /\ login.read # None /\ ~login.moved =>
        left >= 2 \/ (left = 0 /\ ~locked)

\* The counters known to a login are those read since it forgot the old ones.
GuardIsOwn ==
    /\ login.stage = "version" /\ ~login.since => login_guard = Unread
    /\ login.stage \in {"ad", "first", "second"} /\ ~login.since
         /\ login.read = None => login_guard = Unread

NobodyWaits == login.stage = "none" => login.who = None

LoginIInv == TypeOK /\ ReadIsSafe /\ GuardIsOwn /\ NobodyWaits

LEMMA CountFacts ==
    /\ MAX_LOGIN_COUNT \in Nat /\ MAX_LOGIN_COUNT >= 2 /\ MAX_LOGIN_COUNT \in Counts
    /\ Counts \subseteq Nat /\ None \notin Counts /\ 0 \in Counts
    /\ \A n \in Counts : n # 0 => n - 1 \in Counts
  BY CountAssumption, UnreadAssumption DEF Counts

LEMMA ServedFacts ==
  ASSUME TypeOK
  PROVE  /\ Served \in Guards /\ Unread \in Guards
         /\ Served.attempts = None => Served = Unread
         /\ Served.attempts # None => Served.attempts = left /\ Served.locked = locked
  <1>1. left \in Counts /\ locked \in BOOLEAN /\ left # None
    BY CountFacts DEF TypeOK
  <1> QED
    BY <1>1 DEF Served, Guards, Unread

LEMMA NoLoginTyped ==
    /\ NoLogin \in [who : {None, "poll", "write"},
                    stage : {"none", "ld", "version", "ad", "first", "second"},
                    form : Forms, ad : BOOLEAN, read : Counts \cup {None},
                    moved : BOOLEAN, since : BOOLEAN]
    /\ NoLogin.stage = "none" /\ NoLogin.who = None
  BY DEF NoLogin, Forms

\* A login that ends is nobody's, and leaves nothing to be known.
LEMMA OverLogin ==
  ASSUME LoginIInv, login' = NoLogin, UNCHANGED <<device, right, learned, side>>,
         login_guard' \in Guards, left' \in Counts,
         {locked', session', reauth'} \subseteq BOOLEAN,
         health' \in {"ok", "unreachable", "withheld", "locked"}
  PROVE  LoginIInv'
  BY NoLoginTyped DEF LoginIInv, TypeOK, ReadIsSafe, GuardIsOwn, NobodyWaits

LEMMA FailsTyped ==
  ASSUME TypeOK, Fails
  PROVE  left' \in Counts /\ locked' \in BOOLEAN
  BY CountFacts DEF TypeOK, Fails

LEMMA JudgedTyped ==
  ASSUME TypeOK, NEW form, NEW answer, Judged(form, answer)
  PROVE  left' \in Counts /\ locked' \in BOOLEAN
  <1>1. CASE Fails
    BY <1>1, FailsTyped
  <1>2. CASE UNCHANGED <<left, locked>>
    BY <1>2 DEF TypeOK
  <1>3. CASE Succeeds
    BY <1>3, CountFacts DEF Succeeds
  <1> QED
    BY <1>1, <1>2, <1>3 DEF Judged

LEMMA IssueTyped == _login_lockout_issue \in {"unreachable", "withheld", "locked"}
  BY DEF _login_lockout_issue

LEMMA LoginInitInv == Init => LoginIInv
  <1> SUFFICES ASSUME Init PROVE LoginIInv
    OBVIOUS
  <1>1. login = NoLogin /\ login_guard = Unread /\ Unread \in Guards
    BY DEF Init, Guards
  <1>2. TypeOK
    BY <1>1, NoLoginTyped, CountFacts DEF Init, TypeOK
  <1> QED
    BY <1>1, <1>2, NoLoginTyped DEF LoginIInv, ReadIsSafe, GuardIsOwn, NobodyWaits

LEMMA StartInv ==
  ASSUME LoginIInv, NEW who \in {"poll", "write"}, Start(who)
  PROVE  LoginIInv'
  <1>1. login' = [NoLogin EXCEPT !.who = who, !.stage = "ld"]
    BY DEF Start
  <1>2. /\ login' \in [who : {None, "poll", "write"},
                       stage : {"none", "ld", "version", "ad", "first", "second"},
                       form : Forms, ad : BOOLEAN, read : Counts \cup {None},
                       moved : BOOLEAN, since : BOOLEAN]
        /\ login'.stage = "ld"
    BY <1>1, NoLoginTyped
  <1>3. TypeOK'
    BY <1>2 DEF Start, LoginIInv, TypeOK
  <1> QED
    BY <1>2, <1>3 DEF LoginIInv, ReadIsSafe, GuardIsOwn, NobodyWaits

LEMMA FailedInv ==
  ASSUME LoginIInv, Failed, UNCHANGED <<device, right, learned, side>>,
         login_guard' \in Guards, left' \in Counts,
         {locked', session'} \subseteq BOOLEAN
  PROVE  LoginIInv'
  <1>1. /\ login' = NoLogin /\ reauth' = reauth
        /\ health' \in {"ok", "unreachable", "withheld", "locked"}
    BY IssueTyped DEF Failed, LoginIInv, TypeOK
  <1> QED
    BY <1>1, OverLogin DEF LoginIInv, TypeOK

LEMMA GetLdInv ==
  ASSUME LoginIInv, get_ld
  PROVE  LoginIInv'
  <1>1. CASE Failed /\ UNCHANGED login_guard
    BY <1>1, FailedInv DEF get_ld, LoginIInv, TypeOK
  <1>2. CASE /\ login' = [login EXCEPT !.stage = "version"]
             /\ login_guard' = Unread
             /\ UNCHANGED <<health, reauth, used>>
    <2>1. login \in [who : {None, "poll", "write"},
                     stage : {"none", "ld", "version", "ad", "first", "second"},
                     form : Forms, ad : BOOLEAN, read : Counts \cup {None},
                     moved : BOOLEAN, since : BOOLEAN]
      BY DEF LoginIInv, TypeOK
    <2>2. /\ login' \in [who : {None, "poll", "write"},
                         stage : {"none", "ld", "version", "ad", "first", "second"},
                         form : Forms, ad : BOOLEAN, read : Counts \cup {None},
                         moved : BOOLEAN, since : BOOLEAN]
          /\ login'.stage = "version"
      BY <1>2, <2>1
    <2>3. TypeOK'
      BY <1>2, <2>2 DEF get_ld, LoginIInv, TypeOK, Guards
    <2> QED
      BY <1>2, <2>2, <2>3 DEF LoginIInv, ReadIsSafe, GuardIsOwn, NobodyWaits
  <1> QED
    BY <1>1, <1>2 DEF get_ld

\* A login the counters do not forbid starts on counters that allow it.
LEMMA RefuseInv ==
  ASSUME LoginIInv, NEW version \in BOOLEAN, login.stage = "version",
         _refuse_unsafe_login(login_guard', version),
         UNCHANGED <<device, left, locked, right, learned, session, side>>,
         login_guard' = IF version THEN Served ELSE login_guard
  PROVE  LoginIInv'
  <1>1. login_guard' \in Guards /\ Served \in Guards /\ TypeOK
    BY ServedFacts DEF LoginIInv, TypeOK
  <1>2. CASE Unsafe(login_guard')
    <2>1. /\ login' = NoLogin /\ reauth' = reauth
          /\ health' \in {"ok", "unreachable", "withheld", "locked"}
      BY <1>1, <1>2 DEF _refuse_unsafe_login, TypeOK
    <2> QED
      BY <1>1, <2>1, OverLogin DEF TypeOK
  <1>3. CASE ~Unsafe(login_guard')
    <2> DEFINE stage == IF device.username /\ version THEN "ad" ELSE "first"
               form == Primary(version)
               read == IF version THEN login_guard'.attempts ELSE None
    <2>1. login' = [login EXCEPT !.stage = stage, !.form = form, !.read = read,
                                 !.moved = FALSE]
          /\ UNCHANGED <<health, reauth>>
      BY <1>3 DEF _refuse_unsafe_login
    <2>2. stage \in {"ad", "first"} /\ form \in Forms
      BY DEF Primary, Forms
    <2>3. read \in Counts \cup {None}
      BY <1>1 DEF Guards, Unread
    <2>4. login \in [who : {None, "poll", "write"},
                     stage : {"none", "ld", "version", "ad", "first", "second"},
                     form : Forms, ad : BOOLEAN, read : Counts \cup {None},
                     moved : BOOLEAN, since : BOOLEAN]
          /\ FALSE \in BOOLEAN
      BY <1>1 DEF TypeOK
    <2>5. read # None => left >= 2 \/ (left = 0 /\ ~locked)
      <3>1. read # None => Served.attempts = left /\ Served.locked = locked
        BY <1>1, ServedFacts
      <3>2. left \in Nat
        BY <1>1, CountFacts DEF TypeOK
      <3> QED
        BY <1>3, <3>1, <3>2 DEF Unsafe
    <2>6. read = None /\ ~login.since => login_guard' = Unread
      BY <1>1, ServedFacts DEF LoginIInv, GuardIsOwn
    <2> HIDE DEF stage, form, read
    <2>7. /\ login' \in [who : {None, "poll", "write"},
                         stage : {"none", "ld", "version", "ad", "first", "second"},
                         form : Forms, ad : BOOLEAN, read : Counts \cup {None},
                         moved : BOOLEAN, since : BOOLEAN]
          /\ login'.stage \in {"ad", "first"} /\ login'.read = read
          /\ login'.since = login.since
      BY <2>1, <2>2, <2>3, <2>4
    <2>8. TypeOK'
      BY <1>1, <2>1, <2>7 DEF TypeOK
    <2>9. ReadIsSafe'
      BY <2>5, <2>7 DEF ReadIsSafe
    <2>10. GuardIsOwn'
      BY <2>6, <2>7 DEF GuardIsOwn
    <2> QED
      BY <2>7, <2>8, <2>9, <2>10 DEF LoginIInv, NobodyWaits
  <1> QED
    BY <1>2, <1>3

LEMMA GetVersionInv ==
  ASSUME LoginIInv, get_version
  PROVE  LoginIInv'
  <1>1. CASE login_guard' = Served /\ _refuse_unsafe_login(Served, TRUE)
    BY <1>1, RefuseInv DEF get_version
  <1>2. CASE UNCHANGED login_guard /\ _refuse_unsafe_login(login_guard, FALSE)
    BY <1>2, RefuseInv DEF get_version
  <1> QED
    BY <1>1, <1>2 DEF get_version

LEMMA LoginAdInv ==
  ASSUME LoginIInv, _login_ad
  PROVE  LoginIInv'
  <1>1. login.stage = "ad" /\ TypeOK /\ TRUE \in BOOLEAN
        /\ UNCHANGED <<device, left, locked, right, learned, session, login_guard,
                       side, health, reauth>>
    BY DEF _login_ad, LoginIInv
  <1>2. /\ login' \in [who : {None, "poll", "write"},
                       stage : {"none", "ld", "version", "ad", "first", "second"},
                       form : Forms, ad : BOOLEAN, read : Counts \cup {None},
                       moved : BOOLEAN, since : BOOLEAN]
        /\ login'.stage = "first" /\ login'.read = login.read
        /\ login'.moved = login.moved /\ login'.since = login.since
    <2>1. CASE login' = [login EXCEPT !.stage = "first", !.ad = TRUE]
      BY <1>1, <2>1 DEF TypeOK
    <2>2. CASE login' = [login EXCEPT !.stage = "first"]
      BY <1>1, <2>2 DEF TypeOK
    <2> QED
      BY <2>1, <2>2 DEF _login_ad
  <1>3. TypeOK'
    BY <1>1, <1>2 DEF TypeOK
  <1>4. ReadIsSafe' /\ GuardIsOwn'
    BY <1>1, <1>2 DEF LoginIInv, ReadIsSafe, GuardIsOwn
  <1> QED
    BY <1>2, <1>3, <1>4 DEF LoginIInv, NobodyWaits

\* The other form is worth a try; what was known before it still is.
LEMMA FallbackInv ==
  ASSUME LoginIInv, login.stage = "first", Fallback,
         UNCHANGED <<device, right, learned, session, login_guard, side>>,
         left' \in Counts, locked' \in BOOLEAN
  PROVE  LoginIInv'
  <1>1. TypeOK
    BY DEF LoginIInv
  <1> DEFINE form == Other(login.form)
  <1>2. form \in Forms
    <2>1. \E f \in Forms : f # login.form
      BY <1>1 DEF TypeOK, Forms
    <2> QED
      BY <2>1 DEF Other
  <1>3. login' = [login EXCEPT !.stage = "second", !.form = form]
    BY DEF Fallback
  <1> HIDE DEF form
  <1>4. /\ login' \in [who : {None, "poll", "write"},
                       stage : {"none", "ld", "version", "ad", "first", "second"},
                       form : Forms, ad : BOOLEAN, read : Counts \cup {None},
                       moved : BOOLEAN, since : BOOLEAN]
        /\ login'.stage = "second" /\ login'.read = login.read
        /\ login'.since = login.since
    BY <1>1, <1>2, <1>3 DEF TypeOK
  <1>5. TypeOK'
    BY <1>1, <1>4 DEF TypeOK, Fallback
  <1> QED
    BY <1>4, <1>5 DEF LoginIInv, ReadIsSafe, GuardIsOwn, NobodyWaits

LEMMA AnsweredInv ==
  ASSUME LoginIInv, NEW answer, Answered(answer),
         UNCHANGED <<device, right, learned, login_guard, side>>,
         left' \in Counts, locked' \in BOOLEAN
  PROVE  LoginIInv'
  <1>1. TypeOK /\ TRUE \in BOOLEAN
    BY DEF LoginIInv
  <1>2. CASE Established
    <2>1. /\ login' = NoLogin /\ session' = TRUE /\ reauth' = reauth
          /\ health' \in {"ok", "unreachable", "withheld", "locked"}
      BY <1>1, <1>2 DEF Established, _initialize_session, TypeOK
    <2> QED
      BY <1>1, <2>1, OverLogin DEF TypeOK
  <1>3. CASE Rejected /\ UNCHANGED session
    <2>1. /\ login' = NoLogin /\ reauth' \in BOOLEAN
          /\ health' \in {"ok", "unreachable", "withheld", "locked"}
      BY <1>1, <1>3, IssueTyped DEF Rejected, TypeOK
    <2> QED
      BY <1>1, <1>3, <2>1, OverLogin DEF TypeOK
  <1>4. CASE login.stage = "first" /\ Fallback /\ UNCHANGED session
    BY <1>4, FallbackInv
  <1>5. CASE Failed /\ UNCHANGED session
    BY <1>1, <1>5, FailedInv DEF TypeOK
  <1> QED
    BY <1>2, <1>3, <1>4, <1>5 DEF Answered

LEMMA AttemptInv ==
  ASSUME LoginIInv, _attempt_login
  PROVE  LoginIInv'
  <1>1. TypeOK /\ UNCHANGED <<device, right, learned, login_guard, side>>
    BY DEF LoginIInv, _attempt_login
  <1>2. ASSUME NEW a, Judged(login.form, a), Answered(a)
        PROVE  LoginIInv'
    BY <1>1, <1>2, JudgedTyped, AnsweredInv
  <1>3. ASSUME NEW a, Judged(login.form, a), Failed, UNCHANGED session
        PROVE  LoginIInv'
    <2>1. left' \in Counts /\ locked' \in BOOLEAN
      BY <1>1, <1>3, JudgedTyped
    <2> QED
      BY <1>1, <1>3, <2>1, FailedInv DEF TypeOK
  <1>4. CASE Failed /\ UNCHANGED <<left, locked, session>>
    BY <1>1, <1>4, FailedInv DEF TypeOK
  <1>5. CASE Fails /\ Answered("failure")
    BY <1>1, <1>5, FailsTyped, AnsweredInv
  <1> QED
    BY <1>2, <1>3, <1>4, <1>5 DEF _attempt_login

\* Beside a login: answers to others, other clients, timers, the user.
LEMMA SideAnswerInv ==
  ASSUME LoginIInv, SideAnswer
  PROVE  LoginIInv'
  <1> DEFINE since == login.stage # "none"
  <1>1. /\ TypeOK /\ login' = [login EXCEPT !.since = since] /\ side # None
        /\ login_guard' = side /\ side' = None /\ since \in BOOLEAN
        /\ UNCHANGED <<device, left, locked, right, learned, session, health, reauth>>
    BY DEF LoginIInv, SideAnswer
  <1>2. login.stage # "none" => since
    OBVIOUS
  <1> HIDE DEF since
  <1>3. /\ login' \in [who : {None, "poll", "write"},
                       stage : {"none", "ld", "version", "ad", "first", "second"},
                       form : Forms, ad : BOOLEAN, read : Counts \cup {None},
                       moved : BOOLEAN, since : BOOLEAN]
        /\ login'.stage = login.stage /\ login'.read = login.read
        /\ login'.moved = login.moved /\ login'.who = login.who
        /\ login'.since = since
    BY <1>1 DEF TypeOK
  <1>4. TypeOK'
    BY <1>1, <1>3 DEF TypeOK
  <1> QED
    BY <1>1, <1>2, <1>3, <1>4 DEF LoginIInv, ReadIsSafe, GuardIsOwn, NobodyWaits

LEMMA ElsewhereInv ==
  ASSUME LoginIInv, Elsewhere
  PROVE  LoginIInv'
  <1>1. /\ TypeOK /\ login' = [login EXCEPT !.moved = TRUE] /\ TRUE \in BOOLEAN
        /\ UNCHANGED <<device, learned, login_guard, side, health, reauth>>
    BY DEF LoginIInv, Elsewhere
  <1>2. left' \in Counts /\ {locked', session', right'} \subseteq BOOLEAN
    <2>1. CASE Succeeds /\ session' = FALSE /\ UNCHANGED right
      BY <1>1, <2>1, CountFacts DEF Succeeds, TypeOK
    <2>2. CASE Fails /\ UNCHANGED <<right, session>>
      BY <1>1, <2>2, FailsTyped DEF TypeOK
    <2>3. CASE right' = ~right /\ UNCHANGED <<left, locked, session>>
      BY <1>1, <2>3 DEF TypeOK
    <2> QED
      BY <2>1, <2>2, <2>3 DEF Elsewhere
  <1>3. /\ login' \in [who : {None, "poll", "write"},
                       stage : {"none", "ld", "version", "ad", "first", "second"},
                       form : Forms, ad : BOOLEAN, read : Counts \cup {None},
                       moved : BOOLEAN, since : BOOLEAN]
        /\ login'.stage = login.stage /\ login'.read = login.read
        /\ login'.moved /\ login'.since = login.since /\ login'.who = login.who
    BY <1>1 DEF TypeOK
  <1>4. TypeOK'
    BY <1>1, <1>2, <1>3 DEF TypeOK
  <1> QED
    BY <1>1, <1>3, <1>4 DEF LoginIInv, ReadIsSafe, GuardIsOwn, NobodyWaits

LEMMA BesideInv ==
  ASSUME LoginIInv, SideRead \/ EncodingLearned \/ LockEnds \/ Reauth
  PROVE  LoginIInv'
  <1>1. TypeOK /\ UNCHANGED <<device, left, session, login_guard, login, health>>
    BY DEF LoginIInv, SideRead, EncodingLearned, LockEnds, Reauth
  <1>2. /\ {locked', right', learned', reauth'} \subseteq BOOLEAN
        /\ side' \in Guards \cup {None} /\ (locked' => locked)
    <2>1. CASE SideRead
      BY <1>1, <2>1, ServedFacts DEF TypeOK, SideRead
    <2>2. CASE EncodingLearned
      BY <1>1, <2>2 DEF TypeOK, EncodingLearned
    <2>3. CASE LockEnds
      BY <1>1, <2>3 DEF TypeOK, LockEnds
    <2>4. CASE Reauth
      BY <1>1, <2>4 DEF TypeOK, Reauth
    <2> QED
      BY <2>1, <2>2, <2>3, <2>4
  <1>3. TypeOK'
    BY <1>1, <1>2 DEF TypeOK
  <1> QED
    BY <1>1, <1>2, <1>3 DEF LoginIInv, ReadIsSafe, GuardIsOwn, NobodyWaits

LEMMA LoginNextInv == LoginIInv /\ [Next]_vars => LoginIInv'
  <1> SUFFICES ASSUME LoginIInv, [Next]_vars PROVE LoginIInv'
    OBVIOUS
  <1>1. CASE UNCHANGED vars
    BY <1>1 DEF vars, LoginIInv, TypeOK, ReadIsSafe, GuardIsOwn, NobodyWaits
  <1>2. CASE \E who \in {"poll", "write"} : Start(who)
    BY <1>2, StartInv
  <1>3. CASE LoginStep
    BY <1>3, GetLdInv, GetVersionInv, LoginAdInv, AttemptInv DEF LoginStep
  <1>4. CASE SideRead \/ EncodingLearned \/ LockEnds \/ Reauth
    BY <1>4, BesideInv
  <1>5. CASE SideAnswer \/ Elsewhere
    BY <1>5, SideAnswerInv, ElsewhereInv
  <1> QED
    BY <1>1, <1>2, <1>3, <1>4, <1>5 DEF Next

\* The strengthening holds in every state of a login.
THEOREM LoginInductive == Spec => []LoginIInv
  BY LoginInitInv, LoginNextInv, PTL DEF Spec

\* For every kind of router and any number of attempts, others' moves and losses:
\* a login that read the counters itself posts its first form neither on the last
\* attempt nor into a lock, unless another client moved them (_login_unlocked).
THEOREM FirstFormSafe == Spec => FirstFormIsSafe
  <1>1. LoginIInv /\ [Next]_vars =>
          [login.stage = "first" /\ login'.stage # "first"
             /\ login.read # None /\ ~login.moved
               => left >= 2 \/ (left = 0 /\ ~locked)]_vars
    BY DEF LoginIInv, ReadIsSafe
  <1> QED
    BY <1>1, LoginInductive, PTL DEF Spec, FirstFormIsSafe

\* Without counters of its own, a login is told as unreachable.
LEMMA UnreadIssue == login_guard = Unread => _login_lockout_issue = "unreachable"
  BY CountFacts, UnreadAssumption DEF Unread, _login_lockout_issue

\* A poll whose login ends with a finding of the counters has them of its own.
LEMMA FindingOwnStep ==
  ASSUME LoginIInv, [Next]_vars, login.who = "poll", login'.stage = "none",
         login.stage # "ld", health' \in {"withheld", "locked"},
         ~login.since, login.read = None
  PROVE  login.stage = "version" /\ used' = used
  <1>1. /\ login.stage \in {"version", "ad", "first", "second"}
        /\ login_guard = Unread /\ login.stage # "none" /\ login' # login
    BY UnreadAssumption DEF LoginIInv, TypeOK, NobodyWaits, GuardIsOwn
  <1>2. ~Failed /\ ~Rejected /\ ~Established
    BY <1>1, UnreadIssue DEF Failed, Rejected, Established
  <1>3. ~(login.stage = "first" /\ Fallback)
    BY DEF Fallback, LoginIInv, TypeOK
  <1>4. ~_attempt_login
    BY <1>2, <1>3 DEF _attempt_login, Answered
  <1>5. ~_login_ad /\ ~SideAnswer /\ ~Elsewhere
    <2>1. login \in [who : {None, "poll", "write"},
                     stage : {"none", "ld", "version", "ad", "first", "second"},
                     form : Forms, ad : BOOLEAN, read : Counts \cup {None},
                     moved : BOOLEAN, since : BOOLEAN]
      BY DEF LoginIInv, TypeOK
    <2> QED
      BY <1>1, <2>1 DEF _login_ad, SideAnswer, Elsewhere
  <1>6. CASE get_version
    <2>1. ~_refuse_unsafe_login(Unread, FALSE)
      <3>1. ~Unsafe(Unread)
        BY UnreadAssumption DEF Unsafe, Unread
      <3>2. login'.stage = "none" /\ login.stage = "version"
        BY <1>6 DEF get_version
      <3> QED
        BY <3>1, <3>2 DEF _refuse_unsafe_login, LoginIInv, TypeOK
    <2> QED
      BY <1>1, <1>6, <2>1 DEF get_version
  <1> QED
    BY <1>1, <1>4, <1>5, <1>6
       DEF Next, LoginStep, Start, get_ld, SideRead, EncodingLearned, LockEnds,
           Reauth, vars

\* The user is asked after a rejection by name, and one needs a wrong password.
LEMMA ReauthStep ==
  ASSUME [Next]_vars, ~reauth, reauth'
  PROVE  Wrong
  <1>1. _attempt_login
    BY DEF Next, LoginStep, Start, get_ld, Failed, get_version, _refuse_unsafe_login,
           _login_ad, SideRead, SideAnswer, EncodingLearned, Elsewhere, LockEnds,
           Reauth, vars
  <1>2. PICK a : Judged(login.form, a) /\ a = "password"
    BY <1>1 DEF _attempt_login, Answered, Established, Failed, Fallback
  <1> QED
    BY <1>2 DEF Judged

\* For every kind of router, whatever others do and the network loses: the state
\* has its types, a lockout or a withheld login in the health of a poll is told
\* from counters read during its own login, and the user is asked for the password
\* only where the router does not take it as sent (_login_lockout_issue, _attempt_login).
THEOREM FailuresTold == Spec => FailuresAreTold
  <1>1. LoginIInv /\ [Next]_vars =>
          [login.who = "poll" /\ login'.stage = "none" /\ login.stage # "ld"
             /\ health' \in {"withheld", "locked"}
               => \/ login.since \/ login.read # None
                  \/ login.stage = "version" /\ used' = used]_vars
    BY FindingOwnStep
  <1>2. [Next]_vars => [~reauth /\ reauth' => Wrong]_vars
    BY ReauthStep
  <1>3. LoginIInv => TypeOK
    BY DEF LoginIInv
  <1> QED
    BY <1>1, <1>2, <1>3, LoginInductive, PTL
       DEF Spec, FailuresAreTold, FindingIsOwn, ReauthIsEarned
=============================================================================
