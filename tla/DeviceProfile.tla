--------------------------- MODULE DeviceProfile ---------------------------
(***************************************************************************)
(* What the router's own web files say of a write (device_profile.py,      *)
(* web_sources.py), how the coordinator learns it in the background and    *)
(* keeps it on disk, and the AD token that a write derives from it: the    *)
(* digest, the operands and the salt (api.py, get_ad).                     *)
(*                                                                         *)
(* A web file is one of Files, in the order of the crawl; what a firmware  *)
(* writes in its files is the record Web[f], and a fact read from a file   *)
(* is told by the firmware whose file it was.  A token is the digest and   *)
(* the firmwares its operands were read from.                              *)
(***************************************************************************)
EXTENDS Naturals, Sequences, FiniteSets

CONSTANTS
    Firmwares,      \* the versions wa_inner_version may name, oldest first
    Web,            \* firmware -> what its files say: fields (of the payloads),
                    \*   digest, named (in the table of names), operands,
                    \*   gateOff; and model, the digest its name suggests
    Nil,
    MaxOutages, MaxUpdates, MaxDrops, MaxRestarts  \* bounds of the runs

WebFiles == [fields : {"canonical", "prefixed"}, digest : {"md5", "sha256"},
             named : BOOLEAN, model : {"md5", "sha256"},
             operands : {"cr_version", "other"}, gateOff : BOOLEAN]
ASSUME WebAssumption == Web \in [Firmwares -> WebFiles]
ASSUME FirmwaresAssumption == Firmwares \in SUBSET Nat /\ Firmwares # {}

Builds == {1, 2}                 \* values of PROFILE_VERSION
Files == <<"main", "service", "util", "config">>
FileNames == {Files[i] : i \in DOMAIN Files}
Heard == Firmwares \cup {Nil}   \* a version read, or no answer
Digests == {"md5", "sha256"}

VARIABLES
    fw, up,         \* the router's firmware, and whether it answers
    profile,        \* api.profile: Nil, or what was learned
    disk,           \* the profile store
    build,          \* the PROFILE_VERSION of the running integration
    learner,        \* async_learn_profile: its stage and what it has read
    crCache,        \* _cr_version_cache
    write,          \* one write's token on its way
    spent           \* outages, updates, drops, restarts so far

profileVars == <<fw, up, profile, disk, build, learner, crCache, write, spent>>

Nothing == [x \in FileNames |-> Nil]
Profiles == [profile_version : Builds, firmware : Heard,
             read : [FileNames -> Heard], torn : BOOLEAN]
ASSUME NilAssumption ==
    /\ Nil \notin Firmwares /\ Nil \notin Digests /\ Nil \notin Profiles
    /\ Nil \notin {"accepted", "refused", "failed"}
ASSUME BoundsAssumption ==
    {MaxOutages, MaxUpdates, MaxDrops, MaxRestarts} \subseteq Nat
Spellings == {"canonical", "prefixed"}
NoToken == [field |-> "canonical", version |-> Nil, digest |-> Nil, cr |-> Nil]
Waiting == [stage |-> "off", at |-> 1, again |-> FALSE, read |-> Nothing,
            torn |-> FALSE, deaf |-> FALSE]
Idle == [stage |-> "idle", token |-> NoToken, excused |-> FALSE, verdict |-> Nil]

\* Type invariant: the profile, its stored copy, the learner and the write
\* stay in range.
ProfileTypeOK ==
    /\ fw \in Firmwares /\ up \in BOOLEAN /\ build \in Builds
    /\ profile \in Profiles \cup {Nil}
    /\ disk \in Profiles \cup {Nil}
    /\ learner \in [stage : {"off", "due", "crawl", "label", "save"},
                    at : 1..Len(Files), read : [FileNames -> Heard],
                    again : BOOLEAN, torn : BOOLEAN, deaf : BOOLEAN]
    /\ crCache \in {Nil} \cup (Firmwares \X Firmwares)
    /\ write \in [stage : {"idle", "version", "operands", "salt", "send"},
                  token : [field : Spellings, version : Heard,
                           digest : Digests \cup {Nil}, cr : Heard],
                  excused : BOOLEAN,
                  verdict : {Nil, "accepted", "refused", "failed"}]
    /\ spent \in [outages : 0..MaxOutages, updates : 0..MaxUpdates,
                  drops : 0..MaxDrops, restarts : 0..MaxRestarts]

ProfileInit ==
    /\ fw = CHOOSE f \in Firmwares : \A g \in Firmwares : f <= g
    /\ up = TRUE /\ build = 1
    /\ profile = Nil /\ disk = Nil
    /\ learner = [Waiting EXCEPT !.stage = "due"]
    /\ crCache = Nil
    /\ write = Idle
    /\ spent = [outages |-> 0, updates |-> 0, drops |-> 0, restarts |-> 0]

-----------------------------------------------------------------------------
(* What a profile says: each fact by itself, with the fallback where it     *)
(* was not learned.                                                         *)

\* The digest named by the token expression: by the table, or one hop away.
_resolve_digest(p) ==
    LET s == p.read["service"]
        u == p.read["util"]
    IN  IF s = Nil THEN Nil
        ELSE IF Web[s].named THEN Web[s].digest
        ELSE IF u # Nil /\ ~Web[u].named THEN Web[u].digest
        ELSE Nil

_model_hash_func(version) == Web[version].model

_ad_hash_func(p, version) ==
    IF p = Nil \/ _resolve_digest(p) = Nil
    THEN _model_hash_func(version)
    ELSE _resolve_digest(p)

\* The payload fields a command's builder names in the service file.
parse_commands(service) == Web[service].fields

\* The name a command's own builder gives a payload field.
profile_field(p) ==
    IF p = Nil \/ p.read["service"] = Nil THEN "canonical"
    ELSE parse_commands(p.read["service"])

\* The operands of the token expression in the main script.
parse_token(main) == Web[main].operands

\* The two readings that make the first operand.
Operands(p) ==
    IF p = Nil \/ p.read["main"] = Nil THEN "cr_version"
    ELSE parse_token(p.read["main"])

\* Whether the flags of the config file switch the token off.
parse_flags(config) == Web[config].gateOff

\* The gate flag is named by the token expression, its value by config.js.
_token_required(p) ==
    \/ p = Nil
    \/ p.read["service"] = Nil
    \/ p.read["config"] = Nil
    \/ ~parse_flags(p.read["config"])

\* The profile in use is whole and of firmware f.
Whole(p, f) == p # Nil /\ p.firmware = f /\ p.read = [x \in FileNames |-> f]

-----------------------------------------------------------------------------
(* Learning: version, crawl, version again, save.                           *)

\* The router drops one request (of a bounded number) that it could answer.
Dropped == up /\ spent.drops < MaxDrops
           /\ spent' = [spent EXCEPT !.drops = @ + 1]

\* Variant: the profile is given up as soon as it is to be learned again.
LearnAfresh(heard) ==
    /\ learner.stage = "due"
    /\ IF heard # Nil /\ profile # Nil /\ profile.firmware = heard
       THEN learner' = Waiting /\ UNCHANGED profile
       ELSE /\ learner' = [learner EXCEPT !.stage = "crawl", !.deaf = ~up]
            /\ profile' = Nil
    /\ UNCHANGED <<fw, up, disk, build, crCache, write>>

\* Variant: any profile is taken for a current one.
LearnOnce(heard) ==
    /\ learner.stage = "due"
    /\ learner' = IF profile # Nil THEN Waiting
                  ELSE [learner EXCEPT !.stage = "crawl", !.deaf = ~up]
    /\ UNCHANGED <<fw, up, profile, disk, build, crCache, write>>

\* get_version answers None where the router does not: the learner then goes
\* on, as for another firmware.
async_learn_profile(heard) ==
    /\ learner.stage = "due"
    /\ learner' = IF heard # Nil /\ profile # Nil /\ profile.firmware = heard
                  THEN Waiting
                  ELSE [learner EXCEPT !.stage = "crawl", !.deaf = ~up]
    /\ UNCHANGED <<fw, up, profile, disk, build, crCache, write>>

Learn == \/ up /\ async_learn_profile(fw) /\ UNCHANGED spent
         \/ ~up /\ async_learn_profile(Nil) /\ UNCHANGED spent
         \/ Dropped /\ async_learn_profile(Nil)

\* The next file, kept or missed.
NextFile(read) ==
    LET last == learner.at = Len(Files)
    IN  [learner EXCEPT !.read[Files[learner.at]] = read, !.again = FALSE,
                        !.at = IF last THEN 1 ELSE @ + 1,
                        !.stage = IF last THEN "label" ELSE @]

\* A file that drew no answer at all is fetched once more.
_fetch_text(answered) ==
    /\ learner.stage = "crawl"
    /\ learner' = IF answered THEN NextFile(fw)
                  ELSE IF ~learner.again
                       THEN [learner EXCEPT !.again = TRUE, !.deaf = @ \/ ~up]
                       ELSE [NextFile(Nil) EXCEPT !.deaf = @ \/ ~up]
    /\ UNCHANGED <<fw, up, profile, disk, build, crCache, write>>

crawl == \/ up /\ _fetch_text(TRUE) /\ UNCHANGED spent
         \/ ~up /\ _fetch_text(FALSE) /\ UNCHANGED spent
         \/ Dropped /\ _fetch_text(FALSE)

\* Variant: what a file did not tell is taken over from the profile before.
ParsedOver(heard) ==
    [profile_version |-> build, firmware |-> heard, torn |-> learner.torn,
     read |-> [x \in FileNames |->
                 IF learner.read[x] = Nil /\ profile # Nil
                 THEN profile.read[x] ELSE learner.read[x]]]

\* learn_profile's own version read names the firmware of what was crawled.
parse_profile(heard) ==
    [profile_version |-> build, firmware |-> heard, read |-> learner.read,
     torn |-> learner.torn]

learn_profile(heard) ==
    /\ learner.stage = "label"
    /\ profile' = parse_profile(heard)
    /\ learner' = [Waiting EXCEPT !.stage = "save", !.torn = learner.torn,
                                  !.deaf = learner.deaf \/ ~up]
    /\ UNCHANGED <<fw, up, disk, build, crCache>>

\* A write under way from here on has seen more than one profile.
Seen == write' = [write EXCEPT !.excused = @ \/ write.stage # "idle"]

Label == \/ up /\ learn_profile(fw) /\ Seen /\ UNCHANGED spent
         \/ ~up /\ learn_profile(Nil) /\ Seen /\ UNCHANGED spent
         \/ Dropped /\ learn_profile(Nil) /\ Seen

SaveProfile ==
    /\ learner.stage = "save"
    /\ disk' = profile
    /\ learner' = Waiting
    /\ UNCHANGED <<fw, up, profile, build, crCache, write, spent>>

-----------------------------------------------------------------------------
(* One write's token.                                                       *)

Step(stage) == write' = [write EXCEPT !.stage = stage]
Fail == write' = [Idle EXCEPT !.verdict = "failed"]

\* A write names its fields and asks whether it needs a token; the profile it
\* starts from speaks for the running firmware or not.
ad_suffix ==
    /\ write.stage = "idle"
    /\ write' = [Idle EXCEPT
                   !.token.field = profile_field(profile),
                   !.stage = IF _token_required(profile) THEN "version" ELSE "send",
                   !.excused = ~Whole(profile, fw)]
    /\ UNCHANGED <<fw, up, profile, disk, build, learner, crCache, spent>>

Version ==
    /\ write.stage = "version"
    /\ IF up THEN write' = [write EXCEPT !.stage = "operands",
                              !.token.version = fw,
                              !.token.digest = _ad_hash_func(profile, fw)]
             ELSE Fail
    /\ UNCHANGED <<fw, up, profile, disk, build, learner, crCache, spent>>

\* cr_version is kept against the version it was read with.
get_cr_version(version) ==
    IF crCache # Nil /\ crCache[1] = version
    THEN /\ write' = [write EXCEPT !.token.cr = crCache[2], !.stage = "salt"]
         /\ UNCHANGED crCache
    ELSE IF up
    THEN /\ write' = [write EXCEPT !.token.cr = fw, !.stage = "salt"]
         /\ crCache' = <<version, fw>>
    ELSE Fail /\ UNCHANGED crCache

\* A firmware with other operands is read as it names them, all at once.
_read_operands ==
    /\ IF up THEN write' = [write EXCEPT !.token.version = fw, !.token.cr = fw,
                                         !.stage = "salt"]
             ELSE Fail
    /\ UNCHANGED crCache

get_ad ==
    /\ write.stage = "operands"
    /\ \/ Operands(profile) = "cr_version" /\ get_cr_version(write.token.version)
       \/ Operands(profile) # "cr_version" /\ _read_operands
    /\ UNCHANGED <<fw, up, profile, disk, build, learner, spent>>

get_rd ==
    /\ write.stage = "salt"
    /\ IF up THEN Step("send") ELSE Fail
    /\ UNCHANGED <<fw, up, profile, disk, build, learner, crCache, spent>>

\* The router's verdict: the field names of its own firmware, and its token
\* unless it asks for none.
Accepts(token) ==
    /\ token.field = Web[fw].fields
    /\ \/ Web[fw].gateOff
       \/ /\ token.version = fw /\ token.cr = fw
          /\ token.digest = Web[fw].digest

Sent ==
    /\ write.stage = "send"
    /\ write' = [Idle EXCEPT !.excused = write.excused,
                   !.verdict = IF ~up THEN "failed"
                               ELSE IF Accepts(write.token) THEN "accepted"
                               ELSE "refused"]
    /\ UNCHANGED <<fw, up, profile, disk, build, learner, crCache, spent>>

-----------------------------------------------------------------------------
(* The router and Home Assistant.                                           *)

GoDown ==
    /\ up /\ spent.outages < MaxOutages
    /\ up' = FALSE
    /\ spent' = [spent EXCEPT !.outages = @ + 1]
    /\ UNCHANGED <<fw, profile, disk, build, learner, crCache, write>>

ComeUp ==
    /\ ~up /\ up' = TRUE
    /\ UNCHANGED <<fw, profile, disk, build, learner, crCache, write, spent>>

\* An update is installed while the router restarts.
Update ==
    /\ ~up /\ spent.updates < MaxUpdates
    /\ \E f \in Firmwares : f > fw /\ fw' = f
    /\ learner' = [learner EXCEPT !.torn = @ \/ learner.stage \in {"crawl", "label"}]
    /\ write' = [write EXCEPT !.excused = @ \/ write.stage # "idle"]
    /\ spent' = [spent EXCEPT !.updates = @ + 1]
    /\ UNCHANGED <<up, profile, disk, build, crCache>>

\* A stored record of another shape is discarded.
async_load_profile(b) ==
    IF disk # Nil /\ disk.profile_version = b THEN disk ELSE Nil

\* A reload or restart, perhaps onto another build: what is in memory is gone,
\* the stored profile is read, and the learner is due after the first poll.
Restart ==
    /\ spent.restarts < MaxRestarts
    /\ \E b \in Builds :
        /\ b >= build
        /\ build' = b
        /\ profile' = async_load_profile(b)
    /\ learner' = [Waiting EXCEPT !.stage = "due"]
    /\ crCache' = Nil
    /\ write' = Idle
    /\ spent' = [spent EXCEPT !.restarts = @ + 1]
    /\ UNCHANGED <<fw, up, disk>>

Learner == Learn \/ crawl \/ Label \/ SaveProfile
Writer == ad_suffix \/ Version \/ get_ad \/ get_rd \/ Sent

ProfileNext == Learner \/ Writer \/ GoDown \/ ComeUp \/ Update \/ Restart

\* Fairness: the background task runs on, and a router that restarts comes
\* back.
ProfileSpec == ProfileInit /\ [][ProfileNext]_profileVars
               /\ WF_profileVars(Learner) /\ WF_profileVars(ComeUp)

-----------------------------------------------------------------------------
\* Safety: while the profile in use is whole and of the running firmware from
\* a write's first step to its last, and the router is not updated under it,
\* its token is the router's own: no refusal over the token.
TokenFits == write.verdict = "refused" => write.excused

\* Safety: the firmware a profile, in memory or on disk, is kept under is the
\* one its files were served by, unless the router was updated between the
\* first file and the version read that names it.
OneFirmware ==
    \A p \in {profile, disk} \ {Nil} :
        p.torn \/ p.firmware = Nil
        \/ \A x \in FileNames : p.read[x] \in {Nil, p.firmware}

\* Safety: a profile of another build's shape is never in use.
ShapeIsOurs == profile # Nil => profile.profile_version = build

\* Action property: outside a restart, a fact the profile holds of the running
\* firmware is given up only by a learning that the router met with silence; a
\* single dropped request never costs one.
FactsAreKept ==
    [][profile # Nil /\ build' = build /\ spent'.restarts = spent.restarts =>
        \A x \in FileNames :
            profile.read[x] = fw /\ profile.firmware = fw
                => \/ profile' # Nil /\ profile'.read[x] = fw
                   \/ learner'.deaf]_profileVars

\* Liveness: a learner that is due, of a router that is up for good, leaves a
\* profile of the firmware that runs.
Settled == up /\ spent.outages = MaxOutages
ProfileIsLearned ==
    (learner.stage = "due" /\ Settled /\ spent.drops = MaxDrops)
        ~> (profile # Nil /\ profile.firmware = fw)

\* The profile in use and the token made from it belong to the router's own
\* firmware; and the state has its types.
ProfileSafe == ProfileTypeOK /\ TokenFits /\ OneFirmware /\ ShapeIsOurs
=============================================================================
