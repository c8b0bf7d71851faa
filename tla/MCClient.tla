------------------------------ MODULE MCClient ------------------------------
(***************************************************************************)
(* One run for two components that meet only where Login says (the version *)
(* reads of the writes and of the profile, SideRead, and the encoding the  *)
(* profile supplies, EncodingLearned): `part` tells which of the two moves *)
(* in a behaviour, while the other rests in an initial state.              *)
(***************************************************************************)
EXTENDS Login, DeviceProfile

VARIABLE part

clientVars == <<part, vars, profileVars>>

\* Seven routers: with and without a user name, by the forms they take,
\* whether they serve their counters, whether an unknown form costs an attempt
\* and how they want the password.
Router(accepts, serves, costs, username, multi, scheme) ==
    [accepts |-> accepts, serves |-> serves, costs |-> costs,
     username |-> username, multi |-> multi, scheme |-> scheme]

MCRouters == {
    Router({"LOGIN"}, TRUE, TRUE, FALSE, FALSE, "salted"),
    Router({"LOGIN"}, TRUE, FALSE, TRUE, TRUE, "salted"),
    Router({"LOGIN"}, TRUE, TRUE, TRUE, TRUE, "salted"),
    Router({"LOGIN_MULTI_USER"}, TRUE, TRUE, TRUE, TRUE, "plain"),
    Router({"LOGIN_MULTI_USER"}, TRUE, FALSE, TRUE, FALSE, "salted"),
    Router(Forms, FALSE, TRUE, TRUE, TRUE, "salted"),
    Router(Forms, FALSE, TRUE, FALSE, FALSE, "plain") }

\* Three firmwares: the digest by its name in the table; another one, a hop
\* away in util.js, that the model string does not tell, with other field
\* names; one whose gate flag is off, with other operands to read.
MCWeb == <<
    [fields |-> "canonical", digest |-> "md5", named |-> TRUE, model |-> "md5",
     operands |-> "cr_version", gateOff |-> FALSE],
    [fields |-> "prefixed", digest |-> "sha256", named |-> FALSE,
     model |-> "md5", operands |-> "cr_version", gateOff |-> FALSE],
    [fields |-> "prefixed", digest |-> "sha256", named |-> TRUE,
     model |-> "sha256", operands |-> "other", gateOff |-> TRUE] >>

ClientInit ==
    /\ Init /\ ProfileInit
    /\ \/ part = "login"
       \/ part = "profile" /\ device = CHOOSE d \in Routers : TRUE

LoginPart(A) == part = "login" /\ A /\ UNCHANGED <<part, profileVars>>
ProfilePart(A) == part = "profile" /\ A /\ UNCHANGED <<part, vars>>

ClientNext == LoginPart(Next) \/ ProfilePart(ProfileNext)

ClientSpec ==
    /\ ClientInit /\ [][ClientNext]_clientVars
    /\ WF_clientVars(LoginPart(LoginStep))
    /\ SF_clientVars(LoginPart(Start("poll")))
    /\ WF_clientVars(LoginPart(LockEnds))
    /\ WF_clientVars(LoginPart(EncodingLearned))
    /\ WF_clientVars(ProfilePart(Learner))
    /\ WF_clientVars(ProfilePart(ComeUp))
=============================================================================
