--------------------------- MODULE SensorSessions ---------------------------
(***************************************************************************)
(* One connection to a sensor of the agent (agent/internal/sensors): ssh,  *)
(* http_login, smb (SMB1 and SMB2) and rdp, and one file of file_watch.    *)
(*                                                                         *)
(* Every operator gives the steps a session may take next, as pairs of the *)
(* next session and what it reports.  A report is one synchronous request  *)
(* to the console, so the session waits for it.  A read that fails, runs   *)
(* into its deadline or cannot be parsed ends the session.  Messages are   *)
(* kinds; names, responses and layouts are left out.                       *)
(***************************************************************************)
EXTENDS Naturals, Sequences, FiniteSets

Protocols == {"ssh", "http_login", "smb", "rdp"}
Probes == {"smb", "rdp"}  \* served by tcpserver.go, with deadlines

Offers == {"none", "tls", "credssp(nla)", "tls+credssp"}
Challenges == {1, 2}      \* random ones; 0 is eight zero bytes

Events == {"probe", "negotiate", "connection_request", "credentials",
           "credential_attempt", "command_execution", "login"}

\* chal: the challenge the session would score credentials with; issued:
\* history, the last one that was sent; confirm: how RDP answered the offer.
Session ==
    [proto : Protocols, stage : {"head", "reply", "upgrade", "setup", "failing", "shell", "closed"},
     variant : {"plain", "ext", "legacy", "smb2", "credssp"}, round : 0..3,
     chal : {0} \cup Challenges, issued : {0} \cup Challenges,
     offer : Offers, confirm : {"no", "bare", "tls", "hybrid"},
     waiting : BOOLEAN, told : [Events -> 0..4]]

Accepted(proto) ==
    [proto |-> proto, stage |-> "head", variant |-> "plain", round |-> 0, chal |-> 0,
     issued |-> 0, offer |-> "none", confirm |-> "no", waiting |-> FALSE,
     told |-> [e \in Events |-> 0]]

End(s) == [s EXCEPT !.stage = "closed"]

\* Nothing of a session outlives it.
Settled(s) == IF s.stage = "closed" /\ ~s.waiting THEN End(Accepted("ssh")) ELSE s

Silent(s) == [next |-> Settled(s), report |-> {}]
Reports(s, event, severity) ==
    [next |-> [s EXCEPT !.waiting = TRUE, !.told[event] = IF @ < 4 THEN @ + 1 ELSE 4],
     report |-> {[event |-> event, sev |-> severity, scored |-> s.chal, due |-> s.issued]}]

-----------------------------------------------------------------------------
(* NTLM, under SMB1 with extended security, SMB2 and CredSSP.              *)

\* A random challenge; two values are enough to tell it from the last one.
BuildChallenge(s) == (s.issued % 2) + 1

Rounds(s) == IF s.variant = "credssp" THEN 3 ELSE 4

\* Variant: the rounds are not counted.
NextRound_NotCounted(s) == [s EXCEPT !.stage = "setup"]

\* The last round ends the session.
NextRound(s) == IF s.round + 1 = Rounds(s) THEN End(s) ELSE [s EXCEPT !.round = @ + 1]

\* Variant: the challenge is a variable of the round.
Challenged_PerRound(s) == [NextRound(s) EXCEPT !.chal = 0, !.issued = BuildChallenge(s)]

\* NEGOTIATE was answered by a challenge.
Challenged(s) ==
    [NextRound(s) EXCEPT !.chal = BuildChallenge(s), !.issued = BuildChallenge(s)]

\* What an AUTHENTICATE gives away, scored against the session's challenge.
Credentials(s) == Reports([s EXCEPT !.stage = "failing"], "credentials", "high")

\* One round: NEGOTIATE, AUTHENTICATE, or anything else.
NtlmRound(s) == {Silent(Challenged(s)), Silent(End(s)), Credentials(s)}

-----------------------------------------------------------------------------
(* SMB.                                                                    *)

\* A message, framed by NetBIOS or not, that does not arrive in time, is too
\* long or is none.
Unreadable(s) == Silent(End(s))

\* The first message.  SMB2 is told by 0x24 in the header's
\* size field: a client that writes 64 there is taken for SMB1.
SmbHead(s) ==
    {Unreadable(s), Reports(End(s), "probe", "medium"), Reports(End(s), "negotiate", "high")}
    \cup {Reports([s EXCEPT !.stage = "reply", !.variant = v], "negotiate", "high") :
            v \in {"ext", "legacy"}}
    \cup {Reports([s EXCEPT !.stage = "setup", !.variant = "smb2"], "negotiate", "high")}

\* SMB1 answers the negotiation after it was reported: a legacy client gets the
\* challenge at once.
Smb1Reply(s) ==
    {Silent(End(s)),
     Silent(IF s.variant = "legacy"
            THEN [s EXCEPT !.stage = "setup", !.chal = BuildChallenge(s), !.issued = BuildChallenge(s)]
            ELSE [s EXCEPT !.stage = "setup"])}

\* A session setup without SPNEGO is the only one.
LegacySetup(s) ==
    {Unreadable(s), Credentials(s)}

Smb(s) ==
    CASE s.stage = "head" -> SmbHead(s)
      [] s.stage = "reply" -> Smb1Reply(s)
      [] s.stage = "setup" /\ s.variant = "legacy" -> LegacySetup(s)
      [] s.stage = "setup" /\ s.variant # "legacy" -> NtlmRound(s)
      [] s.stage = "failing" -> {Silent(End(s))}   \* LOGON_FAILURE

-----------------------------------------------------------------------------
(* RDP.                                                                    *)

\* The offers that ask for CredSSP.
Nla == {"credssp(nla)", "tls+credssp"}

ConnectionConfirm(offer) ==
    CASE offer = "credssp(nla)" -> "hybrid"
      [] offer = "tls" -> "tls"
      [] offer \in {"none", "tls+credssp"} -> "bare"

\* A header without anything after it, from a client that closes or falls
\* silent: the loop leaves nothing to look at, the first byte of it is looked at
\* all the same, and the panic of the handler ends the agent.
Panics(s) == s.proto = "rdp" /\ s.stage = "head"

RdpHead(s) ==
    {Silent(End(s))}
    \cup {Silent([s EXCEPT !.stage = "upgrade", !.offer = o, !.confirm = ConnectionConfirm(o)]) :
            o \in Offers}

\* Variant: after CredSSP the connection is reported again.
RdpUpgrade_FallsThrough(s) ==
    {Reports(End(s), "connection_request", "high")}
    \cup {Reports(s, "connection_request", "medium") :
            o \in {s.offer} \cap Nla}

\* Where the client offered NLA and the TLS handshake succeeds the connection
\* is reported, and CredSSP follows; else the report is all there is.
RdpUpgrade(s) ==
    {Reports(End(s), "connection_request", "high")}
    \cup {Reports([s EXCEPT !.stage = "setup", !.variant = "credssp"], "connection_request", "medium") :
            o \in {s.offer} \cap Nla}

Rdp(s) ==
    CASE s.stage = "head" -> RdpHead(s)
      [] s.stage = "upgrade" -> RdpUpgrade(s)
      [] s.stage = "setup" -> NtlmRound(s)
      [] s.stage = "failing" -> {Silent(End(s))}

-----------------------------------------------------------------------------
(* SSH and the login page: sessions without an end of their own.           *)

\* Any password is accepted, and reported; so is every command after it.
Ssh(s) ==
    CASE s.stage = "head" ->
           {Silent(End(s)), Reports([s EXCEPT !.stage = "shell"], "credential_attempt", "high")}
      [] s.stage = "shell" -> {Silent(End(s)), Reports(s, "command_execution", "high")}

\* A POST of the form is reported, another request only with alert_on_get.
HttpLogin(s, alertOnGet) ==
    {Silent(End(s)), Reports(s, "login", "high")}
    \cup (IF alertOnGet THEN {} ELSE {Silent(s)})

Steps(s, alertOnGet) ==
    CASE s.proto = "smb" -> Smb(s)
      [] s.proto = "rdp" -> Rdp(s)
      [] s.proto = "ssh" -> Ssh(s)
      [] s.proto = "http_login" -> HttpLogin(s, alertOnGet)

-----------------------------------------------------------------------------
(* A watched file: how often it was touched, and what the sensor last saw. *)

Watch(bound) == [now : 0..bound, baseline : 0..bound, told : 0..bound]
Watching == [now |-> 0, baseline |-> 0, told |-> 0]

\* A poll that finds another signature reports once, however often the file
\* was touched since the last one.
Poll(w) == [w EXCEPT !.baseline = w.now, !.told = @ + 1]

\* A sensor that starts takes the file as it finds it.
Baselined(w) == [w EXCEPT !.baseline = w.now]
=============================================================================
