-------------------------- MODULE Detection_proofs --------------------------
(* Theorems about Detection, for any tokens, types, hosts, requests and     *)
(* bounds.                                                                 *)
EXTENDS Detection, FiniteSetTheorems, TLAPS

(***************************************************************************)
(* The envelope (smtp.ts).                                                 *)
(***************************************************************************)

\* A bounded sequence is a sequence that is short enough.
LEMMA BoundedIs ==
  ASSUME NEW S, NEW b \in Nat, NEW q
  PROVE  q \in BoundedSeq(S, b) <=> q \in Seq(S) /\ Len(q) <= b
<1>1. ASSUME NEW m \in 0..b, q \in [1..m -> S] PROVE q \in Seq(S) /\ Len(q) <= b
  BY <1>1
<1>2. ASSUME q \in Seq(S), Len(q) <= b PROVE q \in BoundedSeq(S, b)
  <2>1. Len(q) \in 0..b /\ q \in [1..Len(q) -> S]
    BY <1>2
  <2>2. QED
    BY <2>1 DEF BoundedSeq, SeqOf
<1>3. QED
  BY <1>1, <1>2 DEF BoundedSeq, SeqOf

\* What keeps the envelope true: an address is entered only when it is counted.
SmtpOk(s) ==
    /\ s \in Session
    /\ s.rcptTo = s.due
    /\ Len(s.rcptTo) <= s.rcptCount
    /\ s.inData => s.rcptTo # <<>>

\* The empty envelope.
LEMMA NoRecipients == <<>> \in BoundedSeq(Mailboxes, MAX_RCPT)
<1>1. <<>> \in Seq(Mailboxes) /\ Len(<<>>) = 0
  OBVIOUS
<1>2. MAX_RCPT \in Nat /\ 0 <= MAX_RCPT
  BY SmtpAssumption
<1>3. QED
  BY <1>1, <1>2, BoundedIs

\* A new session, and one that is over.
LEMMA SmtpBegins == SmtpOk(Greeted) /\ SmtpOk(Closed)
<1>1. SmtpOk(Greeted)
  BY NoRecipients, SmtpAssumption DEF SmtpOk, Session, Greeted
<1>2. /\ Closed \in Session
      /\ Closed.rcptTo = Greeted.rcptTo /\ Closed.due = Greeted.due
      /\ Closed.rcptCount = Greeted.rcptCount /\ Closed.inData = Greeted.inData
  BY <1>1, Zenon DEF SmtpOk, Session, Closed
<1>3. QED
  BY <1>1, <1>2 DEF SmtpOk

\* RSET, HELO and the end of a message.
LEMMA SmtpResets == ASSUME NEW s, SmtpOk(s) PROVE SmtpOk(reset(s))
<1>1. 0 \in 0..MAX_BYTES /\ s.rcptCount \in Nat
  BY SmtpAssumption DEF SmtpOk, Session
<1>2. /\ reset(s) \in Session
      /\ reset(s).rcptTo = <<>> /\ reset(s).due = <<>> /\ ~reset(s).inData
      /\ reset(s).rcptCount = s.rcptCount
  BY <1>1, NoRecipients, Zenon DEF SmtpOk, Session, reset
<1>3. QED
  BY <1>1, <1>2 DEF SmtpOk

\* The recipient's counter.
LEMMA SmtpCounts ==
  ASSUME NEW s, SmtpOk(s)
  PROVE  /\ Count(s) \in Session
         /\ Count(s).rcptTo = s.rcptTo /\ Count(s).due = s.due
         /\ Count(s).inData = s.inData
         /\ Count(s).rcptCount = IF s.rcptCount > MAX_RCPT THEN s.rcptCount
                                 ELSE s.rcptCount + 1
<1> DEFINE c == IF s.rcptCount > MAX_RCPT THEN s.rcptCount ELSE s.rcptCount + 1
<1>1. c \in 0..(MAX_RCPT + 1)
  BY SmtpAssumption DEF SmtpOk, Session
<1>2. Count(s) = [s EXCEPT !.rcptCount = c]
  BY Zenon DEF Count
<1> HIDE DEF c
<1>3. QED
  <2>1. /\ Count(s) \in Session
        /\ Count(s).rcptTo = s.rcptTo /\ Count(s).due = s.due
        /\ Count(s).inData = s.inData
        /\ Count(s).rcptCount = c
    BY <1>1, <1>2, Zenon DEF SmtpOk, Session
  <2>2. QED
    BY <2>1 DEF c

\* RCPT TO.
LEMMA SmtpRecipient ==
  ASSUME NEW s, SmtpOk(s), ~s.inData, NEW to \in Mailboxes \cup {Foreign}
  PROVE  SmtpOk(Rcpt(s, to))
<1> DEFINE c == Count(s)
           q == Append(c.rcptTo, to)
           r == Append(c.due, to)
<1>1. /\ c \in Session /\ c.rcptTo = s.rcptTo /\ c.due = s.due
      /\ c.inData = s.inData
      /\ c.rcptCount = IF s.rcptCount > MAX_RCPT THEN s.rcptCount
                       ELSE s.rcptCount + 1
  BY SmtpCounts
<1>2. /\ s.rcptTo \in Seq(Mailboxes) /\ Len(s.rcptTo) <= MAX_RCPT
      /\ s.rcptCount \in Nat /\ s.rcptTo = s.due /\ Len(s.rcptTo) <= s.rcptCount
  BY BoundedIs, SmtpAssumption DEF SmtpOk, Session
<1>3. CASE c.rcptCount > MAX_RCPT \/ to = Foreign
  <2>1. Rcpt(s, to) = c
    BY <1>3 DEF Rcpt
  <2>2. SmtpOk(c)
    BY <1>1, <1>2, SmtpAssumption DEF SmtpOk
  <2>3. QED
    BY <2>1, <2>2
<1>4. CASE ~(c.rcptCount > MAX_RCPT \/ to = Foreign)
  <2>1. Rcpt(s, to) = [c EXCEPT !.rcptTo = q, !.due = r]
    BY <1>4, Zenon DEF Rcpt
  <2>2. to \in Mailboxes
    BY <1>4
  <2>3. /\ q \in Seq(Mailboxes) /\ q = r /\ Len(q) = Len(s.rcptTo) + 1
        /\ Len(q) <= MAX_RCPT /\ Len(q) <= c.rcptCount
    BY <1>1, <1>2, <1>4, <2>2, SmtpAssumption
  <2>4. q \in BoundedSeq(Mailboxes, MAX_RCPT) /\ r \in BoundedSeq(Mailboxes, MAX_RCPT)
    BY <2>3, BoundedIs, SmtpAssumption
  <2> HIDE DEF c, q, r
  <2>5. /\ Rcpt(s, to) \in Session
        /\ Rcpt(s, to).rcptTo = q /\ Rcpt(s, to).due = r
        /\ Rcpt(s, to).rcptCount = c.rcptCount /\ Rcpt(s, to).inData = c.inData
    BY <1>1, <2>1, <2>4, Zenon DEF Session
  <2>6. QED
    BY <1>1, <2>3, <2>5 DEF SmtpOk
<1>5. QED
  BY <1>3, <1>4

\* Whatever line comes outside a message.
LEMMA SmtpCommands ==
  ASSUME NEW s, SmtpOk(s), ~s.inData, NEW next \in Command(s)
  PROVE  SmtpOk(next)
<1>1. ASSUME NEW null \in BOOLEAN PROVE SmtpOk(Mail(s, null))
  <2> DEFINE u == [s EXCEPT !.mailFrom = ~null]
  <2>1. /\ u \in Session /\ u.rcptTo = s.rcptTo /\ u.due = s.due
        /\ u.rcptCount = s.rcptCount /\ u.inData = s.inData
    BY Zenon DEF SmtpOk, Session
  <2>2. Mail(s, null) \in {s, u}
    BY Zenon DEF Mail
  <2> HIDE DEF u
  <2>3. QED
    BY <2>1, <2>2 DEF SmtpOk
<1>2. SmtpOk(Data(s))
  <2> DEFINE u == [s EXCEPT !.inData = TRUE]
  <2>1. /\ u \in Session /\ u.rcptTo = s.rcptTo /\ u.due = s.due
        /\ u.rcptCount = s.rcptCount
    BY Zenon DEF SmtpOk, Session
  <2>2. Data(s) = s \/ (Data(s) = u /\ s.rcptTo # <<>>)
    BY Zenon DEF Data
  <2> HIDE DEF u
  <2>3. QED
    BY <2>1, <2>2 DEF SmtpOk
<1>3. QED
  BY <1>1, <1>2, SmtpRecipient, SmtpResets DEF Command

\* A line of a message.
LEMMA SmtpLines == ASSUME NEW s, SmtpOk(s) PROVE SmtpOk(DataLine(s))
<1> DEFINE u == [s EXCEPT !.dataBytes = s.dataBytes + 1]
<1>1. DataLine(s) = Closed \/ (DataLine(s) = u /\ ~(s.dataBytes + 1 > MAX_BYTES))
  BY Zenon DEF DataLine
<1>2. CASE DataLine(s) = u /\ ~(s.dataBytes + 1 > MAX_BYTES)
  <2>1. s.dataBytes + 1 \in 0..MAX_BYTES
    BY <1>2, SmtpAssumption DEF SmtpOk, Session
  <2>2. /\ u \in Session /\ u.rcptTo = s.rcptTo /\ u.due = s.due
        /\ u.rcptCount = s.rcptCount /\ u.inData = s.inData
    BY <2>1, Zenon DEF SmtpOk, Session
  <2> HIDE DEF u
  <2>3. QED
    BY <1>2, <2>2 DEF SmtpOk
<1>3. QED
  BY <1>1, <1>2, SmtpBegins

(***************************************************************************)
(* Connections to sensors (tcpserver.go, smb.go, rdp.go).                  *)
(***************************************************************************)

\* The reports of a connection that made each of those in E once.
Once(E) == [e \in Sensor!Events |-> IF e \in E THEN 1 ELSE 0]

\* Where a connection to SMB or RDP is, and what it has reported by then.
SmbOk(c) ==
    /\ c.variant # "credssp"
    /\ \/ c.stage = "head" /\ c.told = Once({})
       \/ c.stage = "reply" /\ c.told = Once({"negotiate"})
       \/ c.stage = "setup" /\ c.told = Once({"negotiate"})
       \/ c.stage = "failing" /\ c.told = Once({"negotiate", "credentials"})
       \/ c.stage = "closed" /\ \E e \in Sensor!Events \ {"credentials"} : c.told = Once({e})

RdpOk(c) ==
    \/ c.stage \in {"head", "upgrade"} /\ c.told = Once({}) /\ c.round = 0
    \/ /\ c.stage = "setup" /\ c.told = Once({"connection_request"})
       /\ c.variant = "credssp" /\ c.round <= 2
    \/ c.stage = "failing" /\ c.told = Once({"connection_request", "credentials"})
    \/ c.stage = "closed" /\ \E e \in Sensor!Events \ {"credentials"} : c.told = Once({e})

ConnOk(c) ==
    /\ c \in Sensor!Session
    /\ c.chal = c.issued
    /\ c.stage = "closed" /\ ~c.waiting => c.proto = "ssh"
    /\ c.proto = "ssh" => c.stage \in {"head", "shell", "closed"}
    /\ c.proto = "http_login" => c.stage \in {"head", "closed"}
    /\ c.proto = "smb" => SmbOk(c)
    /\ c.proto = "rdp" => RdpOk(c)

Idle == Sensor!End(Sensor!Accepted("ssh"))

\* A new connection, and none.
LEMMA ConnBegins ==
  /\ \A p \in Sensor!Protocols : ConnOk(Sensor!Accepted(p))
  /\ ConnOk(Idle) /\ Idle.proto = "ssh" /\ Idle.stage = "closed" /\ ~Idle.waiting
<1>1. ASSUME NEW p \in Sensor!Protocols PROVE ConnOk(Sensor!Accepted(p))
  BY DEF ConnOk, SmbOk, RdpOk, Once, Sensor!Accepted, Sensor!Session, Sensor!Events,
         Sensor!Protocols, Sensor!Offers, Sensor!Challenges
<1>2. Sensor!Accepted("ssh") \in Sensor!Session
  BY <1>1 DEF ConnOk, Sensor!Protocols
<1>3. /\ Idle \in Sensor!Session
      /\ Idle.chal = Sensor!Accepted("ssh").chal
      /\ Idle.issued = Sensor!Accepted("ssh").issued
      /\ Idle.stage = "closed"
      /\ Idle.proto = Sensor!Accepted("ssh").proto
      /\ Idle.waiting = Sensor!Accepted("ssh").waiting
  BY <1>2, Zenon DEF Sensor!Session, Idle, Sensor!End
<1>4. ConnOk(Idle) /\ Idle.proto = "ssh" /\ Idle.stage = "closed" /\ ~Idle.waiting
  BY <1>3 DEF ConnOk, Sensor!Accepted
<1>5. QED
  BY <1>1, <1>4

\* A connection that ends is none.
LEMMA Settles ==
  ASSUME NEW u
  PROVE  /\ u.stage = "closed" /\ ~u.waiting => Sensor!Settled(u) = Idle
         /\ ~(u.stage = "closed" /\ ~u.waiting) => Sensor!Settled(u) = u
BY DEF Sensor!Settled, Idle

\* What a report changes of a connection.
LEMMA ReportIs ==
  ASSUME NEW c \in Sensor!Session, NEW e \in Sensor!Events, NEW v
  PROVE  LET r == Sensor!Reports(c, e, v) IN
         /\ r.next \in Sensor!Session
         /\ r.next.proto = c.proto /\ r.next.stage = c.stage
         /\ r.next.variant = c.variant /\ r.next.round = c.round
         /\ r.next.chal = c.chal /\ r.next.issued = c.issued
         /\ r.next.waiting
         /\ r.next.told = [c.told EXCEPT ![e] = IF @ < 4 THEN @ + 1 ELSE 4]
         /\ \E x : r.report = {x} /\ x.sev = v
<1> DEFINE t == [c.told EXCEPT ![e] = IF @ < 4 THEN @ + 1 ELSE 4]
<1>1. t \in [Sensor!Events -> 0..4]
  BY DEF Sensor!Session
<1>2. Sensor!Reports(c, e, v).next = [c EXCEPT !.waiting = TRUE, !.told = t]
  BY Zenon DEF Sensor!Reports
<1>3. \E x : Sensor!Reports(c, e, v).report = {x} /\ x.sev = v
  <2> DEFINE x == [event |-> e, sev |-> v, scored |-> c.chal, due |-> c.issued]
  <2>1. Sensor!Reports(c, e, v).report = {x}
    BY Zenon DEF Sensor!Reports
  <2>2. x.sev = v
    OBVIOUS
  <2>3. QED
    BY <2>1, <2>2
<1> HIDE DEF t
<1>4. /\ Sensor!Reports(c, e, v).next \in Sensor!Session
      /\ Sensor!Reports(c, e, v).next.proto = c.proto
      /\ Sensor!Reports(c, e, v).next.stage = c.stage
      /\ Sensor!Reports(c, e, v).next.variant = c.variant
      /\ Sensor!Reports(c, e, v).next.round = c.round
      /\ Sensor!Reports(c, e, v).next.chal = c.chal
      /\ Sensor!Reports(c, e, v).next.issued = c.issued
      /\ Sensor!Reports(c, e, v).next.waiting
      /\ Sensor!Reports(c, e, v).next.told = t
  BY <1>1, <1>2, Zenon DEF Sensor!Session
<1>5. QED
  BY <1>3, <1>4 DEF t

\* What the end of a connection changes of it.
LEMMA EndIs ==
  ASSUME NEW c \in Sensor!Session
  PROVE  /\ Sensor!End(c) \in Sensor!Session
         /\ Sensor!End(c).stage = "closed"
         /\ Sensor!End(c).proto = c.proto /\ Sensor!End(c).variant = c.variant
         /\ Sensor!End(c).chal = c.chal /\ Sensor!End(c).issued = c.issued
         /\ Sensor!End(c).waiting = c.waiting /\ Sensor!End(c).told = c.told
BY Zenon DEF Sensor!Session, Sensor!End

\* A report of an event that was not reported yet.
LEMMA OnceMore ==
  ASSUME NEW E, NEW e \in Sensor!Events, e \notin E
  PROVE  [Once(E) EXCEPT ![e] = IF @ < 4 THEN @ + 1 ELSE 4] = Once(E \cup {e})
<1>1. Once(E)[e] = 0
  BY DEF Once
<1>2. [Once(E) EXCEPT ![e] = 1] = Once(E \cup {e})
  BY DEF Once
<1>3. (IF Once(E)[e] < 4 THEN Once(E)[e] + 1 ELSE 4) = 1
  BY <1>1
<1>4. QED
  BY <1>2, <1>3, Zenon

\* A probe's report is the first of its event, and at most the second of the
\* connection.
Counted(c, next) ==
    \E E \in SUBSET Sensor!Events, e \in Sensor!Events :
      /\ E = {} \/ \E a \in Sensor!Events : E = {a}
      /\ e \notin E
      /\ c.told = Once(E) /\ next.told = Once(E \cup {e})

\* What a step leads to and reports.
StepOk(c, st) ==
    /\ ConnOk(st.next)
    /\ st.next.proto \in Sensor!Probes => st.next.proto = c.proto
    /\ \/ /\ st.report = {}
          /\ st.next.proto \in Sensor!Probes => st.next.told = c.told
       \/ /\ \E x : st.report = {x} /\ x.sev \in Severities
          /\ st.next.proto = c.proto
          /\ c.proto \in Sensor!Probes => Counted(c, st.next)

\* A silent end.
LEMMA EndStep ==
  ASSUME NEW c \in Sensor!Session, ~c.waiting, NEW u \in Sensor!Session,
         u.stage = "closed", ~u.waiting
  PROVE  StepOk(c, Sensor!Silent(u))
<1>1. Sensor!Silent(u) = [next |-> Idle, report |-> {}]
  BY Settles, Zenon DEF Sensor!Silent
<1>2. QED
  BY <1>1, ConnBegins DEF StepOk, Sensor!Probes

\* A silent step that is no end.
LEMMA SilentStep ==
  ASSUME NEW c \in Sensor!Session, NEW u \in Sensor!Session, ConnOk(u),
         u.stage # "closed", u.proto = c.proto, u.told = c.told
  PROVE  StepOk(c, Sensor!Silent(u))
<1>1. Sensor!Silent(u) = [next |-> u, report |-> {}]
  BY Settles, Zenon DEF Sensor!Silent
<1>2. QED
  BY <1>1 DEF StepOk

\* A report of a probe, from what the session becomes but for the report.
LEMMA ProbeReport ==
  ASSUME NEW c \in Sensor!Session, NEW u \in Sensor!Session,
         c.proto \in Sensor!Probes, u.proto = c.proto, u.told = c.told,
         u.chal = u.issued,
         NEW E \in SUBSET Sensor!Events, NEW e \in Sensor!Events, e \notin E,
         E = {} \/ \E a \in Sensor!Events : E = {a},
         c.told = Once(E), NEW v \in Severities,
         u.proto = "smb" =>
           /\ u.variant # "credssp"
           /\ \/ u.stage \in {"reply", "setup"} /\ E \cup {e} = {"negotiate"}
              \/ u.stage = "failing" /\ E \cup {e} = {"negotiate", "credentials"}
              \/ u.stage = "closed" /\ E = {} /\ e # "credentials",
         u.proto = "rdp" =>
           \/ /\ u.stage = "setup" /\ E \cup {e} = {"connection_request"}
              /\ u.variant = "credssp" /\ u.round <= 2
           \/ u.stage = "failing" /\ E \cup {e} = {"connection_request", "credentials"}
           \/ u.stage = "closed" /\ E = {} /\ e # "credentials"
  PROVE  StepOk(c, Sensor!Reports(u, e, v))
<1> DEFINE r == Sensor!Reports(u, e, v)
<1>1. /\ r.next \in Sensor!Session
      /\ r.next.proto = u.proto /\ r.next.stage = u.stage
      /\ r.next.variant = u.variant /\ r.next.round = u.round
      /\ r.next.chal = u.chal /\ r.next.issued = u.issued
      /\ r.next.waiting
      /\ r.next.told = [u.told EXCEPT ![e] = IF @ < 4 THEN @ + 1 ELSE 4]
      /\ \E x : r.report = {x} /\ x.sev = v
  BY ReportIs
<1> HIDE DEF r
<1>2. r.next.told = Once(E \cup {e})
  BY <1>1, OnceMore, SMTT(30)
<1>3. Counted(c, r.next)
  BY <1>2 DEF Counted
<1>4. ConnOk(r.next)
  <2>1. CASE u.proto = "smb"
    <3> DEFINE F == E \cup {e}
    <3>1. u.stage = "closed" => F = {e} /\ e \in Sensor!Events \ {"credentials"}
      BY <2>1
    <3>2. r.next.told = Once(F)
      BY <1>2
    <3> HIDE DEF F
    <3>3. SmbOk(r.next)
      BY <1>1, <2>1, <3>1, <3>2 DEF SmbOk, F
    <3>4. QED
      BY <1>1, <2>1, <3>3 DEF ConnOk
  <2>2. CASE u.proto = "rdp"
    <3> DEFINE F == E \cup {e}
    <3>1. u.stage = "closed" => F = {e} /\ e \in Sensor!Events \ {"credentials"}
      BY <2>2
    <3>2. r.next.told = Once(F)
      BY <1>2
    <3> HIDE DEF F
    <3>3. RdpOk(r.next)
      BY <1>1, <2>2, <3>1, <3>2 DEF RdpOk, F
    <3>4. QED
      BY <1>1, <2>2, <3>3 DEF ConnOk
  <2>3. QED
    BY <2>1, <2>2 DEF Sensor!Probes
<1>5. StepOk(c, r)
  BY <1>1, <1>3, <1>4 DEF StepOk
<1>6. QED
  BY <1>5 DEF r

\* The challenge and the round of an NTLM exchange.
LEMMA NtlmChallenge ==
  ASSUME NEW c, ConnOk(c), c.proto \in Sensor!Probes, c.stage = "setup", ~c.waiting
  PROVE  StepOk(c, Sensor!Silent(Sensor!Challenged(c)))
<1> DEFINE x == Sensor!BuildChallenge(c)
           u == Sensor!NextRound(c)
           d == Sensor!Challenged(c)
           w == [c EXCEPT !.round = c.round + 1]
<1>1. c \in Sensor!Session /\ c.round \in 0..3 /\ c.issued \in 0..2
  BY DEF ConnOk, Sensor!Session, Sensor!Challenges
<1>2. x \in {0} \cup Sensor!Challenges
  BY <1>1 DEF Sensor!BuildChallenge, Sensor!Challenges
<1>3. d = [u EXCEPT !.chal = x, !.issued = x]
  BY Zenon DEF Sensor!Challenged
<1>4. u = Sensor!End(c) \/ (u = w /\ c.round + 1 # Sensor!Rounds(c))
  BY Zenon DEF Sensor!NextRound
<1> HIDE DEF x
<1>5. CASE u = Sensor!End(c)
  <2>1. /\ u \in Sensor!Session /\ u.stage = "closed"
        /\ u.waiting = c.waiting
    BY <1>1, <1>5, EndIs
  <2> HIDE DEF u
  <2>2. d \in Sensor!Session /\ d.stage = u.stage /\ d.waiting = u.waiting
    BY <1>2, <1>3, <2>1, Zenon DEF Sensor!Session
  <2>3. QED
    BY <1>1, <2>1, <2>2, EndStep
<1>6. CASE u = w /\ c.round + 1 # Sensor!Rounds(c)
  <2>1. c.proto = "rdp" => c.variant = "credssp" /\ c.round + 1 <= 2
    BY <1>1, <1>6 DEF ConnOk, RdpOk, Sensor!Rounds
  <2>2. c.proto = "smb" => c.variant # "credssp" /\ c.round + 1 # 4
    BY <1>6 DEF ConnOk, SmbOk, Sensor!Rounds
  <2>3. c.round + 1 \in 0..3
    BY <1>1, <2>1, <2>2 DEF Sensor!Probes
  <2>4. /\ w \in Sensor!Session /\ w.stage = c.stage /\ w.proto = c.proto
        /\ w.told = c.told /\ w.variant = c.variant /\ w.waiting = c.waiting
        /\ w.round = c.round + 1
    BY <1>1, <2>3, Zenon DEF Sensor!Session
  <2> HIDE DEF u, w
  <2>5. /\ d \in Sensor!Session /\ d.stage = c.stage /\ d.proto = c.proto
        /\ d.told = c.told /\ d.variant = c.variant /\ d.round = c.round + 1
        /\ d.chal = x /\ d.issued = x
    BY <1>2, <1>3, <1>6, <2>4, Zenon DEF Sensor!Session
  <2>6. ConnOk(d)
    BY <2>1, <2>5 DEF ConnOk, SmbOk, RdpOk
  <2>7. QED
    BY <1>1, <2>5, <2>6, SilentStep
<1>7. QED
  BY <1>4, <1>5, <1>6

\* The credentials a probe is given.
LEMMA CredentialStep ==
  ASSUME NEW c, ConnOk(c), c.proto \in Sensor!Probes, c.stage = "setup"
  PROVE  StepOk(c, Sensor!Credentials(c))
<1> DEFINE u == [c EXCEPT !.stage = "failing"]
<1>1. /\ c \in Sensor!Session /\ c.chal = c.issued
      /\ c.proto = "smb" => c.told = Once({"negotiate"}) /\ c.variant # "credssp"
      /\ c.proto = "rdp" => c.told = Once({"connection_request"})
  BY DEF ConnOk, SmbOk, RdpOk
<1>2. Sensor!Credentials(c) = Sensor!Reports(u, "credentials", "high")
  BY Zenon DEF Sensor!Credentials
<1>3. /\ u \in Sensor!Session /\ u.stage = "failing" /\ u.proto = c.proto
      /\ u.told = c.told /\ u.variant = c.variant
      /\ u.chal = c.chal /\ u.issued = c.issued
  BY <1>1, Zenon DEF Sensor!Session
<1> HIDE DEF u
<1>4. /\ "high" \in Severities /\ "credentials" \in Sensor!Events
      /\ "negotiate" \in Sensor!Events /\ "connection_request" \in Sensor!Events
  BY DEF Severities, Sensor!Events
<1>5. CASE c.proto = "smb"
  <2> DEFINE E == {"negotiate"}
  <2>1. "credentials" \notin E /\ E \in SUBSET Sensor!Events
        /\ (\E a \in Sensor!Events : E = {a})
        /\ E \cup {"credentials"} = {"negotiate", "credentials"} /\ c.told = Once(E)
    BY <1>1, <1>4, <1>5
  <2> HIDE DEF E
  <2>2. QED
    BY <1>1, <1>2, <1>3, <1>4, <1>5, <2>1, ProbeReport
<1>6. CASE c.proto = "rdp"
  <2> DEFINE E == {"connection_request"}
  <2>1. "credentials" \notin E /\ E \in SUBSET Sensor!Events
        /\ (\E a \in Sensor!Events : E = {a})
        /\ E \cup {"credentials"} = {"connection_request", "credentials"}
        /\ c.told = Once(E)
    BY <1>1, <1>4, <1>6
  <2> HIDE DEF E
  <2>2. QED
    BY <1>1, <1>2, <1>3, <1>4, <1>6, <2>1, ProbeReport
<1>7. QED
  BY <1>5, <1>6 DEF Sensor!Probes

\* A probe that gives up.
LEMMA GivesUp ==
  ASSUME NEW c, ConnOk(c), ~c.waiting
  PROVE  StepOk(c, Sensor!Silent(Sensor!End(c)))
<1>1. c \in Sensor!Session
  BY DEF ConnOk
<1>2. QED
  BY <1>1, EndIs, EndStep

\* One round of an exchange.
LEMMA NtlmStep ==
  ASSUME NEW c, ConnOk(c), c.proto \in Sensor!Probes, c.stage = "setup", ~c.waiting,
         NEW st \in Sensor!NtlmRound(c)
  PROVE  StepOk(c, st)
BY NtlmChallenge, CredentialStep, GivesUp DEF Sensor!NtlmRound

\* A probe's first report: E, what was reported before, is empty.
LEMMA FirstReport ==
  ASSUME NEW c, ConnOk(c), c.proto \in Sensor!Probes, c.told = Once({}),
         NEW u \in Sensor!Session, u.proto = c.proto, u.told = c.told,
         u.chal = u.issued, NEW e \in Sensor!Events \ {"credentials"}, NEW v \in Severities,
         u.proto = "smb" =>
           /\ u.variant # "credssp"
           /\ u.stage = "closed" \/ (u.stage \in {"reply", "setup"} /\ e = "negotiate"),
         u.proto = "rdp" =>
           \/ u.stage = "closed"
           \/ /\ u.stage = "setup" /\ e = "connection_request"
              /\ u.variant = "credssp" /\ u.round <= 2
  PROVE  StepOk(c, Sensor!Reports(u, e, v))
<1> DEFINE E == {}
<1>1. E \in SUBSET Sensor!Events /\ e \notin E /\ E = {} /\ E \cup {e} = {e}
      /\ e \in Sensor!Events /\ e # "credentials"
  OBVIOUS
<1>2. c.told = Once(E) /\ c \in Sensor!Session
  BY DEF ConnOk
<1> HIDE DEF E
<1>3. QED
  BY <1>1, <1>2, ProbeReport

\* The first message to SMB.
LEMMA SmbHeadStep ==
  ASSUME NEW c, ConnOk(c), c.proto = "smb", c.stage = "head", ~c.waiting,
         NEW st \in Sensor!SmbHead(c)
  PROVE  StepOk(c, st)
<1>1. /\ c \in Sensor!Session /\ c.chal = c.issued /\ c.variant # "credssp"
      /\ c.told = Once({}) /\ c.proto \in Sensor!Probes
  BY DEF ConnOk, SmbOk, Sensor!Probes
<1>2. {"probe", "negotiate"} \subseteq Sensor!Events \ {"credentials"} /\ {"medium", "high"} \subseteq Severities
  BY DEF Severities, Sensor!Events
<1>3. CASE st = Sensor!Unreadable(c)
  BY <1>3, GivesUp DEF Sensor!Unreadable
<1>4. CASE \/ st = Sensor!Reports(Sensor!End(c), "probe", "medium")
           \/ st = Sensor!Reports(Sensor!End(c), "negotiate", "high")
  <2>1. /\ Sensor!End(c) \in Sensor!Session /\ Sensor!End(c).stage = "closed"
        /\ Sensor!End(c).proto = "smb" /\ Sensor!End(c).variant = c.variant
        /\ Sensor!End(c).chal = Sensor!End(c).issued /\ Sensor!End(c).told = c.told
    BY <1>1, EndIs
  <2>2. QED
    BY <1>1, <1>2, <1>4, <2>1, FirstReport
<1>5. ASSUME NEW v \in {"ext", "legacy"},
             st = Sensor!Reports([c EXCEPT !.stage = "reply", !.variant = v],
                                 "negotiate", "high")
      PROVE  StepOk(c, st)
  <2> DEFINE u == [c EXCEPT !.stage = "reply", !.variant = v]
  <2>1. v \in {"plain", "ext", "legacy", "smb2", "credssp"} /\ v # "credssp"
    OBVIOUS
  <2>2. /\ u \in Sensor!Session /\ u.stage = "reply" /\ u.proto = c.proto
        /\ u.told = c.told /\ u.variant = v /\ u.chal = c.chal /\ u.issued = c.issued
    BY <1>1, <2>1, Zenon DEF Sensor!Session
  <2>3. st = Sensor!Reports(u, "negotiate", "high")
    BY <1>5
  <2> HIDE DEF u
  <2>4. QED
    BY <1>1, <1>2, <2>1, <2>2, <2>3, FirstReport
<1>6. CASE st = Sensor!Reports([c EXCEPT !.stage = "setup", !.variant = "smb2"],
                               "negotiate", "high")
  <2> DEFINE u == [c EXCEPT !.stage = "setup", !.variant = "smb2"]
  <2>1. /\ u \in Sensor!Session /\ u.stage = "setup" /\ u.proto = c.proto
        /\ u.told = c.told /\ u.variant = "smb2" /\ u.chal = c.chal
        /\ u.issued = c.issued
    BY <1>1, Zenon DEF Sensor!Session
  <2>2. st = Sensor!Reports(u, "negotiate", "high")
    BY <1>6
  <2> HIDE DEF u
  <2>3. QED
    BY <1>1, <1>2, <2>1, <2>2, FirstReport
<1>7. QED
  <2>1. \/ st = Sensor!Unreadable(c)
        \/ st = Sensor!Reports(Sensor!End(c), "probe", "medium")
        \/ st = Sensor!Reports(Sensor!End(c), "negotiate", "high")
        \/ \E v \in {"ext", "legacy"} :
             st = Sensor!Reports([c EXCEPT !.stage = "reply", !.variant = v],
                                 "negotiate", "high")
        \/ st = Sensor!Reports([c EXCEPT !.stage = "setup", !.variant = "smb2"],
                               "negotiate", "high")
    BY Zenon DEF Sensor!SmbHead
  <2>2. QED
    BY <2>1, <1>3, <1>4, <1>5, <1>6, Zenon

\* The answer of SMB1, with the challenge for a legacy client.
LEMMA Smb1ReplyStep ==
  ASSUME NEW c, ConnOk(c), c.proto = "smb", c.stage = "reply", ~c.waiting,
         NEW st \in Sensor!Smb1Reply(c)
  PROVE  StepOk(c, st)
<1> DEFINE x == Sensor!BuildChallenge(c)
           u == [c EXCEPT !.stage = "setup", !.chal = x, !.issued = x]
           w == [c EXCEPT !.stage = "setup"]
<1>1. c \in Sensor!Session /\ c.issued \in 0..2 /\ c.chal = c.issued
  BY DEF ConnOk, Sensor!Session, Sensor!Challenges
<1>2. x \in {0} \cup Sensor!Challenges
  BY <1>1 DEF Sensor!BuildChallenge, Sensor!Challenges
<1> HIDE DEF x
<1>3. /\ u \in Sensor!Session /\ u.stage = "setup" /\ u.proto = c.proto
      /\ u.told = c.told /\ u.variant = c.variant /\ u.chal = x /\ u.issued = x
  BY <1>1, <1>2, Zenon DEF Sensor!Session
<1>4. /\ w \in Sensor!Session /\ w.stage = "setup" /\ w.proto = c.proto
      /\ w.told = c.told /\ w.variant = c.variant
      /\ w.chal = c.chal /\ w.issued = c.issued
  BY <1>1, Zenon DEF Sensor!Session
<1>5. \/ st = Sensor!Silent(Sensor!End(c))
      \/ st = Sensor!Silent(u) \/ st = Sensor!Silent(w)
  BY Zenon DEF Sensor!Smb1Reply, x
<1> HIDE DEF u, w
<1>6. ConnOk(u) /\ ConnOk(w)
  BY <1>1, <1>3, <1>4 DEF ConnOk, SmbOk
<1>7. QED
  BY <1>1, <1>3, <1>4, <1>5, <1>6, GivesUp, SilentStep

\* One step of a connection to SMB.
LEMMA SmbStep ==
  ASSUME NEW c, ConnOk(c), c.proto = "smb", c.stage # "closed", ~c.waiting,
         NEW st \in Sensor!Smb(c)
  PROVE  StepOk(c, st)
<1>1. c.stage \in {"head", "reply", "setup", "failing"} /\ c.proto \in Sensor!Probes
  BY DEF ConnOk, SmbOk, Sensor!Probes
<1>2. CASE c.stage = "head"
  <2>1. st \in Sensor!SmbHead(c)
    BY <1>2, Zenon DEF Sensor!Smb
  <2>2. QED
    BY <1>2, <2>1, SmbHeadStep
<1>3. CASE c.stage = "reply"
  <2>1. st \in Sensor!Smb1Reply(c)
    BY <1>3, Zenon DEF Sensor!Smb
  <2>2. QED
    BY <1>3, <2>1, Smb1ReplyStep
<1>4. CASE c.stage = "setup" /\ c.variant = "legacy"
  <2>1. st \in Sensor!LegacySetup(c)
    BY <1>4, Zenon DEF Sensor!Smb
  <2>2. QED
    BY <1>1, <1>4, <2>1, GivesUp, CredentialStep
       DEF Sensor!LegacySetup, Sensor!Unreadable
<1>5. CASE c.stage = "setup" /\ c.variant # "legacy"
  <2>1. st \in Sensor!NtlmRound(c)
    BY <1>5, Zenon DEF Sensor!Smb
  <2>2. QED
    BY <1>1, <1>5, <2>1, NtlmStep
<1>6. CASE c.stage = "failing"
  <2>1. st = Sensor!Silent(Sensor!End(c))
    BY <1>6, Zenon DEF Sensor!Smb
  <2>2. QED
    BY <2>1, GivesUp
<1>7. QED
  BY <1>1, <1>2, <1>3, <1>4, <1>5, <1>6

\* The first message to RDP.
LEMMA RdpHeadStep ==
  ASSUME NEW c, ConnOk(c), c.proto = "rdp", c.stage = "head", ~c.waiting,
         NEW st \in Sensor!RdpHead(c)
  PROVE  StepOk(c, st)
<1>1. /\ c \in Sensor!Session /\ c.chal = c.issued /\ c.round = 0
      /\ c.told = Once({})
  BY DEF ConnOk, RdpOk
<1>2. ASSUME NEW o \in Sensor!Offers,
             st = Sensor!Silent([c EXCEPT !.stage = "upgrade", !.offer = o,
                                          !.confirm = Sensor!ConnectionConfirm(o)])
      PROVE  StepOk(c, st)
  <2> DEFINE k == Sensor!ConnectionConfirm(o)
             u == [c EXCEPT !.stage = "upgrade", !.offer = o, !.confirm = k]
  <2>1. k \in {"no", "bare", "tls", "hybrid"}
    BY DEF Sensor!ConnectionConfirm, Sensor!Offers
  <2> HIDE DEF k
  <2>2. /\ u \in Sensor!Session /\ u.stage = "upgrade" /\ u.proto = c.proto
        /\ u.told = c.told /\ u.round = c.round /\ u.chal = c.chal
        /\ u.issued = c.issued
    BY <1>1, <2>1, Zenon DEF Sensor!Session
  <2>3. st = Sensor!Silent(u)
    BY <1>2 DEF k
  <2> HIDE DEF u
  <2>4. ConnOk(u)
    BY <1>1, <2>2 DEF ConnOk, RdpOk
  <2>5. QED
    BY <1>1, <2>2, <2>3, <2>4, SilentStep
<1>3. QED
  BY <1>2, GivesUp, Zenon DEF Sensor!RdpHead

\* The connection is reported, and CredSSP follows or not.
LEMMA RdpUpgradeStep ==
  ASSUME NEW c, ConnOk(c), c.proto = "rdp", c.stage = "upgrade", ~c.waiting,
         NEW st \in Sensor!RdpUpgrade(c)
  PROVE  StepOk(c, st)
<1> DEFINE u == [c EXCEPT !.stage = "setup", !.variant = "credssp"]
<1>1. /\ c \in Sensor!Session /\ c.chal = c.issued /\ c.round = 0
      /\ c.told = Once({}) /\ c.proto \in Sensor!Probes
  BY DEF ConnOk, RdpOk, Sensor!Probes
<1>2. "connection_request" \in Sensor!Events \ {"credentials"} /\ {"medium", "high"} \subseteq Severities
  BY DEF Severities, Sensor!Events
<1>3. /\ Sensor!End(c) \in Sensor!Session /\ Sensor!End(c).stage = "closed"
      /\ Sensor!End(c).proto = "rdp"
      /\ Sensor!End(c).chal = Sensor!End(c).issued /\ Sensor!End(c).told = c.told
  BY <1>1, EndIs
<1>4. /\ u \in Sensor!Session /\ u.stage = "setup" /\ u.proto = c.proto
      /\ u.told = c.told /\ u.variant = "credssp" /\ u.chal = c.chal
      /\ u.issued = c.issued /\ u.round = c.round
  BY <1>1, Zenon DEF Sensor!Session
<1>5. \/ st = Sensor!Reports(Sensor!End(c), "connection_request", "high")
      \/ st = Sensor!Reports(u, "connection_request", "medium")
  BY Zenon DEF Sensor!RdpUpgrade
<1> HIDE DEF u
<1>6. QED
  BY <1>1, <1>2, <1>3, <1>4, <1>5, FirstReport

\* One step of a connection to RDP.
LEMMA RdpStep ==
  ASSUME NEW c, ConnOk(c), c.proto = "rdp", c.stage # "closed", ~c.waiting,
         NEW st \in Sensor!Rdp(c)
  PROVE  StepOk(c, st)
<1>1. c.stage \in {"head", "upgrade", "setup", "failing"} /\ c.proto \in Sensor!Probes
  BY DEF ConnOk, RdpOk, Sensor!Probes
<1>2. CASE c.stage = "head"
  <2>1. st \in Sensor!RdpHead(c)
    BY <1>2, Zenon DEF Sensor!Rdp
  <2>2. QED
    BY <1>2, <2>1, RdpHeadStep
<1>3. CASE c.stage = "upgrade"
  <2>1. st \in Sensor!RdpUpgrade(c)
    BY <1>3, Zenon DEF Sensor!Rdp
  <2>2. QED
    BY <1>3, <2>1, RdpUpgradeStep
<1>4. CASE c.stage = "setup"
  <2>1. st \in Sensor!NtlmRound(c)
    BY <1>4, Zenon DEF Sensor!Rdp
  <2>2. QED
    BY <1>1, <1>4, <2>1, NtlmStep
<1>5. CASE c.stage = "failing"
  <2>1. st = Sensor!Silent(Sensor!End(c))
    BY <1>5, Zenon DEF Sensor!Rdp
  <2>2. QED
    BY <2>1, GivesUp
<1>6. QED
  BY <1>1, <1>2, <1>3, <1>4, <1>5

\* A report of a session that is no probe's.
LEMMA OtherReport ==
  ASSUME NEW c, ConnOk(c), NEW u \in Sensor!Session, u.proto = c.proto,
         u.chal = u.issued, NEW e \in Sensor!Events, NEW v \in Severities,
         \/ c.proto = "ssh" /\ u.stage = "shell"
         \/ c.proto = "http_login" /\ u.stage = "head"
  PROVE  StepOk(c, Sensor!Reports(u, e, v))
<1> DEFINE r == Sensor!Reports(u, e, v)
<1>1. /\ r.next \in Sensor!Session
      /\ r.next.proto = u.proto /\ r.next.stage = u.stage
      /\ r.next.variant = u.variant /\ r.next.round = u.round
      /\ r.next.chal = u.chal /\ r.next.issued = u.issued
      /\ r.next.waiting
      /\ r.next.told = [u.told EXCEPT ![e] = IF @ < 4 THEN @ + 1 ELSE 4]
      /\ \E x : r.report = {x} /\ x.sev = v
  BY ReportIs
<1> HIDE DEF r
<1>2. ConnOk(r.next)
  BY <1>1 DEF ConnOk
<1>3. c.proto \notin Sensor!Probes
  BY DEF Sensor!Probes
<1>4. StepOk(c, r)
  BY <1>1, <1>2, <1>3 DEF StepOk
<1>5. QED
  BY <1>4 DEF r

\* One step of a connection to SSH.
LEMMA SshStep ==
  ASSUME NEW c, ConnOk(c), c.proto = "ssh", c.stage # "closed", ~c.waiting,
         NEW st \in Sensor!Ssh(c)
  PROVE  StepOk(c, st)
<1> DEFINE u == [c EXCEPT !.stage = "shell"]
<1>1. c \in Sensor!Session /\ c.chal = c.issued /\ c.stage \in {"head", "shell"}
  BY DEF ConnOk
<1>2. /\ u \in Sensor!Session /\ u.stage = "shell" /\ u.proto = c.proto
      /\ u.chal = c.chal /\ u.issued = c.issued
  BY <1>1, Zenon DEF Sensor!Session
<1>3. /\ "credential_attempt" \in Sensor!Events /\ "command_execution" \in Sensor!Events
      /\ "high" \in Severities
  BY DEF Sensor!Events, Severities
<1>4. CASE c.stage = "head"
  <2>1. \/ st = Sensor!Silent(Sensor!End(c))
        \/ st = Sensor!Reports(u, "credential_attempt", "high")
    BY <1>4, Zenon DEF Sensor!Ssh
  <2> HIDE DEF u
  <2>2. QED
    BY <1>1, <1>2, <1>3, <2>1, GivesUp, OtherReport
<1>5. CASE c.stage = "shell"
  <2>1. \/ st = Sensor!Silent(Sensor!End(c))
        \/ st = Sensor!Reports(c, "command_execution", "high")
    BY <1>5, Zenon DEF Sensor!Ssh
  <2>2. QED
    BY <1>1, <1>3, <1>5, <2>1, GivesUp, OtherReport
<1>6. QED
  BY <1>1, <1>4, <1>5

\* One request to the login page.
LEMMA HttpLoginStep ==
  ASSUME NEW c, ConnOk(c), c.proto = "http_login", c.stage # "closed", ~c.waiting,
         NEW alertOnGet, NEW st \in Sensor!HttpLogin(c, alertOnGet)
  PROVE  StepOk(c, st)
<1>1. /\ c \in Sensor!Session /\ c.chal = c.issued /\ c.stage = "head"
      /\ "login" \in Sensor!Events /\ "high" \in Severities
  BY DEF ConnOk, Sensor!Events, Severities
<1>2. \/ st = Sensor!Silent(Sensor!End(c))
      \/ st = Sensor!Reports(c, "login", "high")
      \/ st = Sensor!Silent(c)
  BY DEF Sensor!HttpLogin
<1>3. QED
  BY <1>1, <1>2, GivesUp, OtherReport, SilentStep

\* One step of a connection to any sensor.
LEMMA StepsOk ==
  ASSUME NEW c, ConnOk(c), c.stage # "closed", ~c.waiting,
         NEW alertOnGet, NEW st \in Sensor!Steps(c, alertOnGet)
  PROVE  StepOk(c, st)
<1>1. c.proto \in {"ssh", "http_login", "smb", "rdp"}
  BY DEF ConnOk, Sensor!Session, Sensor!Protocols
<1>2. CASE c.proto = "smb"
  <2>1. st \in Sensor!Smb(c)
    BY <1>2, Zenon DEF Sensor!Steps
  <2>2. QED
    BY <1>2, <2>1, SmbStep
<1>3. CASE c.proto = "rdp"
  <2>1. st \in Sensor!Rdp(c)
    BY <1>3, Zenon DEF Sensor!Steps
  <2>2. QED
    BY <1>3, <2>1, RdpStep
<1>4. CASE c.proto = "ssh"
  <2>1. st \in Sensor!Ssh(c)
    BY <1>4, Zenon DEF Sensor!Steps
  <2>2. QED
    BY <1>4, <2>1, SshStep
<1>5. CASE c.proto = "http_login"
  <2>1. st \in Sensor!HttpLogin(c, alertOnGet)
    BY <1>5, Zenon DEF Sensor!Steps
  <2>2. QED
    BY <1>5, <2>1, HttpLoginStep
<1>6. QED
  BY <1>1, <1>2, <1>3, <1>4, <1>5

\* The answer to a report reaches the connection that waited for it.
LEMMA Answers ==
  ASSUME NEW c, ConnOk(c)
  PROVE  LET d == Sensor!Settled([c EXCEPT !.waiting = FALSE]) IN
         /\ ConnOk(d)
         /\ d.proto \in Sensor!Probes => d.proto = c.proto /\ d.told = c.told
<1> DEFINE u == [c EXCEPT !.waiting = FALSE]
<1>1. c \in Sensor!Session
  BY DEF ConnOk
<1>2. /\ u \in Sensor!Session /\ ~u.waiting /\ u.stage = c.stage
      /\ u.proto = c.proto /\ u.told = c.told /\ u.variant = c.variant
      /\ u.round = c.round /\ u.chal = c.chal /\ u.issued = c.issued
  BY <1>1, Zenon DEF Sensor!Session
<1> HIDE DEF u
<1>3. CASE u.stage = "closed"
  <2>1. Sensor!Settled(u) = Idle
    BY <1>2, <1>3, Settles
  <2>2. ConnOk(Idle) /\ Idle.proto \notin Sensor!Probes
    BY ConnBegins DEF Sensor!Probes
  <2>3. QED
    BY <2>1, <2>2 DEF u
<1>4. CASE u.stage # "closed"
  <2>1. Sensor!Settled(u) = u
    BY <1>4, Settles
  <2>2. ConnOk(u)
    BY <1>2, <1>4 DEF ConnOk, SmbOk, RdpOk
  <2>3. QED
    BY <1>2, <2>1, <2>2 DEF u
<1>5. QED
  BY <1>3, <1>4

(***************************************************************************)
(* The sessions of the system.                                             *)
(***************************************************************************)

\* What the sessions rest on: the envelope, the sensor's connection, which has
\* a token, and the watched file, which is reported only after it was touched.
Sessions ==
    /\ SmtpOk(smtp)
    /\ ConnOk(conn)
    /\ connToken \in Tokens \cup {Other}
    /\ conn.stage # "closed" \/ conn.waiting => connToken \in Tokens
    /\ watch \in Sensor!Watch(MaxWork)
    /\ watch.told <= watch.baseline /\ watch.baseline <= watch.now
    /\ watch.now <= work
    /\ requests \in 0..MaxRequests /\ work \in 0..MaxWork

\* A step that leaves the sensors alone.
LEMMA SensorsRest ==
  ASSUME Sessions, UNCHANGED sensorVars, SmtpOk(smtp'),
         requests' \in 0..MaxRequests, work' \in 0..MaxWork, work <= work'
  PROVE  Sessions'
<1>1. watch.now \in Nat /\ work \in Nat /\ work' \in Nat
  BY DEF Sessions, Sensor!Watch
<1>2. watch.now <= work'
  BY <1>1 DEF Sessions
<1>3. ConnOk(conn)'
  BY DEF Sessions, sensorVars, ConnOk, SmbOk, RdpOk, Once
<1>4. SmtpOk(smtp)'
  BY DEF SmtpOk
<1>5. QED
  BY <1>2, <1>3, <1>4 DEF Sessions, sensorVars

\* Where the sessions begin.
LEMMA SessionsBegin == Init => Sessions
<1> SUFFICES ASSUME Init PROVE Sessions
  OBVIOUS
<1>1. conn = Idle /\ ConnOk(Idle) /\ SmtpOk(smtp)
  BY ConnBegins, SmtpBegins DEF Init, Idle
<1>2. QED
  BY <1>1, ConnBegins, DetectionAssumption DEF Init, Sessions, Sensor!Watch, Sensor!Watching

\* A report reaches its end.
LEMMA SessionsAnswered ==
  ASSUME Sessions, NEW f, Ends(f), UNCHANGED <<smtp, connToken, watch, requests, work>>
  PROVE  Sessions'
<1>1. CASE f.from = "connection"
  <2> DEFINE d == Sensor!Settled([conn EXCEPT !.waiting = FALSE])
  <2>1. conn' = d
    BY <1>1 DEF Ends
  <2>2. ConnOk(d)
    BY Answers DEF Sessions
  <2>3. (conn.stage = "closed" /\ ~conn.waiting) \/ connToken \in Tokens
    BY DEF Sessions, ConnOk, Sensor!Session
  <2>4. d.stage # "closed" \/ d.waiting => connToken \in Tokens
    <3> DEFINE u == [conn EXCEPT !.waiting = FALSE]
    <3>1. u.stage = conn.stage /\ ~u.waiting
      BY Zenon DEF Sessions, ConnOk, Sensor!Session
    <3>2. Idle.stage = "closed" /\ ~Idle.waiting
      BY ConnBegins
    <3>3. u.stage = "closed" => d = Idle
      BY <3>1, Settles
    <3>4. u.stage # "closed" => conn.stage # "closed"
      BY <3>1
    <3> HIDE DEF u
    <3>5. QED
      BY <2>3, <3>2, <3>3, <3>4
  <2> HIDE DEF d
  <2>5. ConnOk(conn')
    BY <2>1, <2>2
  <2>6. ConnOk(conn)'
    BY <2>5 DEF ConnOk, SmbOk, RdpOk, Once
  <2>7. SmtpOk(smtp)'
    BY DEF Sessions, SmtpOk
  <2>8. QED
    BY <2>1, <2>4, <2>6, <2>7 DEF Sessions
<1>2. CASE f.from # "connection"
  <2>1. conn' = conn
    BY <1>2 DEF Ends
  <2>2. QED
    BY <2>1, SensorsRest DEF sensorVars, Sessions
<1>3. QED
  BY <1>1, <1>2

\* Of a connection that takes the agent with it nothing is left.
LEMMA PanicEnds ==
  ASSUME Sessions, ~conn.waiting
  PROVE  Sensor!Settled(Sensor!End(conn)) = Idle
<1>1. Sensor!End(conn).stage = "closed" /\ Sensor!End(conn).waiting = conn.waiting
  BY EndIs DEF Sessions, ConnOk
<1>2. QED
  BY <1>1, Settles

\* Every step keeps the sessions.
LEMMA SessionsStep == Sessions /\ [Next]_vars => Sessions'
<1> SUFFICES ASSUME Sessions, [Next]_vars PROVE Sessions'
  OBVIOUS
<1>0. work \in 0..MaxWork /\ requests \in 0..MaxRequests /\ SmtpOk(smtp) /\ MaxWork \in Nat
      /\ MaxRequests \in Nat
  BY DetectionAssumption DEF Sessions
<1>1. ASSUME NEW t \in Tokens, NEW k \in Types[t], Create(t, k) PROVE Sessions'
  BY <1>0, <1>1, SensorsRest DEF Create
<1>2. ASSUME NEW t \in Tokens, NEW s \in StatusEdits, SetStatus(t, s) PROVE Sessions'
  BY <1>0, <1>2, SensorsRest DEF SetStatus, Works, Worked
<1>3. ASSUME NEW t \in Tokens, HardDelete(t) PROVE Sessions'
  BY <1>0, <1>3, SensorsRest DEF HardDelete, Works, Worked
<1>4. ASSUME NEW f \in flight, Arrives(f) \/ Lost(f) PROVE Sessions'
  BY <1>4, SessionsAnswered DEF Arrives, Lost
<1>5. ASSUME NEW r \in Requests, HttpRequest(r[1], r[2], r[3], r[4]) PROVE Sessions'
  BY <1>0, <1>5, SensorsRest DEF HttpRequest, Asked, Worked
<1>6. ASSUME NEW h \in Hosts, DnsQuery(h) PROVE Sessions'
  BY <1>0, <1>6, SensorsRest DEF DnsQuery, Asked, Worked
<1>7. CASE SmtpConnect
  BY <1>0, <1>7, SensorsRest, SmtpBegins DEF SmtpConnect, Works, Worked
<1>8. CASE SmtpCommand
  BY <1>0, <1>8, SensorsRest, SmtpCommands DEF SmtpCommand
<1>9. CASE SmtpDataLine
  BY <1>0, <1>9, SensorsRest, SmtpLines DEF SmtpDataLine
<1>10. CASE SmtpDot
  BY <1>0, <1>10, SensorsRest, SmtpResets DEF SmtpDot, finishMessage
<1>11. CASE SmtpDrop
  BY <1>0, <1>11, SensorsRest, SmtpBegins DEF SmtpDrop
<1>12. ASSUME NEW p \in Sensor!Protocols, NEW t \in Tokens, Connect(p, t) PROVE Sessions'
  <2>1. ConnOk(conn')
    BY <1>12, ConnBegins DEF Connect
  <2>2. ConnOk(conn)' /\ SmtpOk(smtp)'
    BY <1>0, <1>12, <2>1 DEF Connect, ConnOk, SmbOk, RdpOk, Once, SmtpOk
  <2>3. watch.now \in Nat
    BY DEF Sessions, Sensor!Watch
  <2>4. QED
    BY <1>0, <1>12, <2>2, <2>3 DEF Sessions, Connect, Works, Worked
<1>13. CASE SensorStep
  <2>1. PICK s \in Sensor!Steps(conn, AlertOnGet) : conn' = s.next
    BY <1>13 DEF SensorStep
  <2>2. ConnOk(conn') /\ connToken \in Tokens
    BY <1>13, <2>1, StepsOk DEF SensorStep, Sessions, StepOk
  <2>3. ConnOk(conn)' /\ SmtpOk(smtp)'
    BY <1>0, <1>13, <2>2 DEF SensorStep, ConnOk, SmbOk, RdpOk, Once, SmtpOk
  <2>4. QED
    BY <1>13, <2>2, <2>3 DEF Sessions, SensorStep
<1>14. CASE Touch
  <2>1. work' \in 0..MaxWork /\ work' = work + 1 /\ watch.now + 1 \in 0..MaxWork
    BY <1>0, <1>14 DEF Touch, Works, Worked, Sessions, Sensor!Watch
  <2> DEFINE now == watch.now + 1
             w == [watch EXCEPT !.now = now]
  <2>2. watch' = w
    BY <1>14, Zenon DEF Touch
  <2>3. w \in Sensor!Watch(MaxWork) /\ w.now = now
        /\ w.baseline = watch.baseline /\ w.told = watch.told
    <3> HIDE DEF now
    <3>1. QED
      BY <2>1, Zenon DEF Sessions, Sensor!Watch, now
  <2> HIDE DEF w
  <2>4. ConnOk(conn)' /\ SmtpOk(smtp)'
    BY <1>14 DEF Touch, Sessions, ConnOk, SmbOk, RdpOk, Once, SmtpOk
  <2>5. QED
    BY <1>0, <1>14, <2>1, <2>2, <2>3, <2>4 DEF Sessions, Touch, Works, Sensor!Watch
<1>15. ASSUME NEW t \in Tokens, WatchPoll(t) PROVE Sessions'
  <2> DEFINE told == watch.told + 1
             w == [watch EXCEPT !.baseline = watch.now, !.told = told]
  <2>1. /\ watch.baseline < watch.now /\ told \in 0..MaxWork /\ told <= watch.now
        /\ watch.now <= work
    <3>1. /\ watch.now \in Nat /\ watch.baseline \in Nat /\ watch.told \in Nat
          /\ watch.told <= watch.baseline /\ watch.baseline <= watch.now
          /\ watch.now <= MaxWork /\ watch.now <= work
      BY <1>0 DEF Sessions, Sensor!Watch
    <3>2. watch.now # watch.baseline
      BY <1>15 DEF WatchPoll
    <3>3. QED
      BY <1>0, <3>1, <3>2
  <2>2. watch' = w /\ watch.now \in 0..MaxWork
    BY <1>15, Zenon DEF WatchPoll, Sensor!Poll, Sessions, Sensor!Watch
  <2> HIDE DEF told
  <2>3. /\ w \in Sensor!Watch(MaxWork) /\ w.now = watch.now
        /\ w.baseline = watch.now /\ w.told = told
    BY <2>1, <2>2, Zenon DEF Sessions, Sensor!Watch
  <2> HIDE DEF w
  <2>4. ConnOk(conn)' /\ SmtpOk(smtp)'
    BY <1>15 DEF WatchPoll, Sessions, ConnOk, SmbOk, RdpOk, Once, SmtpOk
  <2>5. UNCHANGED <<conn, connToken, requests, work>>
    BY <1>15 DEF WatchPoll
  <2>6. QED
    BY <2>1, <2>2, <2>3, <2>4, <2>5 DEF Sessions
<1>16. CASE UNCHANGED vars
  BY <1>0, <1>16, SensorsRest DEF vars
<1>17. CASE AgentPanics
  <2> DEFINE w == [watch EXCEPT !.baseline = watch.now]
  <2>1. watch' = w /\ UNCHANGED <<smtp, connToken, requests, work>>
    BY <1>17 DEF AgentPanics, Sensor!Baselined
  <2>2. /\ w \in Sensor!Watch(MaxWork) /\ w.now = watch.now
        /\ w.baseline = watch.now /\ w.told = watch.told
    BY Zenon DEF Sessions, Sensor!Watch
  <2>3. /\ watch.now \in Nat /\ watch.baseline \in Nat /\ watch.told \in Nat
        /\ watch.told <= watch.baseline /\ watch.baseline <= watch.now
        /\ watch.now <= work
    BY <1>0 DEF Sessions, Sensor!Watch
  <2>4. watch.told <= watch.now
    BY <2>3
  <2> HIDE DEF w
  <2>5. conn' = Idle
    BY <1>17, PanicEnds DEF AgentPanics
  <2>6. ConnOk(conn') /\ conn'.stage = "closed" /\ ~conn'.waiting
    BY <2>5, ConnBegins
  <2>7. ConnOk(conn)' /\ SmtpOk(smtp)'
    BY <1>0, <2>1, <2>6 DEF ConnOk, SmbOk, RdpOk, Once, SmtpOk
  <2>8. QED
    BY <2>1, <2>2, <2>3, <2>4, <2>6, <2>7 DEF Sessions
<1>18. QED
  BY <1>1, <1>2, <1>3, <1>4, <1>5, <1>6, <1>7, <1>8, <1>9, <1>10, <1>11, <1>12,
     <1>13, <1>14, <1>15, <1>16, <1>17
     DEF Next, ApiNext, ReportEnds, GatewayNext, SmtpNext, SensorNext

\* The recipients of the envelope are those accepted for this message, and no
\* more than MAX_RCPT; of the rest of the mail nothing is said.
THEOREM Envelope == Spec => []EnvelopeTrue
<1>1. Sessions => EnvelopeTrue
  BY BoundedIs, SmtpAssumption DEF Sessions, SmtpOk, Session, EnvelopeTrue
<1>2. QED
  BY <1>1, SessionsBegin, SessionsStep, PTL DEF Spec

\* Credentials are scored against the challenge that was sent.
THEOREM Scored == Spec => []ScoredTrue
<1>1. Sessions => ScoredTrue
  BY DEF Sessions, ConnOk, ScoredTrue
<1>2. QED
  BY <1>1, SessionsBegin, SessionsStep, PTL DEF Spec

\* A probe's connection is reported at most once for each kind of event, and for
\* credentials only after it was for the connection; a watched file is reported
\* at most as often as it was touched.
THEOREM NothingTwice == Spec => []ReportedOnce
<1>1. Sessions => ReportedOnce
  <2> SUFFICES ASSUME Sessions PROVE ReportedOnce
    OBVIOUS
  <2>1. ASSUME NEW E, NEW e \in Sensor!Events PROVE Once(E)[e] <= 1
    BY DEF Once
  <2>2. conn.proto \in Sensor!Probes => \E E : conn.told = Once(E)
    BY DEF Sessions, ConnOk, SmbOk, RdpOk, Sensor!Probes
  <2>3. watch.told <= watch.now
    BY DEF Sessions, Sensor!Watch
  <2>4. ASSUME conn.proto \in Sensor!Probes, conn.told["credentials"] > 0
        PROVE  \E e \in {"negotiate", "connection_request"} : conn.told[e] > 0
    <3>1. \/ conn.told = Once({"negotiate", "credentials"})
          \/ conn.told = Once({"connection_request", "credentials"})
      <4> DEFINE cr == "credentials"
      <4>1. cr \in Sensor!Events /\ conn.told[cr] > 0
        BY <2>4 DEF Sensor!Events
      <4>2. ASSUME NEW E, conn.told = Once(E) PROVE cr \in E
        BY <4>1, <4>2 DEF Once
      <4>3. /\ conn.told # Once({})
            /\ conn.told # Once({"negotiate"})
            /\ conn.told # Once({"connection_request"})
            /\ \A e \in Sensor!Events \ {cr} : conn.told # Once({e})
        BY <4>2
      <4>4. SmbOk(conn) \/ RdpOk(conn)
        BY <2>4 DEF Sessions, ConnOk, Sensor!Probes
      <4>5. QED
        BY <4>3, <4>4 DEF SmbOk, RdpOk
    <3>2. {"negotiate", "connection_request"} \subseteq Sensor!Events
      BY DEF Sensor!Events
    <3>3. QED
      BY <3>1, <3>2 DEF Once
  <2>5. QED
    BY <2>1, <2>2, <2>3, <2>4 DEF ReportedOnce
<1>2. QED
  BY <1>1, SessionsBegin, SessionsStep, PTL DEF Spec

(***************************************************************************)
(* The rules of the types (tokens-core).                                   *)
(***************************************************************************)

\* The registry, entry by entry.
LEMMA Registry ==
  /\ DOMAIN definitions = 1..16
  /\ ToSet(definitions) = {definitions[i] : i \in 1..16}
  /\ definitions[1] = webBugToken /\ definitions[2] = customImageToken
  /\ definitions[3] = dnsToken /\ definitions[4] = fastRedirectToken
  /\ definitions[5] = qrCodeToken /\ definitions[6] = emailToken
  /\ definitions[7] = sensitiveCmdToken /\ definitions[8] = wordDocToken
  /\ definitions[9] = excelDocToken /\ definitions[10] = windowsFolderToken
  /\ definitions[11] = sqlInjectionToken /\ definitions[12] = pdfDocToken
  /\ definitions[13] = clonedWebsiteToken /\ definitions[14] = awsKeysToken
  /\ definitions[15] = azureConfigToken /\ definitions[16] = honeypotToken
<1>1. DOMAIN definitions = 1..16
  BY DEF definitions
<1>2. ToSet(definitions) = {definitions[i] : i \in 1..16}
  BY <1>1 DEF ToSet
<1>3. /\ definitions[1] = webBugToken /\ definitions[2] = customImageToken
      /\ definitions[3] = dnsToken /\ definitions[4] = fastRedirectToken
  BY DEF definitions
<1>4. /\ definitions[5] = qrCodeToken /\ definitions[6] = emailToken
      /\ definitions[7] = sensitiveCmdToken /\ definitions[8] = wordDocToken
  BY DEF definitions
<1>5. /\ definitions[9] = excelDocToken /\ definitions[10] = windowsFolderToken
      /\ definitions[11] = sqlInjectionToken /\ definitions[12] = pdfDocToken
  BY DEF definitions
<1>6. /\ definitions[13] = clonedWebsiteToken /\ definitions[14] = awsKeysToken
      /\ definitions[15] = azureConfigToken /\ definitions[16] = honeypotToken
  BY DEF definitions
<1>7. QED
  BY <1>1, <1>2, <1>3, <1>4, <1>5, <1>6

\* What a type of the registry is: one of the four kinds, and what an HTTP type
\* plants is served by the gateway and matches its own rule.
TypeSound(d) ==
    /\ d.id # "none"
    /\ d.kind \in {"http", "dns", "smtp", "none"}
    /\ d.severity \in Severities
    /\ \A p \in d.plants :
         /\ p.action \in d.actions /\ p.action # "other" /\ p.tail # "longer"
         /\ d.id = "sensitive_cmd" => p.tail \in {"end", "deeper"}

\* Every type of the registry is.
LEMMA TypesSound == \A d \in ToSet(definitions) : TypeSound(d)
<1>1. /\ TypeSound(webBugToken) /\ TypeSound(customImageToken)
      /\ TypeSound(dnsToken) /\ TypeSound(fastRedirectToken)
  BY DEF TypeSound, Severities, HttpType, NameType, Url, webBugToken, customImageToken,
         dnsToken, fastRedirectToken
<1>2. /\ TypeSound(qrCodeToken) /\ TypeSound(emailToken)
      /\ TypeSound(sensitiveCmdToken)
  BY DEF TypeSound, Severities, HttpType, NameType, Url, qrCodeToken, emailToken,
         sensitiveCmdToken
<1>3. /\ TypeSound(wordDocToken) /\ TypeSound(excelDocToken) /\ TypeSound(pdfDocToken)
  BY DEF TypeSound, Severities, HttpType, Url, wordDocToken, excelDocToken, pdfDocToken,
         buildOoxmlWithExternalImage, buildXlsxWithHyperlink, buildTrackingPdf
<1>4. /\ TypeSound(windowsFolderToken) /\ TypeSound(sqlInjectionToken)
      /\ TypeSound(clonedWebsiteToken)
  BY DEF TypeSound, Severities, HttpType, NameType, Url, windowsFolderToken,
         sqlInjectionToken, clonedWebsiteToken
<1>5. /\ TypeSound(awsKeysToken) /\ TypeSound(azureConfigToken)
      /\ TypeSound(honeypotToken)
  BY DEF TypeSound, Severities, HttpType, NameType, Url, awsKeysToken,
         azureConfigToken, honeypotToken
<1>6. (\A i \in 1..8 : TypeSound(definitions[i]))
  BY <1>1, <1>2, <1>3, Registry
<1>7. (\A i \in 9..16 : TypeSound(definitions[i]))
  BY <1>3, <1>4, <1>5, Registry
<1>8. \A i \in 1..16 : i \in 1..8 \/ i \in 9..16
  OBVIOUS
<1>9. QED
  BY <1>6, <1>7, <1>8, Registry

\* The type of an id is in the registry.
LEMMA TypeOfId ==
  ASSUME NEW id \in TypeIds
  PROVE  getTokenType(id) \in ToSet(definitions)
BY DEF TypeIds, getTokenType

\* A set of indices of the registry that is not empty has a least one.
LEMMA FirstIndex ==
  ASSUME NEW S \in SUBSET (1..16), S # {}
  PROVE  \E j \in S : \A h \in 1..(j - 1) : h \notin S
<1> SUFFICES ASSUME \A j \in S : \E h \in S : h < j PROVE FALSE
  OBVIOUS
<1>1. \A j \in 1..4 : j \notin S
  OBVIOUS
<1>2. \A j \in 1..8 : j \notin S
  BY <1>1
<1>3. \A j \in 1..12 : j \notin S
  BY <1>2
<1>4. \A j \in 1..16 : j \notin S
  BY <1>3
<1>5. QED
  BY <1>4

\* The first type that matches an event is one, and one of the registry.
LEMMA OneType ==
  ASSUME NEW e, NEW t
  PROVE  /\ matchEventToType(e, t) \subseteq ToSet(definitions)
         /\ \A a, b \in matchEventToType(e, t) : a = b
         /\ (\E d \in ToSet(definitions) : matchTrigger(d, e, t))
              => matchEventToType(e, t) # {}
<1> DEFINE M == {j \in 1..16 : matchTrigger(definitions[j], e, t)}
           F == {j \in M : \A h \in 1..(j - 1) : h \notin M}
<1>1. matchEventToType(e, t) = {definitions[i] : i \in F}
  BY Registry DEF matchEventToType
<1>2. \A j, k \in F : j = k
  OBVIOUS
<1>3. ASSUME NEW d \in ToSet(definitions), matchTrigger(d, e, t) PROVE F # {}
  <2>1. PICK i \in 1..16 : d = definitions[i]
    BY Registry DEF ToSet
  <2>2. M \in SUBSET (1..16) /\ M # {}
    BY <1>3, <2>1
  <2> HIDE DEF M
  <2>3. QED
    BY <2>2, FirstIndex
<1> HIDE DEF F
<1>4. F \subseteq 1..16
  BY DEF F
<1> DEFINE E == matchEventToType(e, t)
<1> HIDE DEF E
<1>5. E = {definitions[i] : i \in F}
  BY <1>1 DEF E
<1>6. E \subseteq ToSet(definitions)
  BY <1>4, <1>5, Registry
<1>7. \A a, b \in E : a = b
  BY <1>2, <1>5
<1>8. (\E d \in ToSet(definitions) : matchTrigger(d, e, t)) => E # {}
  BY <1>3, <1>5
<1>9. QED
  BY <1>6, <1>7, <1>8 DEF E

\* What the gateway forwards: one report at most for each token.
LEMMA Forwarded ==
  ASSUME NEW e
  PROVE  /\ \A f \in Forwards(e) : f.tok \in Candidates(e) /\ f.sev \in Severities
         /\ \A f, g \in Forwards(e) : f.tok = g.tok => f = g
         /\ \A t \in Candidates(e), d \in ToSet(definitions) :
              matchTrigger(d, e, t) => \E f \in Forwards(e) : f.tok = t
<1>1. ASSUME NEW f \in Forwards(e)
      PROVE  \E t \in Candidates(e) : \E d \in matchEventToType(e, t) :
               f = [tok |-> t, sev |-> d.severity]
  BY DEF Forwards
<1>2. ASSUME NEW t \in Candidates(e), NEW d \in matchEventToType(e, t)
      PROVE  [tok |-> t, sev |-> d.severity] \in Forwards(e)
  BY DEF Forwards
<1>3. \A f \in Forwards(e) : f.tok \in Candidates(e) /\ f.sev \in Severities
  BY <1>1, OneType, TypesSound DEF TypeSound
<1>4. ASSUME NEW f \in Forwards(e), NEW g \in Forwards(e), f.tok = g.tok PROVE f = g
  <2>1. PICK t \in Candidates(e) : \E d \in matchEventToType(e, t) :
          f = [tok |-> t, sev |-> d.severity]
    BY <1>1
  <2>2. PICK d \in matchEventToType(e, t) : f = [tok |-> t, sev |-> d.severity]
    BY <2>1
  <2>3. PICK u \in Candidates(e) : \E c \in matchEventToType(e, u) :
          g = [tok |-> u, sev |-> c.severity]
    BY <1>1
  <2>4. PICK c \in matchEventToType(e, u) : g = [tok |-> u, sev |-> c.severity]
    BY <2>3
  <2>5. t = u
    BY <1>4, <2>2, <2>4
  <2>6. c = d
    BY <2>5, OneType
  <2>7. QED
    BY <2>2, <2>4, <2>5, <2>6
<1>5. ASSUME NEW t \in Candidates(e), NEW d \in ToSet(definitions), matchTrigger(d, e, t)
      PROVE  \E f \in Forwards(e) : f.tok = t
  <2>1. PICK c \in matchEventToType(e, t) : TRUE
    BY <1>5, OneType
  <2>2. [tok |-> t, sev |-> c.severity] \in Forwards(e)
    BY <1>2
  <2>3. QED
    BY <2>2
<1>6. QED
  BY <1>3, <1>4, <1>5

\* What is planted for a token fires it: the use matches the token's type, the

\* token is one the gateway considers, and the answer is the artifact's.
LEMMA PlantedFires ==
  ASSUME NEW d \in ToSet(definitions), NEW e, NEW t, PlantedUse(d, e, t)
  PROVE  /\ matchTrigger(d, e, t)
         /\ t \in Candidates(e)
         /\ Uploaded => Answered(e)
<1>1. TypeSound(d)
  BY TypesSound
<1>2. CASE d.kind = "http"
  <2>1. /\ e.kind = "http" /\ e.host = <<>> /\ e.segment = t
        /\ [action |-> e.action, tail |-> e.tail] \in d.plants
    BY <1>2, Zenon DEF PlantedUse
  <2>2. /\ e.action \in d.actions /\ e.action # "other" /\ e.tail # "longer"
        /\ d.id = "sensitive_cmd" => e.tail \in {"end", "deeper"}
    BY <1>1, <2>1 DEF TypeSound
  <2>3. matchTrigger(d, e, t)
    BY <1>2, <2>1, <2>2 DEF matchTrigger, eventMentionsToken, PathMatches
  <2>4. t \in Candidates(e)
    BY <2>1 DEF Candidates
  <2>5. Uploaded => Answered(e)
    BY <2>2 DEF Answered, Served
  <2>6. QED
    BY <2>3, <2>4, <2>5
<1>3. CASE d.kind = "dns"
  <2>1. e.kind = "dns" /\ t \in ToSet(e.host)
    BY <1>3, Zenon DEF PlantedUse
  <2>2. QED
    BY <1>3, <2>1 DEF matchTrigger, eventMentionsToken, Candidates, Answered
<1>4. CASE d.kind = "smtp"
  <2>1. e.kind = "smtp" /\ e.to = t
    BY <1>4, Zenon DEF PlantedUse
  <2>2. QED
    BY <1>4, <2>1 DEF matchTrigger, eventMentionsToken, Candidates, Answered
<1>5. CASE d.kind = "none"
  BY <1>5, Zenon DEF PlantedUse
<1>6. QED
  BY <1>1, <1>2, <1>3, <1>4, <1>5 DEF TypeSound

(***************************************************************************)
(* Reports and their incidents.                                            *)
(***************************************************************************)

\* Events as the gateway hears them: about tokens or something else.
Heard(es) ==
    /\ Len(es) \in Nat /\ DOMAIN es = 1..Len(es)
    /\ \A i \in DOMAIN es : Candidates(es[i]) \subseteq Tokens \cup {Other}

\* What is reported of them.
LEMMA ReportsAre ==
  ASSUME NEW es, NEW first
  PROVE  /\ \A r \in Reports(es, first) : \E i \in DOMAIN es : \E f \in Forwards(es[i]) :
              /\ r.tok = f.tok /\ r.sev = f.sev /\ r.no = first + i /\ r.ev = es[i]
              /\ r.from = "gateway"
         /\ \A r, q \in Reports(es, first) :
              r.tok = q.tok /\ r.sev = q.sev /\ r.no = q.no /\ r.ev = q.ev => r = q
         /\ \A i \in DOMAIN es : \A f \in Forwards(es[i]) : \E r \in Reports(es, first) :
              r.tok = f.tok /\ r.no = first + i /\ r.ev = es[i]
<1>1. ASSUME NEW r \in Reports(es, first)
      PROVE  \E i \in DOMAIN es : \E f \in Forwards(es[i]) :
               r = [tok |-> f.tok, sev |-> f.sev, no |-> first + i, ev |-> es[i],
                    from |-> "gateway"]
  BY DEF Reports
<1>2. ASSUME NEW i \in DOMAIN es, NEW f \in Forwards(es[i])
      PROVE  [tok |-> f.tok, sev |-> f.sev, no |-> first + i, ev |-> es[i],
              from |-> "gateway"] \in Reports(es, first)
  BY DEF Reports
<1>3. \A r \in Reports(es, first) : \E i \in DOMAIN es : \E f \in Forwards(es[i]) :
        /\ r.tok = f.tok /\ r.sev = f.sev /\ r.no = first + i /\ r.ev = es[i]
        /\ r.from = "gateway"
  BY <1>1
<1>4. ASSUME NEW r \in Reports(es, first)
      PROVE  r = [tok |-> r.tok, sev |-> r.sev, no |-> r.no, ev |-> r.ev,
                  from |-> "gateway"]
  BY <1>1
<1>5. \A i \in DOMAIN es : \A f \in Forwards(es[i]) : \E r \in Reports(es, first) :
        r.tok = f.tok /\ r.no = first + i /\ r.ev = es[i]
  BY <1>2
<1>6. ASSUME NEW r \in Reports(es, first), NEW q \in Reports(es, first),
             r.tok = q.tok, r.sev = q.sev, r.no = q.no, r.ev = q.ev
      PROVE  r = q
  BY <1>4, <1>6
<1>7. QED
  BY <1>3, <1>5, <1>6

\* One report of each event and token, of a token it could mean.
LEMMA ReportsOf ==
  ASSUME NEW es, Heard(es), NEW first \in Nat
  PROVE  /\ \A r \in Reports(es, first) :
              /\ r.tok \in Tokens \cup {Other} /\ r.sev \in Severities
              /\ r.no \in (first + 1)..(first + Len(es)) /\ r.from = "gateway"
              /\ r.ev = es[r.no - first]
         /\ \A r, q \in Reports(es, first) : r.tok = q.tok /\ r.no = q.no => r = q
<1>1. ASSUME NEW r \in Reports(es, first)
      PROVE  /\ r.tok \in Tokens \cup {Other} /\ r.sev \in Severities
             /\ r.no \in (first + 1)..(first + Len(es)) /\ r.from = "gateway"
             /\ r.ev = es[r.no - first]
  <2>1. PICK i \in DOMAIN es : \E f \in Forwards(es[i]) :
          /\ r.tok = f.tok /\ r.sev = f.sev /\ r.no = first + i /\ r.ev = es[i]
          /\ r.from = "gateway"
    BY ReportsAre
  <2>2. i \in 1..Len(es) /\ Len(es) \in Nat /\ r.no - first = i
    BY <2>1 DEF Heard
  <2>3. r.tok \in Candidates(es[i]) /\ r.sev \in Severities
    BY <2>1, Forwarded
  <2>4. QED
    BY <2>1, <2>2, <2>3 DEF Heard
<1>2. ASSUME NEW r \in Reports(es, first), NEW q \in Reports(es, first),
             r.tok = q.tok, r.no = q.no
      PROVE  r = q
  <2>1. PICK i \in DOMAIN es : \E f \in Forwards(es[i]) :
          /\ r.tok = f.tok /\ r.sev = f.sev /\ r.no = first + i /\ r.ev = es[i]
    BY ReportsAre
  <2>2. PICK f \in Forwards(es[i]) :
          r.tok = f.tok /\ r.sev = f.sev /\ r.no = first + i /\ r.ev = es[i]
    BY <2>1
  <2>3. PICK j \in DOMAIN es : \E g \in Forwards(es[j]) :
          /\ q.tok = g.tok /\ q.sev = g.sev /\ q.no = first + j /\ q.ev = es[j]
    BY ReportsAre
  <2>4. PICK g \in Forwards(es[j]) :
          q.tok = g.tok /\ q.sev = g.sev /\ q.no = first + j /\ q.ev = es[j]
    BY <2>3
  <2>5. i = j
    <3>1. i \in Nat /\ j \in Nat
      BY DEF Heard
    <3>2. first + i = first + j
      BY <1>2, <2>2, <2>4
    <3>3. QED
      BY <3>1, <3>2
  <2>6. f = g
    BY <1>2, <2>2, <2>4, <2>5, Forwarded
  <2>7. r.sev = q.sev /\ r.ev = q.ev
    BY <2>2, <2>4, <2>5, <2>6
  <2>8. QED
    BY <1>2, <2>7, ReportsAre
<1>3. QED
  BY <1>1, <1>2

\* The uses that begin with them.
LEMMA UsesOf ==
  ASSUME NEW es, Heard(es), NEW first \in Nat
  PROVE  \A u \in Uses(es, first) :
           /\ u.tok \in Tokens /\ status[u.tok] = "active"
           /\ u.no \in (first + 1)..(first + Len(es))
           /\ u \in [tok : Tokens, no : Nat, served : BOOLEAN]
           /\ PlantedUse(getTokenType(typeOf[u.tok]), es[u.no - first], u.tok)
           /\ u.served = Answered(es[u.no - first])
<1> SUFFICES ASSUME NEW u \in Uses(es, first)
             PROVE  /\ u.tok \in Tokens /\ status[u.tok] = "active"
                    /\ u.no \in (first + 1)..(first + Len(es))
                    /\ u \in [tok : Tokens, no : Nat, served : BOOLEAN]
                    /\ PlantedUse(getTokenType(typeOf[u.tok]), es[u.no - first], u.tok)
                    /\ u.served = Answered(es[u.no - first])
  OBVIOUS
<1>1. PICK i \in DOMAIN es :
        \E t \in {x \in Tokens : status[x] = "active"
                              /\ PlantedUse(getTokenType(typeOf[x]), es[i], x)} :
          u = [tok |-> t, no |-> first + i, served |-> Answered(es[i])]
  BY DEF Uses
<1>2. PICK t \in Tokens :
        /\ status[t] = "active" /\ PlantedUse(getTokenType(typeOf[t]), es[i], t)
        /\ u = [tok |-> t, no |-> first + i, served |-> Answered(es[i])]
  BY <1>1
<1>3. i \in 1..Len(es) /\ Len(es) \in Nat
  BY DEF Heard
<1>4. Answered(es[i]) \in BOOLEAN
  BY DEF Answered
<1> DEFINE a == Answered(es[i])
<1>5. u.tok = t /\ u.no = first + i /\ u.served = a
  BY <1>2
<1>6. u.no - first = i /\ u.no \in (first + 1)..(first + Len(es)) /\ u.no \in Nat
  BY <1>3, <1>5
<1>7. u \in [tok : Tokens, no : Nat, served : BOOLEAN]
  <2> HIDE DEF a
  <2>1. first + i \in Nat
    BY <1>3
  <2>2. a \in BOOLEAN
    BY <1>4 DEF a
  <2>3. u = [tok |-> t, no |-> first + i, served |-> a]
    BY <1>2 DEF a
  <2>4. QED
    BY <2>1, <2>2, <2>3
<1>8. QED
  BY <1>2, <1>5, <1>6, <1>7

\* Types of what detection keeps, and that a minted token has its type.
FlowTypes ==
    /\ status \in [Tokens -> {"unused", "active", "paused", "revoked", "deleted"}]
    /\ typeOf \in [Tokens -> TypeIds \cup {"none"}]
    /\ \A t \in Tokens : status[t] # "unused" => typeOf[t] \in TypeIds
    /\ n \in Nat /\ filed \in Nat
    /\ \A f \in flight : f.tok \in Tokens \cup {Other} /\ f.no \in 1..n
                           /\ f.sev \in Severities /\ f.from \in Sources
    /\ incidents \subseteq [id : 1..filed, tok : Tokens, no : 1..n, sev : Severities, agent : BOOLEAN]
    /\ uses \subseteq [tok : Tokens, no : 1..n, served : BOOLEAN]

\* Rows: one for each event of a token, with the severity of its type.
Rows ==
    /\ IsFiniteSet(incidents)
    /\ \A i \in incidents :
         /\ status[i.tok] # "unused"
         /\ ~i.agent => i.sev = getTokenType(typeOf[i.tok]).severity
    /\ \A i, j \in incidents : i.tok = j.tok /\ i.no = j.no => i = j

\* What is on the way is on the way once, and no row yet.
Unfiled ==
    /\ \A f, g \in flight : f.tok = g.tok /\ f.no = g.no => f = g
    /\ \A f \in flight, i \in incidents : ~(f.tok = i.tok /\ f.no = i.no)

\* A use that has not ended has its report on the way, which the API will match.
Pending ==
    \A u \in uses :
        /\ status[u.tok] # "unused"
        /\ u.served \/ ~Uploaded
        /\ \E f \in flight : f.tok = u.tok /\ f.no = u.no
        /\ \A f \in flight : f.tok = u.tok /\ f.no = u.no /\ f.from = "gateway"
             => matchTrigger(getTokenType(typeOf[u.tok]), f.ev, u.tok)

Flows == FlowTypes /\ Rows /\ Unfiled /\ Pending

\* A token is minted.
LEMMA FlowsMinted ==
  ASSUME Flows, NEW t \in Tokens, NEW k \in TypeIds, Create(t, k)
  PROVE  Flows'
<1>1. /\ status[t] = "unused"
      /\ status' = [status EXCEPT ![t] = "active"] /\ typeOf' = [typeOf EXCEPT ![t] = k]
      /\ UNCHANGED <<flight, incidents, filed, uses, n>>
  BY DEF Create, apiVars
<1>2. FlowTypes'
  BY <1>1 DEF Flows, FlowTypes
<1>3. \A x \in Tokens : status[x] # "unused" =>
        status'[x] # "unused" /\ typeOf'[x] = typeOf[x]
  BY <1>1 DEF Flows, FlowTypes
<1>4. Rows'
  BY <1>1, <1>3 DEF Flows, FlowTypes, Rows
<1>5. Unfiled'
  BY <1>1 DEF Flows, Unfiled
<1>6. Pending'
  BY <1>1, <1>3 DEF Flows, FlowTypes, Pending
<1>7. QED
  BY <1>2, <1>4, <1>5, <1>6 DEF Flows

\* Its status is set.
LEMMA FlowsStatus ==
  ASSUME Flows, NEW t \in Tokens, NEW s \in StatusEdits, SetStatus(t, s)
  PROVE  Flows'
<1>1. /\ status[t] # "unused" /\ s \in {"active", "paused", "revoked"}
      /\ status' = [status EXCEPT ![t] = s]
      /\ UNCHANGED <<typeOf, flight, incidents, filed, uses, n>>
  BY DetectionAssumption DEF SetStatus, Exists, apiVars
<1>2. FlowTypes'
  BY <1>1 DEF Flows, FlowTypes
<1>3. \A x \in Tokens : status[x] # "unused" => status'[x] # "unused"
  BY <1>1 DEF Flows, FlowTypes
<1>4. Rows'
  BY <1>1, <1>3 DEF Flows, FlowTypes, Rows
<1>5. Unfiled'
  BY <1>1 DEF Flows, Unfiled
<1>6. Pending'
  BY <1>1, <1>3 DEF Flows, FlowTypes, Pending
<1>7. QED
  BY <1>2, <1>4, <1>5, <1>6 DEF Flows

\* It is deleted, with its incidents.
LEMMA FlowsDeleted ==
  ASSUME Flows, NEW t \in Tokens, HardDelete(t)
  PROVE  Flows'
<1>1. /\ status[t] # "unused" /\ status' = [status EXCEPT ![t] = "deleted"]
      /\ incidents' = {i \in incidents : i.tok # t}
      /\ UNCHANGED <<typeOf, flight, filed, uses, n>>
  BY DEF HardDelete, Exists
<1>2. incidents' \in SUBSET incidents
  BY <1>1
<1>3. FlowTypes'
  BY <1>1, <1>2 DEF Flows, FlowTypes
<1>4. \A x \in Tokens : status[x] # "unused" => status'[x] # "unused"
  BY <1>1 DEF Flows, FlowTypes
<1>5. IsFiniteSet(incidents')
  BY <1>2, FS_Subset DEF Flows, Rows
<1>6. Rows'
  BY <1>1, <1>2, <1>4, <1>5 DEF Flows, FlowTypes, Rows
<1>7. Unfiled'
  BY <1>1, <1>2 DEF Flows, Unfiled
<1>8. Pending'
  BY <1>1, <1>4 DEF Flows, FlowTypes, Pending
<1>9. QED
  BY <1>3, <1>6, <1>7, <1>8 DEF Flows

\* The gateway emits events.
LEMMA FlowsEmitted ==
  ASSUME Flows, NEW es, Heard(es), Emits(es), UNCHANGED tokenVars
  PROVE  Flows'
<1>1. /\ n' = n + Len(es) /\ flight' = flight \cup Reports(es, n)
      /\ uses' = uses \cup Uses(es, n)
      /\ UNCHANGED <<status, typeOf, incidents, filed>>
  BY DEF Emits, tokenVars
<1>2. n \in Nat /\ n' \in Nat /\ n <= n' /\ Len(es) \in Nat
  BY <1>1 DEF Flows, FlowTypes, Heard
<1>3. \A f \in Reports(es, n) :
        /\ f.tok \in Tokens \cup {Other} /\ f.sev \in Severities
        /\ f.no \in (n + 1)..n' /\ f.from = "gateway" /\ f.ev = es[f.no - n]
  BY <1>1, <1>2, ReportsOf
<1>4. \A u \in Uses(es, n) :
        /\ u.tok \in Tokens /\ status[u.tok] = "active" /\ u.no \in (n + 1)..n'
        /\ u \in [tok : Tokens, no : Nat, served : BOOLEAN]
        /\ PlantedUse(getTokenType(typeOf[u.tok]), es[u.no - n], u.tok)
        /\ u.served = Answered(es[u.no - n])
  BY <1>1, <1>2, UsesOf
<1>5. FlowTypes'
  <2>1. \A f \in flight' : f.tok \in Tokens \cup {Other} /\ f.no \in 1..n'
          /\ f.sev \in Severities /\ f.from \in Sources
    <3>1. \A f \in flight : f.tok \in Tokens \cup {Other} /\ f.no \in 1..n'
            /\ f.sev \in Severities /\ f.from \in Sources
      BY <1>2 DEF Flows, FlowTypes
    <3>2. \A f \in Reports(es, n) : f.tok \in Tokens \cup {Other} /\ f.no \in 1..n'
            /\ f.sev \in Severities /\ f.from \in Sources
      <4>1. (n + 1)..n' \subseteq 1..n' /\ "gateway" \in Sources
        BY <1>2 DEF Sources
      <4>2. QED
        BY <1>3, <4>1
    <3>3. QED
      BY <1>1, <3>1, <3>2
  <2>2. incidents' \subseteq
          [id : 1..filed', tok : Tokens, no : 1..n', sev : Severities, agent : BOOLEAN]
    BY <1>1, <1>2 DEF Flows, FlowTypes
  <2>3. uses' \subseteq [tok : Tokens, no : 1..n', served : BOOLEAN]
    BY <1>1, <1>2, <1>4 DEF Flows, FlowTypes
  <2>4. QED
    BY <1>1, <1>2, <2>1, <2>2, <2>3 DEF Flows, FlowTypes
<1>6. Rows'
  BY <1>1 DEF Flows, Rows
<1>7. Unfiled'
  <2>1. \A f, g \in flight' : f.tok = g.tok /\ f.no = g.no => f = g
    <3>1. \A f, g \in Reports(es, n) : f.tok = g.tok /\ f.no = g.no => f = g
      BY <1>2, ReportsOf
    <3>2. \A f \in flight : f.no <= n
      BY <1>2 DEF Flows, FlowTypes
    <3>3. \A f \in Reports(es, n) : n < f.no
      BY <1>2, <1>3
    <3>4. \A f \in flight, g \in Reports(es, n) : f.no # g.no
      BY <1>2, <1>3, <3>2, <3>3 DEF Flows, FlowTypes
    <3>5. QED
      BY <1>1, <3>1, <3>4 DEF Flows, Unfiled
  <2>2. \A f \in flight', i \in incidents' : ~(f.tok = i.tok /\ f.no = i.no)
    BY <1>1, <1>2, <1>3 DEF Flows, FlowTypes, Unfiled
  <2>3. QED
    BY <2>1, <2>2 DEF Unfiled
<1>8. Pending'
  <2>1. ASSUME NEW u \in uses PROVE
          /\ status'[u.tok] # "unused"
          /\ u.served \/ ~Uploaded
          /\ \E f \in flight' : f.tok = u.tok /\ f.no = u.no
          /\ \A f \in flight' : f.tok = u.tok /\ f.no = u.no /\ f.from = "gateway"
               => matchTrigger(getTokenType(typeOf'[u.tok]), f.ev, u.tok)
    <3>1. u.no \in 1..n
      BY DEF Flows, FlowTypes
    <3>2. \A f \in Reports(es, n) : f.no # u.no
      BY <1>2, <1>3, <3>1
    <3>3. QED
      BY <1>1, <3>2 DEF Flows, Pending
  <2>2. ASSUME NEW u \in Uses(es, n) PROVE
          /\ status'[u.tok] # "unused"
          /\ u.served \/ ~Uploaded
          /\ \E f \in flight' : f.tok = u.tok /\ f.no = u.no
          /\ \A f \in flight' : f.tok = u.tok /\ f.no = u.no /\ f.from = "gateway"
               => matchTrigger(getTokenType(typeOf'[u.tok]), f.ev, u.tok)
    <3> DEFINE d == getTokenType(typeOf[u.tok])
               i == u.no - n
    <3>1. /\ u.tok \in Tokens /\ status[u.tok] = "active" /\ u.no \in (n + 1)..n'
          /\ PlantedUse(d, es[i], u.tok) /\ u.served = Answered(es[i])
      BY <1>4
    <3>2. d \in ToSet(definitions)
      BY <3>1, TypeOfId DEF Flows, FlowTypes
    <3> HIDE DEF d
    <3>3. /\ matchTrigger(d, es[i], u.tok) /\ u.tok \in Candidates(es[i])
          /\ Uploaded => Answered(es[i])
      BY <3>1, <3>2, PlantedFires
    <3>4. i \in DOMAIN es /\ n + i = u.no
      BY <1>1, <1>2, <3>1 DEF Heard
    <3>5. PICK g \in Forwards(es[i]) : g.tok = u.tok
      BY <3>2, <3>3, Forwarded
    <3>6. \E f \in Reports(es, n) : f.tok = u.tok /\ f.no = u.no
      BY <3>4, <3>5, ReportsAre
    <3>7. \A f \in flight' : f.no = u.no => f.ev = es[i]
      <4>1. \A f \in flight : f.no # u.no
        BY <1>2, <3>1 DEF Flows, FlowTypes
      <4>2. QED
        BY <1>1, <1>3, <4>1
    <3>8. getTokenType(typeOf'[u.tok]) = d
      BY <1>1 DEF d
    <3>9. QED
      BY <1>1, <3>1, <3>3, <3>6, <3>7, <3>8
  <2>3. QED
    BY <1>1, <2>1, <2>2 DEF Pending
<1>9. QED
  BY <1>5, <1>6, <1>7, <1>8 DEF Flows

\* A sensor sends a report.
LEMMA FlowsSent ==
  ASSUME Flows, NEW t \in Tokens, NEW sev \in Severities, NEW from \in Sources,
         from # "gateway", Send(t, sev, from), UNCHANGED tokenVars
  PROVE  Flows'
<1> DEFINE new == [tok |-> t, sev |-> sev, no |-> n + 1, ev |-> AgentEvent, from |-> from]
           use == [tok |-> t, no |-> n + 1, served |-> TRUE]
<1>1. /\ n' = n + 1 /\ flight' = flight \cup {new}
      /\ uses' = uses \/ (uses' = uses \cup {use} /\ status[t] = "active")
      /\ UNCHANGED <<status, typeOf, incidents, filed>>
  BY DEF Send, tokenVars
<1>2. n \in Nat /\ n' \in Nat
  BY <1>1 DEF Flows, FlowTypes
<1>3. /\ new.tok = t /\ new.sev = sev /\ new.no = n + 1 /\ new.from = from
      /\ use.tok = t /\ use.no = n + 1 /\ use.served
      /\ use \in [tok : Tokens, no : 1..n', served : BOOLEAN]
  BY <1>1, <1>2
<1> HIDE DEF new, use
<1>4. \A f \in flight : f.no \in 1..n' /\ f.no # n + 1
  BY <1>1, <1>2 DEF Flows, FlowTypes
<1>5. FlowTypes'
  <2>1. \A f \in flight' : f.tok \in Tokens \cup {Other} /\ f.no \in 1..n'
          /\ f.sev \in Severities /\ f.from \in Sources
    BY <1>1, <1>2, <1>3, <1>4 DEF Flows, FlowTypes
  <2>2. incidents' \subseteq
          [id : 1..filed', tok : Tokens, no : 1..n', sev : Severities, agent : BOOLEAN]
    BY <1>1, <1>2 DEF Flows, FlowTypes
  <2>3. uses' \subseteq [tok : Tokens, no : 1..n', served : BOOLEAN]
    <3>1. uses \subseteq [tok : Tokens, no : 1..n', served : BOOLEAN]
      BY <1>1, <1>2 DEF Flows, FlowTypes
    <3>2. QED
      BY <1>1, <1>3, <3>1
  <2>4. QED
    BY <1>1, <1>2, <2>1, <2>2, <2>3 DEF Flows, FlowTypes
<1>6. Rows'
  BY <1>1 DEF Flows, Rows
<1>7. Unfiled'
  BY <1>1, <1>2, <1>3, <1>4 DEF Flows, FlowTypes, Unfiled
<1>8. Pending'
  <2>1. ASSUME NEW u \in uses PROVE
          /\ status'[u.tok] # "unused"
          /\ u.served \/ ~Uploaded
          /\ \E f \in flight' : f.tok = u.tok /\ f.no = u.no
          /\ \A f \in flight' : f.tok = u.tok /\ f.no = u.no /\ f.from = "gateway"
               => matchTrigger(getTokenType(typeOf'[u.tok]), f.ev, u.tok)
    BY <1>1, <1>3 DEF Flows, Pending
  <2>2. ASSUME status[t] = "active" PROVE
          /\ status'[use.tok] # "unused"
          /\ use.served \/ ~Uploaded
          /\ \E f \in flight' : f.tok = use.tok /\ f.no = use.no
          /\ \A f \in flight' : f.tok = use.tok /\ f.no = use.no /\ f.from = "gateway"
               => matchTrigger(getTokenType(typeOf'[use.tok]), f.ev, use.tok)
    BY <1>1, <1>3, <1>4, <2>2
  <2>3. QED
    BY <1>1, <2>1, <2>2 DEF Pending
<1>9. QED
  BY <1>5, <1>6, <1>7, <1>8 DEF Flows

\* The row of a report.
RowOf(i, f, sev) ==
    /\ incidents' = incidents \cup {i} /\ filed' = filed + 1
    /\ i \in [id : 1..filed', tok : Tokens, no : 1..n, sev : Severities, agent : BOOLEAN]
    /\ i.tok = f.tok /\ i.no = f.no /\ i.sev = sev
    /\ i.agent <=> f.from # "gateway"

\* A row is inserted for a report.
LEMMA Filed ==
  ASSUME FlowTypes, NEW f \in flight, f.tok \in Tokens, NEW sev \in Severities,
         Incident(f, sev)
  PROVE  \E i : RowOf(i, f, sev)
<1> DEFINE a == f.from # "gateway"
           i == [id |-> filed', tok |-> f.tok, no |-> f.no, sev |-> sev, agent |-> a]
<1>1. incidents' = incidents \cup {i} /\ filed' = filed + 1
  BY DEF Incident
<1>2. filed' \in 1..filed' /\ f.no \in 1..n
  BY <1>1 DEF FlowTypes
<1>3. a \in BOOLEAN
  OBVIOUS
<1>4. i.tok = f.tok /\ i.no = f.no /\ i.sev = sev /\ (i.agent <=> a)
  BY Zenon
<1>5. i \in [id : 1..filed', tok : Tokens, no : 1..n, sev : Severities, agent : BOOLEAN]
  <2> HIDE DEF a
  <2>1. QED
    BY <1>2, <1>3
<1>6. QED
  BY <1>1, <1>4, <1>5 DEF RowOf

\* A report leaves the network, with what was used.
LEMMA FlowsEnded ==
  ASSUME Flows, NEW f \in flight, Ends(f), Done(f), UNCHANGED <<incidents, filed>>,
         UNCHANGED <<tokenVars, n>>
  PROVE  Flows'
<1>1. /\ flight' = flight \ {f}
      /\ uses' = {u \in uses : u.tok # f.tok \/ u.no # f.no}
      /\ UNCHANGED <<status, typeOf, incidents, filed, n>>
  BY DEF Ends, Done, tokenVars
<1>2. FlowTypes'
  BY <1>1 DEF Flows, FlowTypes
<1>3. Rows'
  BY <1>1 DEF Flows, Rows
<1>4. Unfiled'
  BY <1>1 DEF Flows, Unfiled
<1>5. Pending'
  BY <1>1 DEF Flows, Pending
<1>6. QED
  BY <1>2, <1>3, <1>4, <1>5 DEF Flows

\* It is filed.
LEMMA FlowsFiled ==
  ASSUME Flows, NEW f \in flight, f.tok \in Tokens, status[f.tok] # "unused",
         NEW sev \in Severities,
         f.from = "gateway" => sev = getTokenType(typeOf[f.tok]).severity,
         Ends(f), Done(f), Incident(f, sev), UNCHANGED <<tokenVars, n>>
  PROVE  Flows'
<1>1. /\ flight' = flight \ {f}
      /\ uses' = {u \in uses : u.tok # f.tok \/ u.no # f.no}
      /\ UNCHANGED <<status, typeOf, n>>
  BY DEF Ends, Done, tokenVars
<1>2. PICK i : RowOf(i, f, sev)
  BY Filed DEF Flows
<1>3. FlowTypes'
  <2>1. incidents \subseteq
          [id : 1..filed', tok : Tokens, no : 1..n, sev : Severities, agent : BOOLEAN]
    BY <1>2 DEF Flows, FlowTypes, RowOf
  <2>2. filed' \in Nat
    BY <1>2 DEF Flows, FlowTypes, RowOf
  <2>3. incidents' \subseteq
          [id : 1..filed', tok : Tokens, no : 1..n, sev : Severities, agent : BOOLEAN]
    BY <1>2, <2>1 DEF RowOf
  <2>4. QED
    BY <1>1, <2>2, <2>3 DEF Flows, FlowTypes
<1>4. Rows'
  <2>1. IsFiniteSet(incidents')
    BY <1>2, FS_AddElement DEF Flows, Rows, RowOf
  <2>2. \A x \in incidents' :
          /\ status[x.tok] # "unused"
          /\ ~x.agent => x.sev = getTokenType(typeOf[x.tok]).severity
    BY <1>2 DEF Flows, Rows, RowOf
  <2>3. \A x, y \in incidents' : x.tok = y.tok /\ x.no = y.no => x = y
    BY <1>2 DEF Flows, Rows, Unfiled, RowOf
  <2>4. QED
    BY <1>1, <2>1, <2>2, <2>3 DEF Rows
<1>5. Unfiled'
  BY <1>1, <1>2 DEF Flows, Unfiled, RowOf
<1>6. Pending'
  BY <1>1 DEF Flows, Pending
<1>7. QED
  BY <1>3, <1>4, <1>5, <1>6 DEF Flows

\* A report that the token's own type does not match: nothing was used then.
LEMMA FlowsRefused ==
  ASSUME Flows, NEW f \in flight, f.from = "gateway",
         ~matchTrigger(getTokenType(typeOf[f.tok]), f.ev, f.tok),
         Ends(f), UNCHANGED <<incidents, filed, uses>>, UNCHANGED <<tokenVars, n>>
  PROVE  Flows'
<1>1. flight' = flight \ {f} /\ UNCHANGED <<status, typeOf, n, incidents, filed, uses>>
  BY DEF Ends, tokenVars
<1>2. \A u \in uses : ~(f.tok = u.tok /\ f.no = u.no)
  BY DEF Flows, Pending
<1>3. FlowTypes'
  BY <1>1 DEF Flows, FlowTypes
<1>4. Rows'
  BY <1>1 DEF Flows, Rows
<1>5. Unfiled'
  BY <1>1 DEF Flows, Unfiled
<1>6. Pending'
  BY <1>1, <1>2 DEF Flows, Pending
<1>7. QED
  BY <1>3, <1>4, <1>5, <1>6 DEF Flows

\* The API answers, or nobody does.
LEMMA FlowsAnswered ==
  ASSUME Flows, NEW f \in flight, Arrives(f) \/ Lost(f)
  PROVE  Flows'
<1>1. Ends(f) /\ UNCHANGED <<tokenVars, n>>
  BY DEF Arrives, Lost
<1>2. CASE Lost(f)
  BY <1>1, <1>2, FlowsEnded DEF Lost
<1>3. CASE Arrives(f) /\ ~(f.tok \in Tokens /\ status[f.tok] = "active")
  BY <1>1, <1>3, FlowsEnded DEF Arrives
<1>4. CASE Arrives(f) /\ f.tok \in Tokens /\ status[f.tok] = "active"
  <2> DEFINE d == getTokenType(typeOf[f.tok])
  <2>1. Ingest(f)
    BY <1>4 DEF Arrives
  <2>2. d.severity \in Severities
    <3>1. d \in ToSet(definitions)
      BY <1>4, TypeOfId DEF Flows, FlowTypes
    <3>2. QED
      BY <3>1, TypesSound DEF TypeSound
  <2>3. \/ f.from # "gateway" /\ Incident(f, f.sev) /\ Done(f)
        \/ f.from = "gateway" /\ Incident(f, d.severity) /\ Done(f)
        \/ /\ f.from = "gateway" /\ ~matchTrigger(d, f.ev, f.tok)
           /\ UNCHANGED <<incidents, filed, uses>>
    BY <2>1 DEF Ingest
  <2>4. f.sev \in Severities
    BY DEF Flows, FlowTypes
  <2>5. CASE f.from # "gateway" /\ Incident(f, f.sev) /\ Done(f)
    BY <1>1, <1>4, <2>4, <2>5, FlowsFiled
  <2>6. CASE f.from = "gateway" /\ Incident(f, d.severity) /\ Done(f)
    BY <1>1, <1>4, <2>2, <2>6, FlowsFiled
  <2>7. CASE /\ f.from = "gateway" /\ ~matchTrigger(d, f.ev, f.tok)
             /\ UNCHANGED <<incidents, filed, uses>>
    BY <1>1, <2>7, FlowsRefused
  <2>8. QED
    BY <2>3, <2>5, <2>6, <2>7
<1>5. QED
  BY <1>2, <1>3, <1>4

\* What the gateway hears over HTTP is about tokens or Other.
LEMMA HeardHttp ==
  ASSUME NEW r \in Requests
  PROVE  Heard(<<HttpEvent(r[1], r[2], r[3], r[4])>>)
<1> DEFINE e == HttpEvent(r[1], r[2], r[3], r[4])
<1>1. r[1] \in Seq(Tokens \cup {Other}) /\ r[2] \in Tokens \cup {Other}
  BY DetectionAssumption
<1>2. e.kind = "http" /\ e.host = r[1] /\ e.segment = r[2]
  BY DEF HttpEvent
<1>3. Candidates(e) = ToSet(r[1]) \cup (IF r[1] = <<>> THEN {r[2]} ELSE {})
  BY <1>2 DEF Candidates
<1>4. Candidates(e) \subseteq Tokens \cup {Other}
  BY <1>1, <1>3 DEF ToSet
<1> HIDE DEF e
<1>5. QED
  BY <1>4 DEF Heard, e

\* And what it hears over DNS.
LEMMA HeardDns ==
  ASSUME NEW h \in Hosts
  PROVE  Heard(<<DnsEvent(h)>>)
<1>1. h \in Seq(Tokens \cup {Other})
  BY DetectionAssumption
<1>2. Candidates(DnsEvent(h)) = ToSet(h)
  BY DEF Candidates, DnsEvent
<1>3. Candidates(DnsEvent(h)) \subseteq Tokens \cup {Other}
  BY <1>1, <1>2 DEF ToSet
<1>4. QED
  BY <1>3 DEF Heard

\* And in a message.
LEMMA HeardSmtp ==
  ASSUME NEW s \in Session
  PROVE  Heard([i \in DOMAIN Recipients(s) |-> SmtpEvent(Recipients(s)[i])])
<1> DEFINE q == Recipients(s)
           es == [i \in DOMAIN q |-> SmtpEvent(q[i])]
<1>1. q \in Seq(Tokens \cup {Other})
  <2>1. s.rcptTo \in Seq(Mailboxes)
    BY BoundedIs, SmtpAssumption DEF Session
  <2>2. QED
    BY <2>1, DetectionAssumption DEF Recipients
<1> HIDE DEF q
<1>2. DOMAIN q = 1..Len(q) /\ Len(q) \in Nat
  BY <1>1
<1>3. DOMAIN es = 1..Len(q) /\ Len(es) = Len(q)
  <2>1. es \in Seq({SmtpEvent(m) : m \in Tokens \cup {Other}})
    BY <1>1, <1>2
  <2>2. QED
    BY <1>2, <2>1
<1>4. ASSUME NEW i \in DOMAIN es PROVE Candidates(es[i]) \subseteq Tokens \cup {Other}
  <2>1. es[i] = SmtpEvent(q[i]) /\ q[i] \in Tokens \cup {Other}
    BY <1>1, <1>2
  <2>2. Candidates(SmtpEvent(q[i])) = {q[i]}
    BY DEF Candidates, SmtpEvent
  <2>3. QED
    BY <2>1, <2>2
<1> HIDE DEF es
<1>5. Heard(es)
  BY <1>2, <1>3, <1>4 DEF Heard
<1>6. QED
  BY <1>5 DEF es, q

\* What a step does to tokens and detections.
LEMMA StepKinds ==
  ASSUME Sessions, [Next]_vars
  PROVE  \/ \E t \in Tokens, k \in TypeIds : Create(t, k)
         \/ \E t \in Tokens, s \in StatusEdits : SetStatus(t, s)
         \/ \E t \in Tokens : HardDelete(t)
         \/ \E f \in flight : Arrives(f) \/ Lost(f)
         \/ \E es : Heard(es) /\ Emits(es) /\ UNCHANGED tokenVars
         \/ \E t \in Tokens, sev \in Severities, from \in Sources :
              from # "gateway" /\ Send(t, sev, from) /\ UNCHANGED tokenVars
         \/ UNCHANGED <<tokenVars, apiVars, uses, n>>
<1> DEFINE Emitted == \E es : Heard(es) /\ Emits(es) /\ UNCHANGED tokenVars
           Sent == \E t \in Tokens, sev \in Severities, from \in Sources :
                     from # "gateway" /\ Send(t, sev, from) /\ UNCHANGED tokenVars
           Same == UNCHANGED <<tokenVars, apiVars, uses, n>>
<1>1. ASSUME NEW r \in Requests, HttpRequest(r[1], r[2], r[3], r[4]) PROVE Emitted
  BY <1>1, HeardHttp DEF HttpRequest
<1>2. ASSUME NEW h \in Hosts, DnsQuery(h) PROVE Emitted
  BY <1>2, HeardDns DEF DnsQuery
<1>3. CASE SmtpDot
  <2>1. smtp \in Session
    BY DEF Sessions, SmtpOk
  <2>2. QED
    BY <1>3, <2>1, HeardSmtp DEF SmtpDot
<1>4. CASE \/ SmtpConnect \/ SmtpCommand \/ SmtpDataLine \/ SmtpDrop
           \/ AgentPanics \/ Touch
  BY <1>4 DEF SmtpConnect, SmtpCommand, SmtpDataLine, SmtpDrop, AgentPanics, Touch
<1>5. ASSUME NEW p \in Sensor!Protocols, NEW t \in Tokens, Connect(p, t) PROVE Same
  BY <1>5 DEF Connect
<1>6. CASE SensorStep
  <2>1. PICK s \in Sensor!Steps(conn, AlertOnGet) :
          /\ conn' = s.next
          /\ IF s.report = {} THEN UNCHANGED <<apiVars, uses, n>>
             ELSE \E r \in s.report : Send(connToken, r.sev, "connection")
    BY <1>6 DEF SensorStep
  <2>2. StepOk(conn, s) /\ connToken \in Tokens
    BY <1>6, StepsOk DEF Sessions, SensorStep
  <2>3. CASE s.report = {}
    BY <1>6, <2>1, <2>3 DEF SensorStep
  <2>4. CASE s.report # {}
    <3>1. PICK r \in s.report : Send(connToken, r.sev, "connection")
      BY <2>1, <2>4
    <3>2. r.sev \in Severities
      BY <2>2, <2>4 DEF StepOk
    <3>3. "connection" \in Sources /\ UNCHANGED tokenVars
      BY <1>6 DEF Sources, SensorStep
    <3>4. Sent
      BY <2>2, <3>1, <3>2, <3>3
    <3>5. QED
      BY <3>4
  <2>5. QED
    BY <2>3, <2>4
<1>7. ASSUME NEW t \in Tokens, WatchPoll(t) PROVE Sent
  <2>1. "file watch" \in Sources /\ "high" \in Severities
    BY DEF Sources, Severities
  <2>2. QED
    BY <1>7, <2>1 DEF WatchPoll
<1>8. CASE ApiNext
  <2>1. \A t \in Tokens : Types[t] \subseteq TypeIds
    BY DetectionAssumption
  <2>2. QED
    BY <1>8, <2>1 DEF ApiNext, ReportEnds
<1>9. CASE UNCHANGED vars
  BY <1>9 DEF vars
<1> HIDE DEF Emitted, Sent, Same
<1>10. CASE GatewayNext
  <2>1. Emitted \/ Same \/ SmtpNext
    BY <1>1, <1>2, <1>10 DEF GatewayNext
  <2>2. QED
    BY <1>3, <1>4, <2>1 DEF SmtpNext, Emitted, Same
<1>11. CASE SensorNext
  <2>1. SensorStep \/ AgentPanics \/ Touch \/ Same \/ Sent
    BY <1>5, <1>7, <1>11 DEF SensorNext
  <2>2. QED
    BY <1>4, <1>6, <2>1 DEF Same, Sent
<1>12. QED
  BY <1>8, <1>9, <1>10, <1>11 DEF Next

\* Every step keeps the detections.
LEMMA FlowsStep == Sessions /\ Flows /\ [Next]_vars => Flows'
<1> SUFFICES ASSUME Sessions, Flows, [Next]_vars PROVE Flows'
  OBVIOUS
<1>1. CASE UNCHANGED <<tokenVars, apiVars, uses, n>>
  BY <1>1 DEF tokenVars, apiVars, Flows, FlowTypes, Rows, Unfiled, Pending
<1>2. QED
  BY <1>1, StepKinds, FlowsMinted, FlowsStatus, FlowsDeleted, FlowsAnswered,
     FlowsEmitted, FlowsSent

\* Where they begin.
LEMMA FlowsBegin == Init => Flows
BY FS_EmptySet DEF Init, Flows, FlowTypes, Rows, Unfiled, Pending

\* The inductive invariant of sessions and detections.
LEMMA FlowsHold == Spec => [](Sessions /\ Flows)
BY SessionsBegin, SessionsStep, FlowsBegin, FlowsStep, PTL DEF Spec

\* One event is at most one incident of a token, with the severity of its type.
THEOREM OnceFiled == Spec => []OncePerEvent
<1>1. Flows => OncePerEvent
  BY DEF Flows, Rows, OncePerEvent
<1>2. QED
  BY <1>1, FlowsHold, PTL

\* What is planted for an active token fires it.
THEOREM PlantedDetected == Spec => []Detected
<1>1. Flows => Detected
  BY DEF Flows, Pending, Detected
<1>2. QED
  BY <1>1, FlowsHold, PTL

(***************************************************************************)
(* The bound on events leaves room for the reports of a probe.             *)
(***************************************************************************)

\* What a connection has reported.
Told(c) == {e \in Sensor!Events : c.told[e] > 0}

\* What room is kept for it.
Owed(c) == IF c.proto \in Sensor!Probes THEN 2 - Cardinality(Told(c)) ELSE 0

Budget == n \in Nat /\ n + Owed(conn) <= MaxEvents

\* One, two or no events.
LEMMA ToldIs ==
  ASSUME NEW c, NEW E \in SUBSET Sensor!Events, c.told = Once(E)
  PROVE  Told(c) = E
BY DEF Told, Once

\* How many of two.
LEMMA FewEvents ==
  ASSUME NEW E, NEW e, e \notin E, E = {} \/ \E a : E = {a}
  PROVE  /\ Cardinality(E) \in 0..1
         /\ Cardinality(E \cup {e}) = Cardinality(E) + 1
<1>1. CASE E = {}
  BY <1>1, FS_EmptySet, FS_AddElement
<1>2. CASE \E a : E = {a}
  <2>1. IsFiniteSet(E) /\ Cardinality(E) = 1
    BY <1>2, FS_Singleton
  <2>2. QED
    BY <2>1, FS_AddElement
<1>3. QED
  BY <1>1, <1>2

\* A connection is owed two reports at most.
LEMMA OwedIs ==
  ASSUME NEW c, ConnOk(c)
  PROVE  Owed(c) \in 0..2
<1>1. CASE c.proto \in Sensor!Probes
  <2>1. \/ c.told = Once({})
        \/ \E e \in Sensor!Events : c.told = Once({e})
        \/ c.told = Once({"negotiate", "credentials"})
        \/ c.told = Once({"connection_request", "credentials"})
    BY <1>1 DEF ConnOk, SmbOk, RdpOk, Sensor!Probes, Sensor!Events
  <2>2. CASE c.told = Once({})
    BY <1>1, <2>2, ToldIs, FS_EmptySet DEF Owed
  <2>3. CASE \E e \in Sensor!Events : c.told = Once({e})
    <3>1. PICK e \in Sensor!Events : c.told = Once({e})
      BY <2>3
    <3>2. Told(c) = {e}
      BY <3>1, ToldIs
    <3>3. QED
      BY <1>1, <3>2, FS_Singleton DEF Owed
  <2>4. ASSUME NEW a \in {"negotiate", "connection_request"},
               c.told = Once({a, "credentials"})
        PROVE  Owed(c) \in 0..2
    <3> DEFINE A == {a}
    <3>1. {a, "credentials"} \in SUBSET Sensor!Events /\ "credentials" \notin A
          /\ A \cup {"credentials"} = {a, "credentials"} /\ A = {a}
      BY DEF Sensor!Events
    <3>2. Told(c) = {a, "credentials"}
      BY <2>4, <3>1, ToldIs
    <3> HIDE DEF A
    <3>3. Cardinality(Told(c)) = Cardinality(A) + 1 /\ Cardinality(A) \in 0..1
      BY <3>1, <3>2, FewEvents
    <3>4. QED
      BY <1>1, <3>3 DEF Owed
  <2>5. QED
    BY <2>1, <2>2, <2>3, <2>4
<1>2. QED
  BY <1>1 DEF Owed

\* A report is one that was owed.
LEMMA OwedAfter ==
  ASSUME NEW c, ConnOk(c), NEW next, c.proto \in Sensor!Probes, next.proto = c.proto,
         Counted(c, next)
  PROVE  Owed(next) = Owed(c) - 1
<1>1. PICK E \in SUBSET Sensor!Events, e \in Sensor!Events :
        /\ E = {} \/ \E a \in Sensor!Events : E = {a}
        /\ e \notin E
        /\ c.told = Once(E) /\ next.told = Once(E \cup {e})
  BY DEF Counted
<1>2. Told(c) = E /\ Told(next) = E \cup {e}
  BY <1>1, ToldIs
<1>3. Cardinality(E) \in 0..1 /\ Cardinality(E \cup {e}) = Cardinality(E) + 1
  BY <1>1, FewEvents
<1>4. QED
  BY <1>2, <1>3 DEF Owed

\* A connection that comes to rest, or goes on as it was, is owed no more.
LEMMA OwedLess ==
  ASSUME NEW c, ConnOk(c), NEW next,
         next.proto \in Sensor!Probes => next.proto = c.proto /\ next.told = c.told
  PROVE  Owed(next) <= Owed(c) /\ Owed(next) \in Int
<1>1. Owed(c) \in 0..2
  BY OwedIs
<1>2. CASE next.proto \in Sensor!Probes
  BY <1>1, <1>2 DEF Owed, Told
<1>3. QED
  BY <1>1, <1>2 DEF Owed

\* Every step keeps within it.
LEMMA BudgetStep == Sessions /\ Budget /\ [Next]_vars => Budget'
<1> SUFFICES ASSUME Sessions, Budget, [Next]_vars PROVE Budget'
  OBVIOUS
<1>0. /\ ConnOk(conn) /\ Owed(conn) \in 0..2 /\ n \in Nat /\ MaxEvents \in Nat
      /\ n + Owed(conn) <= MaxEvents /\ Reserved = Owed(conn)
  BY OwedIs, DetectionAssumption DEF Sessions, Budget, Reserved, Owed, Told
<1>1. ASSUME n' = n, conn' = conn PROVE Budget'
  BY <1>0, <1>1 DEF Budget, Owed, Told
<1>2. ASSUME NEW es, Heard(es), Emits(es), conn' = conn PROVE Budget'
  BY <1>0, <1>2 DEF Heard, Emits, Budget, Owed, Told
<1>3. ASSUME NEW f \in flight, Arrives(f) \/ Lost(f) PROVE Budget'
  <2>1. n' = n
    BY <1>3 DEF Arrives, Lost
  <2>2. conn' = conn \/ conn' = Sensor!Settled([conn EXCEPT !.waiting = FALSE])
    BY <1>3 DEF Arrives, Lost, Ends
  <2>3. conn'.proto \in Sensor!Probes => conn'.proto = conn.proto /\ conn'.told = conn.told
    BY <1>0, <2>2, Answers
  <2>4. Owed(conn') <= Owed(conn) /\ Owed(conn') \in Int
    BY <1>0, <2>3, OwedLess
  <2>5. n + Owed(conn') <= MaxEvents
    BY <1>0, <2>4
  <2>6. QED
    BY <1>0, <2>1, <2>5 DEF Budget, Owed, Told
<1>4. ASSUME NEW p \in Sensor!Protocols, NEW t \in Tokens, Connect(p, t) PROVE Budget'
  <2> DEFINE c == Sensor!Accepted(p)
  <2>1. /\ n' = n /\ conn' = c
        /\ p \in Sensor!Probes => n + 2 <= MaxEvents
    BY <1>4 DEF Connect, apiVars
  <2>2. c.proto = p /\ Told(c) = {}
    BY DEF Sensor!Accepted, Told
  <2>3. Owed(c) = IF p \in Sensor!Probes THEN 2 ELSE 0
    BY <2>2, FS_EmptySet DEF Owed
  <2> HIDE DEF c
  <2>4. n + Owed(c) <= MaxEvents
    BY <1>0, <2>1, <2>3
  <2>5. QED
    BY <1>0, <2>1, <2>4 DEF Budget, Owed, Told
<1>5. CASE SensorStep
  <2>1. PICK s \in Sensor!Steps(conn, AlertOnGet) :
          /\ conn' = s.next
          /\ IF s.report = {} THEN UNCHANGED <<apiVars, uses, n>>
             ELSE \E r \in s.report :
                    /\ conn.proto \in Sensor!Probes \/ n < MaxEvents
                    /\ Send(connToken, r.sev, "connection")
    BY <1>5 DEF SensorStep
  <2>2. StepOk(conn, s)
    BY <1>5, StepsOk DEF Sessions, SensorStep
  <2>3. ConnOk(s.next)
    BY <2>2 DEF StepOk
  <2>4. CASE s.report = {}
    <3>1. n' = n /\ (s.next.proto \in Sensor!Probes =>
                       s.next.proto = conn.proto /\ s.next.told = conn.told)
      BY <2>1, <2>2, <2>4 DEF StepOk
    <3>2. Owed(s.next) <= Owed(conn) /\ Owed(s.next) \in Int
      BY <1>0, <3>1, OwedLess
    <3>3. n + Owed(s.next) <= MaxEvents
      BY <1>0, <3>2
    <3>4. QED
      BY <1>0, <2>1, <3>1, <3>3 DEF Budget, Owed, Told
  <2>5. CASE s.report # {}
    <3>1. /\ n' = n + 1
          /\ conn.proto \in Sensor!Probes \/ n < MaxEvents
          /\ s.next.proto = conn.proto
          /\ conn.proto \in Sensor!Probes => Counted(conn, s.next)
      BY <2>1, <2>2, <2>5 DEF StepOk, Send
    <3>2. CASE conn.proto \in Sensor!Probes
      <4>1. Owed(s.next) = Owed(conn) - 1
        BY <1>0, <3>1, <3>2, OwedAfter
      <4>2. n' \in Nat /\ n' + Owed(s.next) <= MaxEvents
        BY <1>0, <3>1, <4>1
      <4>3. n' \in Nat /\ n' + Owed(conn') <= MaxEvents
        BY <2>1, <4>2
      <4>4. QED
        BY <4>3 DEF Budget, Owed, Told
    <3>3. CASE conn.proto \notin Sensor!Probes
      <4>1. Owed(s.next) = 0 /\ n + 1 <= MaxEvents
        BY <1>0, <3>1, <3>3 DEF Owed
      <4>2. n' \in Nat /\ n' + Owed(conn') <= MaxEvents
        BY <1>0, <2>1, <3>1, <4>1
      <4>3. QED
        BY <4>2 DEF Budget, Owed, Told
    <3>4. QED
      BY <3>2, <3>3
  <2>6. QED
    BY <2>4, <2>5
<1>6. ASSUME NEW t \in Tokens, WatchPoll(t) PROVE Budget'
  <2>1. n' = n + 1 /\ conn' = conn /\ n + 1 + Owed(conn) <= MaxEvents
    BY <1>0, <1>6 DEF WatchPoll, Send
  <2>2. QED
    BY <1>0, <2>1 DEF Budget, Owed, Told
<1>7. CASE GatewayNext
  <2>1. ASSUME NEW r \in Requests, HttpRequest(r[1], r[2], r[3], r[4]) PROVE Budget'
    BY <1>2, <2>1, HeardHttp DEF HttpRequest, sensorVars
  <2>2. ASSUME NEW h \in Hosts, DnsQuery(h) PROVE Budget'
    BY <1>2, <2>2, HeardDns DEF DnsQuery, sensorVars
  <2>3. CASE SmtpDot
    <3>1. smtp \in Session
      BY DEF Sessions, SmtpOk
    <3>2. QED
      BY <1>2, <2>3, <3>1, HeardSmtp DEF SmtpDot, sensorVars
  <2>4. CASE SmtpConnect \/ SmtpCommand \/ SmtpDataLine \/ SmtpDrop
    BY <1>1, <2>4 DEF SmtpConnect, SmtpCommand, SmtpDataLine, SmtpDrop, sensorVars
  <2>5. QED
    BY <1>7, <2>1, <2>2, <2>3, <2>4 DEF GatewayNext, SmtpNext
<1>8. CASE ApiNext
  BY <1>1, <1>3, <1>8
     DEF ApiNext, Create, SetStatus, HardDelete, ReportEnds, sensorVars
<1>9. CASE AgentPanics
  <2>1. n' = n /\ conn' = Idle
    BY <1>9, PanicEnds DEF AgentPanics
  <2>2. Owed(Idle) = 0
    BY ConnBegins DEF Owed, Sensor!Probes
  <2>3. Owed(conn) \in Nat
    BY <1>0
  <2>4. n \in Nat /\ n + 0 <= MaxEvents
    BY <1>0, <2>3, DetectionAssumption DEF Budget
  <2>5. QED
    BY <2>1, <2>2, <2>4 DEF Budget, Owed, Told
<1>10. CASE SensorNext
  BY <1>1, <1>4, <1>5, <1>6, <1>9, <1>10 DEF SensorNext, Touch
<1>11. CASE UNCHANGED vars
  BY <1>1, <1>11 DEF vars, sensorVars
<1>12. QED
  BY <1>7, <1>8, <1>10, <1>11 DEF Next

\* Where it begins.
LEMMA BudgetBegin == Init => Budget
<1> SUFFICES ASSUME Init PROVE Budget
  OBVIOUS
<1>1. conn = Idle /\ n = 0
  BY DEF Init, Idle
<1>2. Idle.proto \notin Sensor!Probes
  BY ConnBegins DEF Sensor!Probes
<1>3. QED
  BY <1>1, <1>2, DetectionAssumption DEF Budget, Owed

\* Everything has its type, and the bound on events is kept.
THEOREM TypeCorrect == Spec => []TypeOK
<1>1. Sessions /\ Flows /\ Budget => TypeOK
  <2> SUFFICES ASSUME Sessions, Flows, Budget PROVE TypeOK
    OBVIOUS
  <2>1. n \in 0..MaxEvents
    BY OwedIs, DetectionAssumption DEF Sessions, Budget
  <2>2. QED
    BY <2>1 DEF TypeOK, Sessions, SmtpOk, ConnOk, Flows, FlowTypes
<1>2. QED
  BY <1>1, FlowsHold, SessionsBegin, SessionsStep, BudgetBegin, BudgetStep, PTL DEF Spec

(***************************************************************************)
(* Detection keeps to the life of the tokens.                              *)
(***************************************************************************)

\* The type of a token, as its life knows it, and the number of its rows.
KindOf == [t \in Tokens |-> IF typeOf[t] \in {"none", "honeypot"} THEN typeOf[t] ELSE "redirect"]
RowsOf(t) == {i \in incidents : i.tok = t}
CountOf == [t \in Tokens |-> Cardinality(RowsOf(t))]

\* A token is minted there too.
LEMMA LifeMints ==
  ASSUME Flows, NEW t \in Tokens, NEW k \in TypeIds, Create(t, k)
  PROVE  Lifecycle!TokenNext
<1>1. /\ status[t] = "unused"
      /\ status' = [status EXCEPT ![t] = "active"] /\ typeOf' = [typeOf EXCEPT ![t] = k]
      /\ incidents' = incidents
  BY DEF Create, apiVars
<1>2. /\ status \in [Tokens -> {"unused", "active", "paused", "revoked", "deleted"}]
      /\ typeOf \in [Tokens -> TypeIds \cup {"none"}]
  BY DEF Flows, FlowTypes
<1>3. k # "none"
  <2>1. \E d \in ToSet(definitions) : d.id = k
    BY DEF TypeIds
  <2>2. QED
    BY <2>1, TypesSound DEF TypeSound
<1>4. CountOf' = CountOf
  BY <1>1 DEF CountOf, RowsOf
<1>5. CASE k = "honeypot"
  <2>1. KindOf' = [x \in Tokens |-> IF x \in {t} THEN "honeypot" ELSE KindOf[x]]
    BY <1>1, <1>2, <1>5 DEF KindOf
  <2>2. status' = [x \in Tokens |-> IF x \in {t} THEN "active" ELSE status[x]]
    BY <1>1, <1>2
  <2>3. Lifecycle!PutSensors({}, {t})
    BY <1>1, <1>4, <2>1, <2>2
       DEF Lifecycle!PutSensors, Lifecycle!jobVars, KindOf, CountOf, RowsOf
  <2>4. QED
    BY <2>3 DEF Lifecycle!TokenNext, Lifecycle!RowNext
<1>6. CASE k # "honeypot"
  <2>1. KindOf' = [KindOf EXCEPT ![t] = "redirect"]
    BY <1>1, <1>2, <1>3, <1>6 DEF KindOf
  <2>2. [x \in Tokens |-> 0] = [[x \in Tokens |-> 0] EXCEPT ![t] = 0]
    OBVIOUS
  <2>3. Lifecycle!Create(t, "redirect")
    BY <1>1, <1>4, <2>1, <2>2
       DEF Lifecycle!Create, Lifecycle!Mint, Lifecycle!jobVars, KindOf, CountOf, RowsOf
  <2>4. QED
    BY <2>3 DEF Lifecycle!TokenNext, Lifecycle!RowNext
<1>7. QED
  BY <1>5, <1>6

\* Its status is set there too.
LEMMA LifeStatus ==
  ASSUME Flows, NEW t \in Tokens, NEW s \in StatusEdits, SetStatus(t, s)
  PROVE  Lifecycle!TokenNext
<1>1. /\ Exists(t) /\ status' = [status EXCEPT ![t] = s]
      /\ UNCHANGED <<typeOf, incidents>>
      /\ s \in {"active", "paused", "revoked"}
  BY DetectionAssumption DEF SetStatus, apiVars
<1>2. CountOf' = CountOf /\ KindOf' = KindOf
  BY <1>1 DEF CountOf, RowsOf, KindOf
<1>3. Lifecycle!SetStatus(t, s)
  BY <1>1, <1>2 DEF Lifecycle!SetStatus, Lifecycle!Exists, Lifecycle!Statuses,
     Lifecycle!jobVars, Exists, KindOf, CountOf, RowsOf
<1>4. QED
  BY <1>1, <1>3 DEF Lifecycle!TokenNext, Lifecycle!RowNext, Lifecycle!Statuses

\* It is deleted there too.
LEMMA LifeDeletes ==
  ASSUME Flows, NEW t \in Tokens, HardDelete(t)
  PROVE  Lifecycle!TokenNext
<1>1. /\ Exists(t) /\ status' = [status EXCEPT ![t] = "deleted"]
      /\ incidents' = {i \in incidents : i.tok # t} /\ typeOf' = typeOf
  BY DEF HardDelete
<1>2. KindOf' = KindOf
  BY <1>1 DEF KindOf
<1>3. CountOf' = [x \in Tokens |-> IF x \in {t} THEN 0 ELSE CountOf[x]]
  <2>1. RowsOf(t)' = {}
    BY <1>1 DEF RowsOf
  <2>2. \A x \in Tokens : x # t => RowsOf(x)' = RowsOf(x)
    BY <1>1 DEF RowsOf
  <2>3. QED
    BY <2>1, <2>2, FS_EmptySet DEF CountOf
<1>4. status' = [x \in Tokens |-> IF x \in {t} /\ Exists(x) THEN "deleted" ELSE status[x]]
  BY <1>1 DEF Flows, FlowTypes
<1>5. Lifecycle!HardDelete({t})
  BY <1>1, <1>2, <1>3, <1>4
     DEF Lifecycle!HardDelete, Lifecycle!Exists, Lifecycle!Statuses, Lifecycle!jobVars,
         Exists, KindOf, CountOf, RowsOf
<1>6. QED
  BY <1>5 DEF Lifecycle!TokenNext, Lifecycle!RowNext

\* A report is filed there too: its token is active, and one more row is within

\* the bound, as each is of another event.
LEMMA LifeIngests ==
  ASSUME Flows, Flows', n \in 0..MaxEvents, n' = n, NEW f \in flight, f.tok \in Tokens,
         status[f.tok] = "active",
         NEW sev \in Severities, Incident(f, sev), UNCHANGED tokenVars
  PROVE  Lifecycle!TokenNext
<1> DEFINE t == f.tok
           S == RowsOf(t)
           T == RowsOf(t)'
<1>1. PICK i : RowOf(i, f, sev)
  BY Filed DEF Flows
<1>2. T = S \cup {i} /\ i \notin S
  BY <1>1 DEF RowOf, RowsOf, Flows, Unfiled
<1>3. \A x \in Tokens : x # t => RowsOf(x)' = RowsOf(x)
  BY <1>1 DEF RowOf, RowsOf
<1>4. IsFiniteSet(S) /\ IsFiniteSet(T)
  <2>1. S \in SUBSET incidents /\ T \in SUBSET incidents'
    BY DEF RowsOf
  <2>2. IsFiniteSet(incidents) /\ IsFiniteSet(incidents')
    BY DEF Flows, Rows
  <2> HIDE DEF S, T
  <2>3. QED
    BY <2>1, <2>2, FS_Subset
<1>5. Cardinality(T) <= n
  <2> DEFINE g == [x \in T |-> x.no]
  <2>1. \A x \in T : x.no \in 1..n
    BY DEF Flows, FlowTypes, RowsOf
  <2>2. \A x, y \in T : x.no = y.no => x = y
    BY DEF Flows, Rows, RowsOf
  <2> HIDE DEF T
  <2>3. g \in [T -> 1..n] /\ \A x, y \in T : g[x] = g[y] => x = y
    BY <2>1, <2>2
  <2> HIDE DEF g
  <2>4. g \in Injection(T, 1..n)
    BY <2>3 DEF Injection, IsInjective
  <2>5. IsFiniteSet(1..n) /\ Cardinality(1..n) = n
    BY FS_Interval
  <2>6. QED
    BY <2>4, <2>5, FS_Injection
<1> HIDE DEF S, T, t
<1>6. Cardinality(T) = Cardinality(S) + 1 /\ Cardinality(S) \in Nat
  BY <1>2, <1>4, FS_AddElement, FS_CardinalityType
<1>7. Cardinality(S) < MaxEvents
  BY <1>5, <1>6, DetectionAssumption
<1>8. t \in Tokens /\ status[t] = "active" /\ CountOf[t] < MaxEvents
      /\ CountOf[t] = Cardinality(S)
  BY <1>7 DEF CountOf, S, t
<1>9. CountOf' = [CountOf EXCEPT ![t] = Cardinality(S) + 1]
  BY <1>3, <1>6, <1>8 DEF CountOf, T, t
<1>10. status' = status /\ KindOf' = KindOf
  BY DEF tokenVars, KindOf
<1>11. CountOf' = [CountOf EXCEPT ![t] = CountOf[t] + 1]
  BY <1>8, <1>9
<1>12. Lifecycle!Ingest(t)
  BY <1>8, <1>10, <1>11
     DEF Lifecycle!Ingest, Lifecycle!jobVars, KindOf, CountOf, RowsOf
<1>13. QED
  BY <1>8, <1>12 DEF Lifecycle!TokenNext, Lifecycle!RowNext

\* Tokens and rows as they were are no step there.
LEMMA LifeRests ==
  ASSUME UNCHANGED <<tokenVars, incidents>>
  PROVE  UNCHANGED Lifecycle!tokenVars
<1>1. status' = status /\ KindOf' = KindOf /\ CountOf' = CountOf
  BY DEF tokenVars, KindOf, CountOf, RowsOf
<1>2. QED
  BY <1>1 DEF Lifecycle!tokenVars, Lifecycle!rowVars, Lifecycle!jobVars, KindOf, CountOf,
     RowsOf

\* Every step of detection is a step of the tokens' life, or none.
LEMMA LifeStep ==
  ASSUME Sessions, Flows, Budget, [Next]_vars
  PROVE  [Lifecycle!TokenNext]_(Lifecycle!tokenVars)
<1>1. Flows' /\ n \in 0..MaxEvents
  BY FlowsStep, OwedIs, DetectionAssumption DEF Sessions, Budget
<1>2. ASSUME NEW f \in flight, Arrives(f) \/ Lost(f)
      PROVE  [Lifecycle!TokenNext]_(Lifecycle!tokenVars)
  <2>1. UNCHANGED tokenVars /\ n' = n
    BY <1>2 DEF Arrives, Lost
  <2>2. CASE incidents' = incidents
    BY <2>1, <2>2, LifeRests
  <2>3. CASE incidents' # incidents
    <3>1. f.tok \in Tokens /\ status[f.tok] = "active" /\ Ingest(f)
      BY <1>2, <2>3 DEF Arrives, Lost
    <3>2. PICK sev \in {f.sev, getTokenType(typeOf[f.tok]).severity} : Incident(f, sev)
      BY <2>3, <3>1 DEF Ingest
    <3>3. getTokenType(typeOf[f.tok]) \in ToSet(definitions)
      BY <3>1, TypeOfId DEF Flows, FlowTypes
    <3>4. sev \in Severities
      BY <3>3, TypesSound DEF TypeSound, Flows, FlowTypes
    <3>5. QED
      BY <1>1, <2>1, <3>1, <3>2, <3>4, LifeIngests
  <2>4. QED
    BY <2>2, <2>3
<1>3. ASSUME NEW es, Emits(es), UNCHANGED tokenVars
      PROVE  [Lifecycle!TokenNext]_(Lifecycle!tokenVars)
  BY <1>3, LifeRests DEF Emits
<1>4. ASSUME NEW t, NEW sev, NEW from, Send(t, sev, from), UNCHANGED tokenVars
      PROVE  [Lifecycle!TokenNext]_(Lifecycle!tokenVars)
  BY <1>4, LifeRests DEF Send
<1>5. CASE UNCHANGED <<tokenVars, apiVars, uses, n>>
  BY <1>5, LifeRests DEF apiVars
<1>6. QED
  BY <1>2, <1>3, <1>4, <1>5, StepKinds, LifeMints, LifeStatus, LifeDeletes

\* It begins where that begins.
LEMMA LifeBegins == Init => Lifecycle!TokenInit
<1> SUFFICES ASSUME Init PROVE Lifecycle!TokenInit
  OBVIOUS
<1>1. \A t \in Tokens : Cardinality(RowsOf(t)) = 0
  <2>1. \A t \in Tokens : RowsOf(t) = {}
    BY DEF Init, RowsOf
  <2>2. QED
    BY <2>1, FS_EmptySet
<1>2. CountOf = [t \in Tokens |-> 0] /\ KindOf = [t \in Tokens |-> "none"]
  BY <1>1 DEF CountOf, KindOf, Init
<1>3. QED
  BY <1>2 DEF Init, Lifecycle!TokenInit, CountOf, KindOf, RowsOf

\* The tokens and their incidents behave as TokenLifecycle says: only an active
\* token gets an incident, and a deleted one has none.
THEOREM KeepsToLifecycle == Spec => FollowsLifecycle
<1>1. Spec => [](Sessions /\ Flows /\ Budget)
  BY FlowsHold, SessionsBegin, SessionsStep, BudgetBegin, BudgetStep, PTL DEF Spec
<1>2. Sessions /\ Flows /\ Budget /\ [Next]_vars
        => [Lifecycle!TokenNext]_(Lifecycle!tokenVars)
  BY LifeStep
<1>3. QED
  BY <1>1, <1>2, LifeBegins, PTL DEF Spec, FollowsLifecycle, Lifecycle!TokenSpec
=============================================================================
