----------------------------- MODULE SmtpSession -----------------------------
(***************************************************************************)
(* One SMTP connection of the gateway (apps/gateway/src/smtp.ts), line by  *)
(* line.  A recipient is a mailbox of our domains or Foreign; a sender is   *)
(* only empty or not, as the code tests no more.  Every operator takes the *)
(* session and gives the next one.                                         *)
(***************************************************************************)
EXTENDS Naturals, Sequences, SequencesExt, FiniteSets

CONSTANTS
    Mailboxes,    \* of our domains
    Foreign,      \* any address of another domain
    MAX_RCPT,
    MAX_BYTES     \* bound of a message, in lines

ASSUME SmtpAssumption ==
    Foreign \notin Mailboxes /\ MAX_RCPT \in Nat \ {0} /\ MAX_BYTES \in Nat

\* due: history, the recipients of ours that were accepted since the
\* transaction began.
Greeted ==
    [open |-> TRUE, inData |-> FALSE, dataBytes |-> 0, mailFrom |-> FALSE,
     rcptTo |-> <<>>, rcptCount |-> 0, due |-> <<>>]

Closed == [Greeted EXCEPT !.open = FALSE]

Session ==
    [open : BOOLEAN, inData : BOOLEAN, dataBytes : 0..MAX_BYTES, mailFrom : BOOLEAN,
     rcptTo : BoundedSeq(Mailboxes, MAX_RCPT), rcptCount : 0..(MAX_RCPT + 1),
     due : BoundedSeq(Mailboxes, MAX_RCPT)]

\* Variant: the recipients survive.
reset_KeepsRcpts(s) ==
    [s EXCEPT !.inData = FALSE, !.dataBytes = 0, !.mailFrom = FALSE, !.due = <<>>]

\* The count of recipients is kept.
reset(s) ==
    [s EXCEPT !.inData = FALSE, !.dataBytes = 0, !.rcptTo = <<>>, !.mailFrom = FALSE, !.due = <<>>]

\* MAIL FROM:<...>, refused inside a transaction; null: the empty sender of a
\* bounce, which does not begin one.
Mail(s, null) ==
    IF s.mailFrom \/ s.rcptTo # <<>> THEN s ELSE [s EXCEPT !.mailFrom = ~null]

\* The bound of the model stops the counter where it no longer matters.
Count(s) == [s EXCEPT !.rcptCount = IF @ > MAX_RCPT THEN @ ELSE @ + 1]

\* RCPT TO:<to>: too many are refused, and those of other domains accepted and
\* dropped.
Rcpt(s, to) ==
    LET c == Count(s) IN
    IF c.rcptCount > MAX_RCPT \/ to = Foreign THEN c
    ELSE [c EXCEPT !.rcptTo = Append(@, to), !.due = Append(@, to)]

\* DATA needs a recipient.
Data(s) == IF s.rcptTo = <<>> THEN s ELSE [s EXCEPT !.inData = TRUE]

\* Variant: the size is not checked.
DataLine_NoLimit(s) == [s EXCEPT !.dataBytes = @ + 1]

\* A line of the message that is not its end; one too many ends the session.
DataLine(s) ==
    IF s.dataBytes + 1 > MAX_BYTES THEN Closed ELSE [s EXCEPT !.dataBytes = @ + 1]

\* The sessions one line outside a message may lead to; the other verbs, and
\* bad ones, change nothing, and after QUIT the lines that came with it are
\* still read.
Command(s) ==
    {Mail(s, null) : null \in BOOLEAN}
        \cup {Rcpt(s, to) : to \in Mailboxes \cup {Foreign}}
        \cup {Data(s), reset(s)}

\* The end of a message: one event for each of its recipients, in order.
finishMessage(s) == reset(s)
Recipients(s) == s.rcptTo
=============================================================================
