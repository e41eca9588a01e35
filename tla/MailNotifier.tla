---------------------------- MODULE MailNotifier ----------------------------
\* The SMTP conversation of the e-mail notifier (alerts/notifiers/email.ts): the
\* client takes what one `data` event brings for one reply, while a reply may come
\* in two parts, cut anywhere or between the lines of a long one.
EXTENDS Naturals, Sequences

VARIABLES
    mail,       \* off, connecting, open, sent, rejected, failed
    step,       \* the reply the client reads next
    outbox,     \* commands the server has not answered
    coming,     \* parts of replies on their way
    queue,      \* responseQueue
    broken,     \* the connection is gone
    accepted,   \* history: the server has taken the message
    declined,   \* history: the server has refused the sender, the recipient or DATA
    quoting,    \* history: the text of its answer to DATA or to the body contains "250"
    parted      \* history: a reply came in two parts

mailVars == <<mail, step, outbox, coming, queue, broken, accepted, declined, quoting, parted>>

Steps == <<"greeting", "EHLO", "HELO", "AUTH", "user", "pass", "MAIL", "RCPT", "DATA", "body", "QUIT">>

\* The code a reply to each of them has when all is well.
Code(s) ==
    CASE s = "greeting" -> "220" [] s \in {"AUTH", "user"} -> "334" [] s = "pass" -> "235"
      [] s = "DATA" -> "354" [] s = "QUIT" -> "221" [] OTHER -> "250"

MailInit ==
    /\ mail \in {"off", "connecting"} /\ step = 1
    /\ outbox = <<>> /\ coming = <<>> /\ queue = <<>> /\ broken = FALSE
    /\ accepted = FALSE /\ declined = FALSE /\ quoting = FALSE /\ parted = FALSE

\* The server greets who connects.
MailConnects ==
    /\ mail = "connecting"
    /\ mail' \in {"open", "failed"} /\ outbox' = <<"greeting">>
    /\ UNCHANGED <<step, coming, queue, broken, accepted, declined, quoting, parted>>

\* --------------------------------------------------------------- server
\* A part of a reply: the code it starts with, and whether it contains "250".  A
\* second part may contain "250" whatever the reply is; one cut within a line starts
\* with no code, one cut between two lines with the code of the reply.
Part(code, says) == [code |-> code, says |-> says]
Cut(part, cut, later) ==
    CASE cut = "whole" -> <<part>>
      [] cut = "inside" -> <<part, Part("text", later)>>
      [] cut = "lines" -> <<part, Part(part.code, part.code = "250" \/ later)>>

\* Commands are answered in order; the message is taken only from a sender and for
\* a recipient that were not refused.
Replies(good, says, cut, later) ==
    LET s == Head(outbox)
        part == IF good THEN Part(Code(s), Code(s) = "250") ELSE Part("5xx", says) IN
    /\ mail # "off" /\ ~broken /\ outbox # <<>>
    /\ cut = "whole" => ~later
    /\ good => ~says /\ (s = "body" => ~declined)
    /\ outbox' = Tail(outbox) /\ coming' = coming \o Cut(part, cut, later)
    /\ accepted' = (accepted \/ (good /\ s = "body"))
    /\ declined' = (declined \/ (~good /\ s \in {"MAIL", "RCPT", "DATA"}))
    /\ quoting' = (quoting \/ ((says \/ later) /\ s \in {"DATA", "body"}))
    /\ parted' = (parted \/ cut # "whole")
    /\ UNCHANGED <<mail, step, queue, broken>>

\* --------------------------------------------------------------- client
\* The data callback: pushResponse.
Hears ==
    /\ mail = "open" /\ ~broken /\ coming # <<>>
    /\ queue' = Append(queue, Head(coming)) /\ coming' = Tail(coming)
    /\ UNCHANGED <<mail, step, outbox, broken, accepted, declined, quoting, parted>>

\* startsWith for the codes of greeting, AUTH LOGIN and DATA, includes for 250;
\* what QUIT brings is not looked at.
ReplyPasses(s, part) ==
    \/ Code(s) = "250" /\ part.says
    \/ Code(s) # "250" /\ part.code = Code(s)
    \/ s = "QUIT"

\* smtpRead takes a part, and the next command is written.  EHLO is followed by
\* HELO only when it failed.
ReadsReply ==
    LET s == Steps[step]
        passes == ReplyPasses(s, Head(queue))
        next == IF s = "EHLO" /\ passes THEN step + 2 ELSE step + 1 IN
    /\ mail = "open" /\ queue # <<>> /\ queue' = Tail(queue)
    /\ IF ~passes /\ s # "EHLO" THEN mail' = "rejected" /\ UNCHANGED <<step, outbox>>
       ELSE IF s = "QUIT" THEN mail' = "sent" /\ UNCHANGED <<step, outbox>>
       ELSE step' = next /\ outbox' = Append(outbox, Steps[next]) /\ UNCHANGED mail
    /\ UNCHANGED <<coming, broken, accepted, declined, quoting, parted>>

\* Ten seconds without a part; the socket is left open.
ReadTimesOut ==
    /\ mail = "open" /\ queue = <<>> /\ mail' = "failed"
    /\ UNCHANGED <<step, outbox, coming, queue, broken, accepted, declined, quoting, parted>>

\* Defect: a connection that the server closes ends the conversation as if all was said.
SocketBreaksDone(error) ==
    /\ mail = "open" /\ ~broken /\ broken' = TRUE
    /\ mail' = IF error /\ queue # <<>> THEN mail ELSE IF error THEN "failed" ELSE "sent"
    /\ UNCHANGED <<step, outbox, coming, queue, accepted, declined, quoting, parted>>

\* An error rejects the waiting read and is lost when none waits; a close is
\* never noticed.
SocketBreaks(error) ==
    /\ mail = "open" /\ ~broken /\ broken' = TRUE
    /\ mail' = IF error /\ queue = <<>> THEN "failed" ELSE mail
    /\ UNCHANGED <<step, outbox, coming, queue, accepted, declined, quoting, parted>>

MailNext ==
    \/ MailConnects \/ Hears \/ ReadsReply \/ ReadTimesOut
    \/ \E good, says, later \in BOOLEAN, cut \in {"whole", "inside", "lines"} :
          Replies(good, says, cut, later)
    \/ \E error \in BOOLEAN : SocketBreaks(error)

MailSpec == MailInit /\ [][MailNext]_mailVars

MailTypeOK ==
    /\ mail \in {"off", "connecting", "open", "sent", "rejected", "failed"}
    /\ step \in 1..Len(Steps) /\ declined \in BOOLEAN /\ quoting \in BOOLEAN
    /\ \A i \in 1..Len(outbox) : outbox[i] \in {Steps[k] : k \in 1..step}
    /\ mail = "sent" => Steps[step] = "QUIT"

\* What the notifier reports is what became of the message, however replies are
\* cut: "sent" means that the server took it, unless the text of its answer to the
\* body contains "250", or that of its answer to DATA, which may come in two parts
\* and then stands for the answer to the body; anything else means that it did not,
\* unless the last replies were late, or some reply came in parts (email.ts:207-287).
MailReported ==
    /\ mail = "sent" => accepted \/ quoting
    /\ mail \in {"rejected", "failed"} /\ accepted =>
          parted \/ (mail = "failed" /\ Steps[step] \in {"body", "QUIT"})
=============================================================================
