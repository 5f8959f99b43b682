------------------------------ MODULE OpenPipes ------------------------------
(***************************************************************************)
(* The two processes an open command runs, seen through their pipes: ssh,  *)
(* which writes the url of the tunnel to its standard output               *)
(* (ssh_utils.rs), and sendmail, which reads the mail that carries it from *)
(* its standard input and writes its dialogue with the mail server to its  *)
(* standard error (email_utils.rs).                                        *)
(*                                                                         *)
(* Text is a sequence of cells; what the code tells apart has a name.      *)
(***************************************************************************)
EXTENDS Naturals, Sequences

CONSTANTS
  Outputs,  \* what the tunnelling service may write, each a sequence of cells
  Chunk,    \* the cells of one read of ssh's output
  Verbose,  \* lines of sendmail's dialogue
  Capacity  \* lines that a pipe holds

ASSUME PipesAssumption ==
  /\ \A o \in Outputs : o \in Seq(STRING)
  /\ Chunk \in Nat \ {0} /\ Verbose \in Nat /\ Capacity \in Nat

VARIABLES
  pc,         \* where the request is
  ssh,        \* "none", "running" or "ended"
  output,     \* all that the service writes in this session
  written,    \* cells of it that ssh has written
  seen,       \* the content of cursor: what was read of it
  complaint,  \* whether ssh wrote to its standard error
  url,        \* the url read
  reason,     \* the error returned, if any
  code,       \* the error code of the service in it
  sendmail,   \* "none", "reading", "talking", "success" or "failure"
  stdin,      \* its standard input: "open" or "closed"
  said,       \* lines of the dialogue written
  unread,     \* lines of it in the pipe
  delivered   \* whether the server took the mail

tunnel == <<ssh, output, written, complaint>>
parsed == <<seen, url, code>>
mail == <<sendmail, stdin, said, unread, delivered>>
vars == <<pc, tunnel, parsed, reason, mail>>

Reasons == {"none", "spawn", "io", "parsing", "service", "timeout", "mail"}

TypeOK ==
  /\ pc \in {"spawn", "url", "stderr", "mail", "write", "wait", "opened", "failed",
            "panicked"}
  /\ ssh \in {"none", "running", "ended"}
  /\ output \in Outputs /\ written \in 0..Len(output)
  /\ seen = SubSeq(output, 1, Len(seen)) /\ Len(seen) <= written
  /\ complaint \in BOOLEAN
  /\ url \in Seq(STRING) /\ code \in Seq(STRING) /\ reason \in Reasons
  /\ sendmail \in {"none", "reading", "talking", "success", "failure"}
  /\ stdin \in {"open", "closed"} /\ delivered \in BOOLEAN
  /\ said \in 0..Verbose /\ unread \in 0..Capacity

Init ==
  /\ pc = "spawn" /\ ssh = "none"
  /\ output \in Outputs /\ written = 0 /\ seen = <<>> /\ complaint = FALSE
  /\ url = <<>> /\ code = <<>> /\ reason = "none"
  /\ sendmail = "none" /\ stdin = "open" /\ said = 0 /\ unread = 0 /\ delivered = FALSE

-----------------------------------------------------------------------------
(* Texts.                                                                  *)

(* Where a text s is cut after a line that begins at i.                    *)
LineEnds(s, i) == {j \in i..Len(s) : s[j] = "\n"}
FirstOf(S) == CHOOSE i \in S : \A j \in S : i <= j

(* Mutant: the line need not have ended.                                   *)
Unended(s) ==
  {<<i + 1, IF LineEnds(s, i) = {} THEN Len(s) ELSE FirstOf(LineEnds(s, i)) - 1>> :
     i \in {k \in 1..Len(s) - 1 : s[k] = "Forwarding  " /\ s[k + 1] # "\n"}}

(* Forwarding  (.+)\n : from where to where the urls in s are.             *)
Urls(s) ==
  {<<i + 1, FirstOf(LineEnds(s, i)) - 1>> :
     i \in {k \in 1..Len(s) - 1 : /\ s[k] = "Forwarding  " /\ s[k + 1] # "\n"
                                  /\ LineEnds(s, k) # {}}}

(* (ERR_[a-zA-Z0-9_]+) : the same of error codes, of which each cell is a  *)
(* member of CodeCells.                                                    *)
CodeCells == {"ERR_", "NGROK_", "108"}
Codes(s) ==
  {<<i, FirstOf({j \in i + 1..Len(s) : j = Len(s) \/ s[j + 1] \notin CodeCells})>> :
     i \in {k \in 1..Len(s) - 1 : s[k] = "ERR_" /\ s[k + 1] \in CodeCells}}

(* Mutant: all that follows is taken too.                                  *)
CapturedRest(s, places) ==
  LET p == CHOOSE p \in places : \A q \in places : p[1] <= q[1]
  IN  SubSeq(s, p[1], Len(s))

(* The first of them.                                                      *)
Captured(s, places) ==
  LET p == CHOOSE p \in places : \A q \in places : p[1] <= q[1]
  IN  SubSeq(s, p[1], p[2])

(* A character of two cells, of which only the first was read.             *)
NotUtf8(s) == s # <<>> /\ s[Len(s)] = "wide"

-----------------------------------------------------------------------------
(* setup_ssh_tunnel.                                                       *)

Fails(r) == reason' = r
KillSsh == ssh' = (IF ssh = "none" THEN "none" ELSE "ended")

SpawnSsh ==
  /\ pc = "spawn"
  /\ \/ pc' = "url" /\ ssh' = "running" /\ UNCHANGED reason
     \/ pc' = "failed" /\ Fails("spawn") /\ UNCHANGED ssh
  /\ UNCHANGED <<output, written, complaint, parsed, mail>>

(* Mutant: each chunk is written over the one before.                      *)
Overwritten(n) == SubSeq(output, Len(seen) + 1, Len(seen) + n)

(* The content of cursor after a read of n cells.                          *)
Appended(n) == SubSeq(output, 1, Len(seen) + n)

(* One read, and what is made of all that was read.                        *)
ReadChunk ==
  /\ pc = "url"
  /\ \E n \in 1..Chunk :
       Len(seen) + n <= written /\ seen' = Appended(n)
  /\ \/ NotUtf8(seen') /\ Fails("parsing") /\ pc' = "stderr" /\ UNCHANGED <<url, code>>
     \/ /\ ~NotUtf8(seen') /\ Urls(seen') # {}
        /\ url' = Captured(seen', Urls(seen')) /\ pc' = "mail"
        /\ UNCHANGED <<reason, code>>
     \/ /\ ~NotUtf8(seen') /\ Urls(seen') = {} /\ Codes(seen') # {}
        /\ code' = Captured(seen', Codes(seen')) /\ Fails("service") /\ pc' = "stderr"
        /\ UNCHANGED url
     \/ /\ ~NotUtf8(seen') /\ Urls(seen') = {} /\ Codes(seen') = {}
        /\ UNCHANGED <<pc, url, reason, code>>
  /\ UNCHANGED <<tunnel, mail>>

ReadFails ==
  /\ pc = "url" /\ pc' = "stderr" /\ Fails("io")
  /\ UNCHANGED <<tunnel, parsed, mail>>

(* Also when ssh has ended: its output then only reads as empty.           *)
SetupTimesOut ==
  /\ pc = "url" /\ pc' = "stderr" /\ Fails("timeout")
  /\ UNCHANGED <<tunnel, parsed, mail>>

(* One read of the standard error, then the process is dropped, by the     *)
(* error returned or by a panic, if what was read is not UTF-8.            *)
ReadStderr ==
  /\ pc = "stderr" /\ (complaint \/ ssh = "ended")
  /\ pc' = "failed" \/ (complaint /\ pc' = "panicked")
  /\ KillSsh
  /\ UNCHANGED <<output, written, complaint, parsed, reason, mail>>

(* ssh (external).                                                         *)
SshWrites ==
  /\ ssh = "running" /\ written < Len(output) /\ written' = written + 1
  /\ UNCHANGED <<pc, ssh, output, complaint, parsed, reason, mail>>

SshComplains ==
  /\ ssh = "running" /\ complaint' = TRUE
  /\ UNCHANGED <<pc, ssh, output, written, parsed, reason, mail>>

SshEnds ==
  /\ ssh = "running" /\ ssh' = "ended"
  /\ UNCHANGED <<pc, output, written, complaint, parsed, reason, mail>>

-----------------------------------------------------------------------------
(* send_email.                                                             *)

(* The tunnel that was set up is dropped.                                  *)
MailFails == pc' = "failed" /\ Fails("mail") /\ KillSsh

SpawnSendmail ==
  /\ pc = "mail"
  /\ \/ pc' = "write" /\ sendmail' = "reading" /\ UNCHANGED <<ssh, reason>>
     \/ MailFails /\ UNCHANGED sendmail
  /\ UNCHANGED <<output, written, complaint, parsed, stdin, said, unread, delivered>>

(* Mutant: the standard input is not dropped.                              *)
WriteOnly ==
  /\ pc = "write"
  /\ \/ sendmail = "reading" /\ pc' = "wait" /\ UNCHANGED <<ssh, reason>>
     \/ sendmail = "failure" /\ MailFails
  /\ UNCHANGED <<output, written, complaint, parsed, mail>>

(* The mail is written, and the end of the standard input signalled.       *)
WriteMail ==
  /\ pc = "write" /\ stdin' = "closed"
  /\ \/ sendmail = "reading" /\ pc' = "wait" /\ UNCHANGED <<ssh, reason>>
     \/ sendmail = "failure" /\ MailFails
  /\ UNCHANGED <<output, written, complaint, parsed, sendmail, said, unread, delivered>>

(* Mutant: the exit status is not looked at.                               *)
AnyStatus == sendmail \in {"success", "failure"}

Succeeded == sendmail = "success"

(* wait_with_output returns when sendmail has ended; its standard error is *)
(* read only then, and fails a mail that was sent if it is not UTF-8.      *)
Collect ==
  /\ pc = "wait" /\ sendmail \in {"success", "failure"}
  /\ unread' = 0
  /\ \/ Succeeded /\ pc' = "opened" /\ UNCHANGED <<ssh, reason>>
     \/ MailFails
  /\ UNCHANGED <<output, written, complaint, parsed, sendmail, stdin, said, delivered>>

(* email_send_timeout_sec passed: the pipes are closed, sendmail goes on.  *)
MailTimesOut ==
  /\ pc \in {"write", "wait"} /\ MailFails
  /\ stdin' = "closed" /\ unread' = 0
  /\ UNCHANGED <<output, written, complaint, parsed, sendmail, said, delivered>>

(* sendmail (external).                                                    *)
SendmailReads ==
  /\ sendmail = "reading" /\ stdin = "closed" /\ sendmail' = "talking"
  /\ UNCHANGED <<pc, tunnel, parsed, reason, stdin, said, unread, delivered>>

(* A line more of the dialogue is written, which waits while the pipe is   *)
(* full and fails once nobody can read it.                                 *)
SendmailTalks ==
  /\ sendmail = "talking" /\ said < Verbose
  /\ \/ pc = "wait" /\ unread < Capacity /\ unread' = unread + 1 /\ UNCHANGED sendmail
     \/ pc # "wait" /\ sendmail' \in {"talking", "failure"} /\ UNCHANGED unread
  /\ said' = said + 1
  /\ UNCHANGED <<pc, tunnel, parsed, reason, stdin, delivered>>

MailDelivered ==
  /\ sendmail = "talking" /\ ~delivered /\ delivered' = TRUE
  /\ UNCHANGED <<pc, tunnel, parsed, reason, sendmail, stdin, said, unread>>

SendmailSucceeds ==
  /\ sendmail = "talking" /\ said = Verbose /\ delivered /\ sendmail' = "success"
  /\ UNCHANGED <<pc, tunnel, parsed, reason, stdin, said, unread, delivered>>

SendmailFails ==
  /\ sendmail \in {"reading", "talking"} /\ sendmail' = "failure"
  /\ UNCHANGED <<pc, tunnel, parsed, reason, stdin, said, unread, delivered>>

-----------------------------------------------------------------------------

Daemon ==
  \/ SpawnSsh \/ ReadChunk \/ ReadStderr
  \/ SpawnSendmail \/ WriteMail \/ Collect

Ssh == SshWrites \/ SshComplains \/ SshEnds
Sendmail == SendmailReads \/ SendmailTalks \/ MailDelivered \/ SendmailSucceeds

Next ==
  \/ Daemon \/ ReadFails \/ SetupTimesOut \/ MailTimesOut
  \/ Ssh \/ Sendmail \/ SendmailFails

Spec == Init /\ [][Next]_vars

(* Reads and waits end when they can, and sendmail goes on while it is not *)
(* kept waiting.  No time limit is assumed to pass.                        *)
FairSpec == Spec /\ WF_vars(Daemon) /\ WF_vars(Sendmail)

-----------------------------------------------------------------------------
(* Properties.                                                             *)

(* The url that is mailed is the one that the service announced, whole,    *)
(* in whatever pieces it was read (the line break in regexp_success).      *)
UrlWhole == pc \in {"mail", "write", "wait", "opened"} => url = Captured(output, Urls(output))

(* The reason of a failed set-up is the service's: an error is returned    *)
(* before the time limit only if it wrote an error code, of which a        *)
(* beginning is reported, or something that is not ASCII, whatever the url *)
(* has to do with it (regexp_error, from_utf8).                            *)
ReasonTrue ==
  /\ reason = "service" => \E p \in Codes(output) : /\ code = SubSeq(output, p[1], p[1] + Len(code) - 1)
                                                    /\ p[1] + Len(code) - 1 <= p[2]
  /\ reason = "parsing" => \E i \in DOMAIN output : output[i] = "wide"

(* "opened" is answered only if the mail server took the mail with the url *)
(* (send_email returns Ok on success of the process alone).                *)
MailTrue == pc = "opened" => delivered

(* A mail is over without its time limit: sendmail is not kept waiting for *)
(* the daemon that waits for it, as long as its dialogue fits in the pipe  *)
(* (drop(stdin), and stderr read last, in send_email).                     *)
MailEnds == Verbose <= Capacity => (pc = "mail" ~> pc \in {"opened", "failed"})

(* The strengthening: sendmail succeeds when the server took the mail.     *)
IInv ==
  /\ TypeOK /\ UrlWhole /\ ReasonTrue /\ MailTrue
  /\ sendmail = "success" => delivered
=============================================================================
