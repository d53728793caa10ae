------------------------------- MODULE AtLink -------------------------------
(* The AT command exchange of ports/rp2/wifi_spi.c with the WiFi module.   *)
(* Every command function has the same shape: rx_empty, sendCmd for each   *)
(* piece of the command line, then a recvString function that reads into   *)
(* a cleared buffer until it finds one of the texts it waits for or its    *)
(* time is over.  Nothing ties an answer to a command: the text is all.    *)
(*                                                                         *)
(* The driver's steps are separated where the module may act: between two  *)
(* reads too, so the module can keep the driver reading.  The module       *)
(* (Execute, Emit, PeerSends, PeerCloses, Rejoins) is external: it takes   *)
(* command lines in order, and a line that comes while it awaits the       *)
(* payload of AT+CIPSEND is payload.  Answers are tokens, one for each     *)
(* text the driver looks for; "SENDOK" stands for "SEND OK" and contains   *)
(* the text "OK"; "DATA" is what the peer sends, without any such text.    *)
EXTENDS Naturals, Sequences

CONSTANTS
    Prompt,       \* the module answers before any recvString gives up
    Loss,         \* the handshake pin may be low when sendCmd looks at it
    AlreadyTail,  \* "ALREADY CONNECT" is followed by a line "ERROR"
    Calls,        \* the commands the program calls
    MaxBlocks,    \* longest payload of one AT+CIPSEND, in blocks of 64 bytes
    MaxInbox,     \* bound: no call with so many lines not yet executed
    MaxOut        \* bound: the peer sends nothing with so much to be read

Commands == {"AT", "CWJAP", "CWQAP", "RST", "CIPSTART", "CIPCLOSE", "CIPSEND"}

ASSUME AtLinkConstants ==
    /\ Calls \subseteq Commands /\ {Prompt, Loss, AlreadyTail} \subseteq BOOLEAN
    /\ {MaxBlocks, MaxInbox, MaxOut} \subseteq Nat \ {0}

VARIABLES
    op,       \* the command function running, or "none"
    pc,       \* its position: "idle", "send", "wait", "payload", "waitSent"
    tries,    \* eAT: attempts left
    blocks,   \* length of the payload of sATCIPSENDSingle
    reading,  \* recvString is in its inner loop
    seen,     \* texts in the receive buffer
    result,   \* what the last call returned, "none" while one runs
    whole,    \* history: every payload was sent to its end
    inbox,    \* lines that reached the module, not yet executed
    residue,  \* the module holds a line whose end was not sent
    replies,  \* answers the module has still to write
    out,      \* answers to be read: the handshake pin is high
    awaits,   \* payload blocks the module still awaits, 0 in command mode
    joined,   \* the module is joined to an access point
    link,     \* its TCP link is up
    done      \* the module has performed the command of this call

driver == <<op, pc, tries, blocks, reading, seen, result, whole>>
module == <<inbox, residue, replies, out, awaits, joined, link, done>>
vars == <<op, pc, tries, blocks, reading, seen, result, whole,
          inbox, residue, replies, out, awaits, joined, link, done>>

Init ==
    /\ op = "none" /\ pc = "idle" /\ tries = 0 /\ blocks = 0
    /\ reading = FALSE /\ seen = {} /\ result = "none" /\ whole = TRUE
    /\ inbox = <<>> /\ residue = FALSE /\ replies = <<>> /\ out = <<>>
    /\ awaits = 0 /\ joined = FALSE /\ link = FALSE /\ done = FALSE

(***************************************************************************)
(* Looking for an answer among the texts s.  "none": nothing found yet.    *)
(***************************************************************************)
data_find(t, s) == t \in s \/ (t = "OK" /\ "SENDOK" \in s)

recvFind(t, s) == IF data_find(t, s) THEN "true" ELSE "none"

(* The second text counts even when the first is there.                    *)
recvString_2(s) == IF data_find("ERROR", s) THEN "false"
                   ELSE recvFind("OK", s)

recvString_3(s) == IF data_find("OK", s) THEN "true"
                   ELSE IF data_find("ERROR", s) THEN "false"
                   ELSE recvFind("ALREADY", s)

(* The command functions: whether the line is sent in several pieces, the  *)
(* line end the last, and what is made of the texts.                       *)
eAT(s) == [pieced |-> FALSE, verdict |-> recvFind("OK", s)]
eATRST(s) == [pieced |-> FALSE, verdict |-> recvFind("OK", s)]
eATCWQAP(s) == [pieced |-> FALSE, verdict |-> recvFind("OK", s)]
sATCWJAP(s) == [pieced |-> TRUE, verdict |-> recvString_2(s)]

(* sATCIPSTARTSingle without the test of find_index.                       *)
sATCIPSTARTSingleAny(s) ==
    [pieced |-> TRUE, verdict |-> IF s # {} THEN "true" ELSE "none"]
sATCIPSTARTSingle(s) == [pieced |-> TRUE, verdict |-> recvString_3(s)]

(* eATCIPCLOSESingle as sATCWMODE is written: any of the texts will do.    *)
eATCIPCLOSESingleAny(s) ==
    [pieced |-> FALSE, verdict |-> IF "ERROR" \in s THEN "true" ELSE recvFind("OK", s)]
eATCIPCLOSESingle(s) == [pieced |-> FALSE, verdict |-> recvString_2(s)]

sATCIPSENDSingle(s) ==
    [pieced |-> TRUE,
     verdict |-> recvFind(IF pc = "wait" THEN "PROMPT" ELSE "SENDOK", s)]

Running(s) ==
    CASE op = "RST" -> eATRST(s)
      [] op = "CWQAP" -> eATCWQAP(s)
      [] op = "CWJAP" -> sATCWJAP(s)
      [] op = "CIPSTART" -> sATCIPSTARTSingle(s)
      [] op = "CIPCLOSE" -> eATCIPCLOSESingle(s)
      [] op = "CIPSEND" -> sATCIPSENDSingle(s)
      [] OTHER -> eAT(s)

(***************************************************************************)
(* The driver.                                                             *)
(***************************************************************************)
Call(c) ==
    /\ pc = "idle" /\ Len(inbox) < MaxInbox
    /\ op' = c /\ pc' = "send" /\ result' = "none" /\ done' = FALSE
    /\ tries' = IF c = "AT" THEN 3 ELSE 1
    /\ blocks' \in IF c = "CIPSEND" THEN 1 .. MaxBlocks ELSE {0}
    /\ UNCHANGED <<reading, seen, whole, inbox, residue, replies, out, awaits,
                   joined, link>>

(* One block read, while the module signals that there is something.       *)
readCmd == out # <<>> /\ out' = Tail(out)

rx_empty ==
    /\ pc \in {"send", "payload"} /\ readCmd
    /\ UNCHANGED <<driver, inbox, residue, replies, awaits, joined, link, done>>

(* A line end arrives: with an unfinished line before it, it ends that.    *)
Arrives(text) ==
    /\ inbox' = Append(inbox, [text |-> IF residue THEN "garbled" ELSE text,
                               blocks |-> blocks, mine |-> TRUE])
    /\ residue' = FALSE

(* sendCmd gives a piece up when the pin is low: it tests "< 1000" where   *)
(* it means to wait for 1000 ms.                                           *)
SendLine ==
    \/ Arrives(op)
    \/ Loss /\ UNCHANGED <<inbox, residue>>
    \/ Loss /\ Running({}).pieced /\ Arrives("garbled")
    \/ Loss /\ Running({}).pieced /\ residue' = TRUE /\ UNCHANGED inbox

(* rx_empty is done: the pieces of the command line, a cleared buffer.     *)
Issue ==
    /\ pc = "send" /\ out = <<>>
    /\ SendLine
    /\ seen' = {} /\ pc' = "wait"
    /\ UNCHANGED <<op, tries, blocks, reading, result, whole, replies, out, awaits,
                   joined, link, done>>

(* rx_empty is done: sendCmd of the payload, which it may give up as well. *)
(* It runs its loop once ("if(send_time = 1)") and so sends one block,     *)
(* whatever the length.                                                    *)
SendPayload ==
    /\ pc = "payload" /\ out = <<>>
    /\ \/ /\ inbox' = Append(inbox, [text |-> "payload", blocks |-> 1, mine |-> TRUE])
          /\ whole' = (whole /\ blocks = 1)
       \/ Loss /\ whole' = FALSE /\ UNCHANGED inbox
    /\ seen' = {} /\ pc' = "waitSent"
    /\ UNCHANGED <<op, tries, blocks, reading, result, residue, replies, out, awaits,
                   joined, link, done>>

(* The inner loop of the recvString functions, which looks at the pin and  *)
(* not at the time.                                                        *)
Waiting == pc \in {"wait", "waitSent"}
recvString_1 ==
    /\ Waiting /\ readCmd /\ reading' = TRUE /\ seen' = seen \cup {Head(out)}
    /\ UNCHANGED <<op, pc, tries, blocks, result, whole, inbox, residue, replies, awaits,
                   joined, link, done>>

(* A line still in the inbox when its call returns is no longer of it.     *)
Disown(q) == [i \in DOMAIN q |-> [q[i] EXCEPT !.mine = FALSE]]

Return(r) ==
    /\ op' = "none" /\ pc' = "idle" /\ result' = r
    /\ inbox' = Disown(inbox)

(* sATCIPSENDSingle that is content with the prompt.                       *)
AtPromptNever == FALSE
(* sATCIPSENDSingle goes on to its payload.                                *)
AtPrompt == op = "CIPSEND" /\ pc = "wait"

(* The pin is low again: look for the texts.                               *)
Look ==
    LET verdict == Running(seen).verdict IN
    /\ Waiting /\ reading /\ out = <<>> /\ reading' = FALSE
    /\ \/ verdict = "none" /\ UNCHANGED <<op, pc, result, inbox>>
       \/ verdict = "true" /\ AtPrompt /\ pc' = "payload" /\ UNCHANGED <<op, result, inbox>>
       \/ verdict = "true" /\ ~AtPrompt /\ Return("true")
       \/ verdict = "false" /\ Return("false")
    /\ UNCHANGED <<tries, blocks, seen, whole, residue, replies, out, awaits,
                   joined, link, done>>

(* The module has nothing more to say.                                     *)
Quiet == inbox = <<>> /\ replies = <<>> /\ out = <<>>

(* The time of a recvString function is over; eAT tries three times.       *)
TimeoutForever ==
    /\ Waiting /\ ~reading /\ (Prompt => Quiet)
    /\ \/ tries > 1 /\ pc' = "send" /\ UNCHANGED <<op, result, inbox, tries>>
       \/ tries <= 1 /\ Return("false") /\ UNCHANGED tries
    /\ UNCHANGED <<blocks, reading, seen, whole, residue, replies, out, awaits,
                   joined, link, done>>
Timeout ==
    /\ Waiting /\ ~reading /\ (Prompt => Quiet)
    /\ \/ /\ tries > 1 /\ tries' = tries - 1 /\ pc' = "send"
          /\ UNCHANGED <<op, result, inbox>>
       \/ tries <= 1 /\ Return("false") /\ UNCHANGED tries
    /\ UNCHANGED <<blocks, reading, seen, whole, residue, replies, out, awaits,
                   joined, link, done>>

(***************************************************************************)
(* The module, as far as the driver can tell (external).                   *)
(***************************************************************************)
Performs(line, ans) == replies' = ans /\ done' = (done \/ line.mine)
Refuses == replies' = <<"ERROR">> /\ UNCHANGED done

ExecuteCommand(line) ==
    LET c == line.text IN
    \/ c = "AT" /\ Performs(line, <<"OK">>) /\ UNCHANGED <<awaits, joined, link>>
    \/ /\ c \in {"CWQAP", "RST"} /\ Performs(line, <<"OK">>)
       /\ joined' = FALSE /\ link' = FALSE /\ UNCHANGED awaits
    \/ /\ c = "CWJAP" /\ joined' = TRUE /\ Performs(line, <<"OK">>)
       /\ UNCHANGED <<awaits, link>>
    \/ /\ c = "CWJAP" /\ joined' = FALSE /\ link' = FALSE /\ UNCHANGED <<awaits, done>>
       /\ replies' \in {<<>>, <<"ERROR">>}
    \/ /\ c = "CIPSTART" /\ link /\ UNCHANGED <<awaits, joined, link>>
       /\ Performs(line, IF AlreadyTail THEN <<"ALREADY", "ERROR">> ELSE <<"ALREADY">>)
    \/ /\ c = "CIPSTART" /\ ~link /\ joined /\ link' = TRUE
       /\ Performs(line, <<"OK">>) /\ UNCHANGED <<awaits, joined>>
    \/ /\ c = "CIPCLOSE" /\ link /\ link' = FALSE
       /\ Performs(line, <<"CLOSED", "OK">>) /\ UNCHANGED <<awaits, joined>>
    \/ /\ c = "CIPSEND" /\ link /\ awaits' = line.blocks
       /\ replies' = <<"OK", "PROMPT">> /\ UNCHANGED <<joined, link, done>>
    \/ /\ \/ c \in {"garbled", "payload"}
          \/ c \in {"CIPCLOSE", "CIPSEND"} /\ ~link
          \/ c = "CIPSTART" /\ ~link
       /\ Refuses /\ UNCHANGED <<awaits, joined, link>>

(* Whatever comes while payload is awaited is payload: a block of it, or   *)
(* a command line, of unknown length.                                      *)
ExecutePayload(line) ==
    /\ awaits' \in IF line.text = "payload" THEN {awaits - 1} ELSE 0 .. awaits
    /\ \/ awaits' > 0 /\ replies' = <<>> /\ UNCHANGED done
       \/ /\ awaits' = 0 /\ link /\ line.text = "payload"
          /\ Performs(line, <<"SENDOK">>)
       \/ /\ awaits' = 0 /\ link /\ line.text # "payload"
          /\ replies' = <<"SENDOK">> /\ UNCHANGED done
       \/ awaits' = 0 /\ ~link /\ Refuses
    /\ UNCHANGED <<joined, link>>

Execute ==
    /\ inbox # <<>> /\ replies = <<>>
    /\ inbox' = Tail(inbox)
    /\ IF awaits = 0 THEN ExecuteCommand(Head(inbox)) ELSE ExecutePayload(Head(inbox))
    /\ UNCHANGED <<driver, residue, out>>

Emit ==
    /\ replies # <<>>
    /\ out' = Append(out, Head(replies)) /\ replies' = Tail(replies)
    /\ UNCHANGED <<driver, inbox, residue, awaits, joined, link, done>>

(* Data for the program, while no command or any command is under way.     *)
PeerSends ==
    /\ link /\ Len(out) < MaxOut /\ out' = Append(out, "DATA")
    /\ UNCHANGED <<driver, inbox, residue, replies, awaits, joined, link, done>>

PeerCloses ==
    /\ link /\ link' = FALSE /\ out' = Append(out, "CLOSED")
    /\ UNCHANGED <<driver, inbox, residue, replies, awaits, joined, done>>

(* The module joins the access point it has stored, unasked.               *)
Rejoins ==
    /\ ~joined /\ joined' = TRUE
    /\ UNCHANGED <<driver, inbox, residue, replies, out, awaits, link, done>>

Driver == rx_empty \/ Issue \/ SendPayload \/ recvString_1 \/ Look \/ Timeout

Next ==
    \/ \E c \in Calls : Call(c)
    \/ Driver
    \/ Execute
    \/ Emit
    \/ PeerSends
    \/ PeerCloses
    \/ Rejoins

Spec == Init /\ [][Next]_vars

(* The driver runs on when called; the module may fall silent.             *)
FairSpec == Spec /\ WF_vars(Driver)

(***************************************************************************)
(* Properties.                                                             *)
(***************************************************************************)
(* A command function returns true if the module performed that very       *)
(* command, and false if it did not: the text found was not the answer to  *)
(* an earlier command, nor was the line taken for something else (joinAP,  *)
(* leaveAP, createTCP, releaseTCP and esp_send in wifi_spi.h).             *)
Truthful == result # "none" => (result = "true" <=> done)

(* So it is, whichever pieces of command lines sendCmd gives up, as long   *)
(* as it sent every payload to its end.                                    *)
TruthfulIfWhole == whole => Truthful

(* Between two calls the module is in command mode: unless part of a       *)
(* payload was not sent, sATCIPSENDSingle never leaves it waiting, to      *)
(* swallow the next command.                                               *)
Settled == pc = "idle" /\ whole => awaits = 0

(* Once the peer stops sending every command function returns, whatever    *)
(* the module says or does not say: each wait has an end and eAT does not  *)
(* try for ever.  While the pin stays high the loops of rx_empty and of    *)
(* the recvString functions look at nothing else.                          *)
Returns == <>[][~PeerSends]_vars => ((op # "none") ~> (op = "none"))

(* The exchange implements the contract its callers rely on, as long as    *)
(* every payload was sent to its end.                                      *)
Contract == INSTANCE AtCommand
ImplementsContract ==
    Contract!Init /\ [][whole' => Contract!Next]_<<op, done, result, joined, link>>
=============================================================================
