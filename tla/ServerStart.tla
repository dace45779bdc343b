---------------------------- MODULE ServerStart ----------------------------
(***************************************************************************)
(* The start of the server processes (pps-launch-server.c): the prompt for *)
(* an IP and a port, which scanf reads word by word, and bind_server       *)
(* (system.c).  The words have at most 15 characters.                      *)
(***************************************************************************)
EXTENDS Integers, Sequences

CONSTANTS
  Process,    \* the server processes
  Typed,      \* what may be typed: [words, end], with an end of Ends
  Garbage,    \* what ip and port may hold before they are read: [ip, port]
  Decimal,    \* Decimal[w]: the number scanf's %d reads at the start of w
  NotDecimal, \* where there is none
  Remainder,  \* Remainder[w]: <<>>, or what is left of w behind the number
  Ephemeral,  \* the ports bind chooses from when it is given port 0
  Bindable,   \* the addresses that inet_pton and bind take: [ip, port]
  Unbound

(* At the end of the words the terminal blocks; or stdin ends behind a     *)
(* blank; or it ends with the last word.                                   *)
Ends == {"blocks", "blank", "word"}

Word == DOMAIN Decimal
Port == 1 .. 65535

(* What %d leaves of a word starts with no digit, so it is no IP. *)
NoIp(w) == \A b \in Bindable : b.ip # w
RestOfNumber(ws) == ws = <<>> \/ \E r \in Word : ws = <<r>> /\ NoIp(r)

ASSUME ServerAssumption ==
  /\ Word \subseteq STRING
  /\ \A t \in Typed : t.words \in Seq(Word) /\ t.end \in Ends
  /\ \A w \in Word : Decimal[w] # NotDecimal =>
       Decimal[w] \in Int /\ RestOfNumber(Remainder[w])
  /\ Garbage # {} /\ Garbage \subseteq [ip : STRING, port : Int]
  /\ Bindable \subseteq [ip : STRING, port : Port]
  /\ Unbound \notin Bindable

VARIABLES
  at,     \* "prompt", "serve" or "exit"
  typed,  \* what is typed at each process
  words,  \* the words it has not read yet
  last,   \* its variables ip and port
  bound   \* the address of its socket

serverVars == <<at, typed, words, last, bound>>

ServerInit ==
  /\ typed \in [Process -> Typed]
  /\ words = [p \in Process |-> typed[p].words]
  /\ at = [p \in Process |-> "prompt"]
  /\ last \in [Process -> Garbage]
  /\ bound = [p \in Process |-> Unbound]

-----------------------------------------------------------------------------
(* Variant with a bug: what has been typed ahead is thrown away. *)
BehindFlushed(ws) == <<>>

BehindAnswer(ws) == Remainder[ws[2]] \o SubSeq(ws, 3, Len(ws))

(* What scanf(" %15s %d", ip, &port) does with ws: how many it reads, the  *)
(* variables after it, and the words it leaves.                            *)
Scan(ws, old) ==
  IF ws = <<>> THEN [count |-> -1, now |-> old, left |-> ws]
  ELSE LET answer == [old EXCEPT !.ip = ws[1]]
       IN  IF Len(ws) = 1 \/ Decimal[ws[2]] = NotDecimal
           THEN [count |-> 1, now |-> answer, left |-> Tail(ws)]
           ELSE [count |-> 2,
                 now |-> [answer EXCEPT !.port = Decimal[ws[2]]],
                 left |-> BehindAnswer(ws)]

(* bind_server's port is an uint16_t. *)
Ports(n) == IF n % 2^16 = 0 THEN Ephemeral ELSE {n % 2^16}

Free(a) == \A q \in Process : at[q] # "exit" => bound[q] # a

(* The addresses bind_server may give the socket of p, none if it fails.   *)
Binds(p, a) ==
  {b \in {[ip |-> a.ip, port |-> n] : n \in Ports(a.port)} :
     bound[p] = Unbound /\ b \in Bindable /\ Free(b)}

(* Variant with a bug: any answer with which bind succeeds is taken. *)
TakenIfBound(count, binds) == binds # {}

Taken(count, binds) == count = 2 /\ binds # {}

(***************************************************************************)
(* One turn of the prompt.  bind is tried whatever scanf has read, so that *)
(* an answer without a port, or the end of stdin, may bind the socket to   *)
(* an address made of older answers, after which no answer will do.  The   *)
(* prompt is left with a whole answer only; the server then exits at once  *)
(* if scanf has met the end of stdin.                                      *)
(***************************************************************************)
Prompt(p) ==
  /\ at[p] = "prompt"
  /\ Len(words[p]) <= 1 => typed[p].end # "blocks"
  /\ LET s == Scan(words[p], last[p])
         binds == Binds(p, s.now)
     IN  /\ words' = [words EXCEPT ![p] = s.left]
         /\ last' = [last EXCEPT ![p] = s.now]
         /\ IF binds = {} THEN UNCHANGED bound
            ELSE \E b \in binds : bound' = [bound EXCEPT ![p] = b]
         /\ at' = [at EXCEPT ![p] =
                     IF ~Taken(s.count, binds) THEN "prompt"
                     ELSE IF s.left = <<>> /\ typed[p].end = "word" THEN "exit" ELSE "serve"]
  /\ UNCHANGED typed

(* A process dies, or is stopped. *)
Kill(p) ==
  /\ at[p] # "exit"
  /\ at' = [at EXCEPT ![p] = "exit"]
  /\ UNCHANGED <<typed, words, last, bound>>

-----------------------------------------------------------------------------
ServerTypeOK ==
  /\ \A p \in Process : last[p].ip \in STRING /\ last[p].port \in Int
  /\ \A p \in Process : Len(words[p]) <= Len(typed[p].words)
  /\ bound \in [Process -> Bindable \cup {Unbound}]
  /\ at \in [Process -> {"prompt", "serve", "exit"}]

(***************************************************************************)
(* A server that has left the prompt serves at an IP and a port that       *)
(* followed each other in what was typed, never at an address made of two  *)
(* answers (pps-launch-server.c:33-40).                                    *)
(***************************************************************************)
ServesWhatWasGiven ==
  \A p \in Process : at[p] = "serve" =>
    \E i \in 1 .. Len(typed[p].words) - 1 :
      LET port == Decimal[typed[p].words[i + 1]]
      IN  /\ bound[p].ip = typed[p].words[i]
          /\ port # NotDecimal /\ bound[p].port \in Ports(port)

(* Words that are answers, each an IP and a whole number, one of them a. *)
Answers(ws, a) ==
  /\ Len(ws) % 2 = 0
  /\ \A i \in 1 .. Len(ws) : i % 2 = 0 => Decimal[ws[i]] # NotDecimal /\ Remainder[ws[i]] = <<>>
  /\ \E i \in 1 .. Len(ws) - 1 :
       i % 2 = 1 /\ ws[i] = a.ip /\ Ports(Decimal[ws[i + 1]]) = {a.port}

(***************************************************************************)
(* A prompt that waits for an answer with a socket that is not bound, and  *)
(* gets whole answers of which one is an address it may have, is left,     *)
(* unless another server takes that address: refused answers do no harm    *)
(* (pps-launch-server.c:39-43).                                            *)
(***************************************************************************)
GoodAnswerServes ==
  \A p \in Process, a \in Bindable :
    (at[p] = "prompt" /\ bound[p] = Unbound /\ Answers(words[p], a))
      ~> (at[p] # "prompt" \/ \E q \in Process \ {p} : at[q] # "exit" /\ bound[q] = a)

=============================================================================
