---------------------------- MODULE ChatCommand ----------------------------
(***************************************************************************)
(* chat::net::ChatCommand: the chat server copies a command into a buffer  *)
(* of zeros and splits it there, putting a zero in the place of every      *)
(* blank; a token is a pointer to its first character and ends at the      *)
(* next zero.  "tab" stands for the blanks other than " ": a packet's      *)
(* string is trimmed of " " at its end only.                               *)
(***************************************************************************)
EXTENDS Integers, Sequences, FiniteSetsExt

CONSTANTS
    Letters,    \* characters that are neither blanks nor the final zero
    Size,       \* of _command
    NameSize    \* of _receiver_player_name, its final zero included

VARIABLES
    command,    \* the text of the request
    buffer,     \* _command
    scan,       \* the position of parse_tokens, token_splited
    tokens,     \* where the tokens begin
    answer      \* none, error, or the direct message

commandVars == <<command, buffer, scan, tokens, answer>>

Zero == "zero"
Blank == {" ", "tab"}
Characters == Letters \cup Blank

CommandAssumption ==
    /\ Letters \cap ({Zero} \cup Blank) = {}
    /\ Size \in Nat /\ NameSize \in Nat \ {0}

(* A command, as the packet's string delivers it: no blank comes first, no *)
(* " " last.                                                               *)
Typed == {text \in UNION {[1 .. n -> Characters] : n \in 1 .. Size} :
            text[1] \notin Blank /\ text[Len(text)] # " "}

Init ==
    /\ command \in Typed
    /\ buffer = [i \in 1 .. Size |-> IF i <= Len(command) THEN command[i] ELSE Zero]
    /\ scan = [at |-> 1, split |-> TRUE]
    /\ tokens = <<>> /\ answer = [kind |-> "none", to |-> <<>>, text |-> <<>>]

(* One turn of the loop of parse_tokens. *)
SplitOnce ==    \* mutant: token_splited is not set again
    /\ scan.at <= Size /\ buffer[scan.at] \in Blank
    /\ buffer' = [buffer EXCEPT ![scan.at] = Zero]
    /\ scan' = [at |-> scan.at + 1, split |-> FALSE]
    /\ UNCHANGED <<command, tokens, answer>>

Split ==
    /\ scan.at <= Size /\ buffer[scan.at] \in Blank
    /\ buffer' = [buffer EXCEPT ![scan.at] = Zero]
    /\ scan' = [at |-> scan.at + 1, split |-> TRUE]
    /\ UNCHANGED <<command, tokens, answer>>

Advance ==
    /\ scan.at <= Size /\ buffer[scan.at] \notin Blank
    /\ tokens' = IF scan.split THEN Append(tokens, scan.at) ELSE tokens
    /\ scan' = [at |-> scan.at + 1, split |-> FALSE]
    /\ UNCHANGED <<command, buffer, answer>>

(* The C string at a token; behind _command the memory is zero.            *)
Token(i) ==
    LET zeros == {j \in i .. Size : buffer[j] = Zero} \cup {Size + 1}
    IN  SubSeq(buffer, i, Min(zeros) - 1)

(* string_copy: what fits into the receiver's name.                        *)
Copied(name) == SubSeq(name, 1, Min({Len(name), NameSize - 1}))

(* execute: "d" stands for /dm, the one program, which takes two tokens.   *)
Program == "d"

Execute ==
    /\ scan.at > Size /\ answer.kind = "none"
    /\ answer' = IF Len(tokens) = 3 /\ Token(tokens[1]) = <<Program>>
                 THEN [kind |-> "message", to |-> Copied(Token(tokens[2])),
                       text |-> Token(tokens[3])]
                 ELSE [kind |-> "error", to |-> <<>>, text |-> <<>>]
    /\ UNCHANGED <<command, buffer, scan, tokens>>

Next == Split \/ Advance \/ Execute

Spec == Init /\ [][Next]_commandVars

----------------------------------------------------------------------------
(* Properties.                                                             *)

(* The words of a text: where they begin, and where one ends.              *)
Starts(text) ==
    {i \in DOMAIN text : text[i] \notin Blank /\ (i = 1 \/ text[i - 1] \in Blank)}
End(text, i) == Max({j \in i .. Len(text) : \A k \in i .. j : text[k] \notin Blank})
Word(text, i) == SubSeq(text, i, End(text, i))

(* The text is /dm and two more words, which begin at j and k.             *)
IsDirect(text, i, j, k) ==
    /\ i < j /\ j < k /\ Starts(text) = {i, j, k}
    /\ Word(text, i) = <<Program>>

(* A direct message goes to the second word and carries the third, and is  *)
(* one only if there are three, for every text that does not end in a tab: *)
(* behind one the zero that follows counts as a word of its own.           *)
MessageIsThirdWord ==
    command[Len(command)] # "tab" /\ answer.kind # "none" =>
        IF \E i, j, k \in Starts(command) : IsDirect(command, i, j, k)
        THEN \E i, j, k \in Starts(command) :
                /\ IsDirect(command, i, j, k)
                /\ answer = [kind |-> "message", to |-> Copied(Word(command, j)),
                             text |-> Word(command, k)]
        ELSE answer.kind = "error"

=============================================================================
