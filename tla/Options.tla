-------------------------------- MODULE Options --------------------------------
(***************************************************************************)
(* parse_options: the load options, token by token.  A token is a record   *)
(* of its text and the digits in it: text "number" for one that is all     *)
(* digits, "--target=" for one that starts so and goes on with the digits, *)
(* or with something else if there are none.  Spaces, quotes and empty     *)
(* tokens separate tokens and have no other meaning.                       *)
(***************************************************************************)
EXTENDS Integers, Sequences

CONSTANTS
  CommandLines,  \* load options: sequences of tokens
  EfiNames,      \* texts that end in .efi
  Word           \* 2^32

\* Tokens are not empty, and one that is all digits has one.
ASSUME OptionsAssumption ==
  /\ \A c \in CommandLines :
       /\ c \in Seq([text : STRING, digits : Seq(0 .. 9)])
       /\ \A k \in 1 .. Len(c) :
            c[k].text # "" /\ (c[k].text = "number" => c[k].digits # <<>>)
  /\ Word \in Nat \ {0} /\ Word % 2 = 0

VARIABLES
  line,           \* the tokens, or NoLoadOptions
  pos,            \* tokens read: token_index
  expect_target,
  opts,
  parsing         \* "tokens", "parsed", "invalid"

optionVars == <<line, pos, expect_target, opts, parsing>>

NoToken       == [text |-> "", digits |-> <<>>]
NoLoadOptions == <<NoToken>>

NoOptions ==
  [help |-> FALSE, list_block |-> FALSE, packets |-> FALSE, flash |-> FALSE,
   usb_ffu |-> FALSE, yes |-> FALSE, target |-> -1, path |-> NoToken]

OptionsInit ==
  /\ line \in CommandLines \cup {NoLoadOptions}
  /\ pos = 0
  /\ expect_target = FALSE
  /\ opts = NoOptions
  /\ parsing = "tokens"

\* parse_uint_token: each turn in 32 bits, the sum cast to int.
AsInt(value) == IF value >= Word \div 2 THEN value - Word ELSE value

Turns(digits) ==
  LET value[k \in 0 .. Len(digits)] ==
        IF k = 0 THEN 0 ELSE (value[k - 1] * 10 + digits[k]) % Word
  IN  value

parse_uint_token(digits) == AsInt(Turns(digits)[Len(digits)])

token == line[pos + 1]

Next_token(o, expects) ==
  /\ opts' = o
  /\ expect_target' = expects
  /\ pos' = pos + 1
  /\ UNCHANGED <<line, parsing>>

\* A number, or EFI_INVALID_PARAMETER.
SetTarget(digits) ==
  IF digits = <<>>
    THEN parsing' = "invalid" /\ UNCHANGED <<line, pos, expect_target, opts>>
    ELSE Next_token([opts EXCEPT !.target = parse_uint_token(digits)], FALSE)

Reading == parsing = "tokens" /\ line # NoLoadOptions /\ pos < Len(line)

IsName == pos = 0 /\ token.text \in EfiNames

\* The name of the app, if it comes first.
SkipName == Reading /\ IsName /\ Next_token(opts, expect_target)

\* The token after --target, whatever it looks like.
TakeTarget ==
  /\ Reading /\ ~IsName
  /\ expect_target
  /\ SetTarget(IF token.text = "number" THEN token.digits ELSE <<>>)

Info_FlashOnly == [opts EXCEPT !.flash = FALSE]
Info == [opts EXCEPT !.packets = FALSE, !.flash = FALSE]

\* What a token that needs no other does to the options: the first one that is none
\* of them is the path.
Effect(text) ==
  CASE text \in {"--help", "-h"}         -> [opts EXCEPT !.help = TRUE]
    [] text = "--list-block"             -> [opts EXCEPT !.list_block = TRUE]
    [] text = "--packets"                -> [opts EXCEPT !.packets = TRUE]
    [] text = "--info"                   -> Info
    [] text = "--flash"                  -> [opts EXCEPT !.flash = TRUE]
    [] text \in {"--usb-ffu", "--usb"}   -> [opts EXCEPT !.usb_ffu = TRUE]
    [] text = "--yes"                    -> [opts EXCEPT !.yes = TRUE]
    [] OTHER                             -> [opts EXCEPT !.path = IF @ = NoToken THEN token ELSE @]

TakeOption ==
  /\ Reading /\ ~IsName
  /\ ~expect_target
  /\ CASE token.text = "--target"  -> Next_token(opts, TRUE)
       [] token.text = "--target=" -> SetTarget(token.digits)
       [] OTHER                    -> Next_token(Effect(token.text), FALSE)

\* Without load options the app shows its usage.
EndOfLine ==
  /\ parsing = "tokens"
  /\ line = NoLoadOptions \/ pos = Len(line)
  /\ parsing' = IF expect_target THEN "invalid" ELSE "parsed"
  /\ opts' = [opts EXCEPT !.help = @ \/ line = NoLoadOptions]
  /\ UNCHANGED <<line, pos, expect_target>>

ParseOptions == SkipName \/ TakeTarget \/ TakeOption \/ EndOfLine

-------------------------------------------------------------------------------
(* What a command line means, without reading it token by token. *)

\* The tokens after the app's name, by position.
Tokens ==
  IF line = NoLoadOptions THEN {}
  ELSE {k \in 1 .. Len(line) : k = 1 => line[k].text \notin EfiNames}

IsValue(k) == k - 1 \in Tokens /\ line[k - 1].text = "--target"
Options == {k \in Tokens : ~IsValue(k)}

WellFormed ==
  \A k \in Tokens :
    /\ line[k].text = "--target" => k + 1 \in Tokens /\ line[k + 1].text = "number"
    /\ line[k].text = "--target=" => line[k].digits # <<>>

Says(text)  == \E k \in Options : line[k].text = text
\* Said, and not taken back by a later --info.
Stands(text) ==
  \E k \in Options :
    line[k].text = text /\ \A j \in Options : j > k => line[j].text # "--info"

\* The number that the first k digits make.
Numbered(digits) ==
  LET number[k \in 0 .. Len(digits)] ==
        IF k = 0 THEN 0 ELSE number[k - 1] * 10 + digits[k]
  IN  number

Decimal(digits) == Numbered(digits)[Len(digits)]

\* The numbers given for a target: the last one counts.
Given == {k \in Tokens : IsValue(k) \/ line[k].text = "--target="}
Typed == Decimal(line[CHOOSE k \in Given : \A j \in Given : j <= k].digits)

Flags == {"--help", "-h", "--list-block", "--packets", "--info", "--flash", "--usb-ffu",
          "--usb", "--yes", "--target", "--target="}
Paths == {k \in Options : line[k].text \notin Flags}

Described ==
  [help |-> Says("--help") \/ Says("-h") \/ line = NoLoadOptions,
   list_block |-> Says("--list-block"),
   packets |-> Stands("--packets"),
   flash |-> Stands("--flash"),
   usb_ffu |-> Says("--usb-ffu") \/ Says("--usb"),
   yes |-> Says("--yes"),
   target |-> IF Given = {} THEN -1 ELSE AsInt(Typed % Word),
   path |-> IF Paths = {} THEN NoToken
            ELSE line[CHOOSE k \in Paths : \A j \in Paths : k <= j]]

\* Token by token, with a flag that waits for the number and options that take others
\* back, the loop finds what the line as a whole says: --info takes back the --flash
\* and --packets before it and not those after it, the last target and the first path
\* count, the word after --target is nothing else, and only a line with a target that
\* is no number is refused (main.c:92-183).
OptionsAsGiven ==
  /\ parsing = "parsed" => WellFormed /\ opts = Described
  /\ parsing = "invalid" => ~WellFormed

===============================================================================
