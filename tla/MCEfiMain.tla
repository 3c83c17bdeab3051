------------------------------ MODULE MCEfiMain -------------------------------
(* Instances of EfiMain for TLC: files, targets and command lines. *)
EXTENDS EfiMain
LOCAL INSTANCE SequencesExt

Loc(m, b) == [method |-> m, block |-> b]

\* Two entries on a target of 22 two-byte blocks, through a buffer of four: six
\* blocks written to two places, then four blocks written to two places.
TwoEntries ==
  << [first |-> 0, byte_count |-> 12, block_size |-> 2,
      locations |-> <<Loc(0, 0), Loc(0, 10)>>],
     [first |-> 12, byte_count |-> 8, block_size |-> 4,
      locations |-> <<Loc(0, 3), Loc(0, 9)>>] >>

\* The last place starts on the target and runs over its end by one block.
PastTheEnd ==
  << [first |-> 0, byte_count |-> 8, block_size |-> 2,
      locations |-> <<Loc(0, 0), Loc(0, 4)>>],
     [first |-> 8, byte_count |-> 12, block_size |-> 2,
      locations |-> <<Loc(0, 8), Loc(0, 17)>>] >>

\* One that fits and one that does not.
TwoPlans == {TwoEntries, PastTheEnd}

TwentyBytes == [k \in 1 .. 20 |-> k % 8]

\* An empty target, and one that holds something else.
TwoDisks == {[a \in 0 .. (LastBlock + 1) * MediaBlock - 1 |-> b] : b \in {0, 8}}

OneError == {EFI_DEVICE_ERROR}

Names == {"UfpFfu.efi"}

T(text) == [text |-> text, digits |-> <<>>]
N(digits) == [text |-> "number", digits |-> digits]
To(digits) == [text |-> "--target=", digits |-> digits]

\* Numbers of a disk, of none, one that becomes negative, one that becomes another disk.
Numbers == {<<1>>, <<5>>, <<2, 0>>, <<3, 3>>}

Words ==
  {T(text) : text \in {"UfpFfu.efi", "--help", "-h", "--list-block", "--packets", "--info",
                       "--flash", "--usb-ffu", "--usb", "--yes", "--target", "a.ffu"}}
    \cup {To(digits) : digits \in Numbers \cup {<<>>}} \cup {N(<<1>>)}

\* Every line of up to two words, and lines that use a disk, in every order.
Orders(words) == SetToSeqs(words)

UsefulLines ==
  Orders({T("--flash"), T("a.ffu"), T("--yes"), To(<<1>>), T("--info")})
    \cup Orders({T("--flash"), T("a.ffu"), To(<<3, 3>>), T("--packets")})
    \cup Orders({T("--packets"), T("a.ffu"), T("--info"), T("b.ffu")})
    \cup UNION {Orders({T("--usb"), T("--yes"), To(n), T("--info")}) : n \in Numbers}
    \cup {<<T("UfpFfu.efi"), T("--flash")>> \o o :
            o \in Orders({T("a.ffu"), T("--target"), N(<<1>>), To(<<0>>)})}

Lines == BoundedSeq(Words, 2) \cup UsefulLines

===============================================================================
