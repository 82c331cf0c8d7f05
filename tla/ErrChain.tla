------------------------------ MODULE ErrChain ------------------------------
(***************************************************************************)
(* errchain (src/shared/errchain/src/lib.rs): the ErrorChain every Result *)
(* of the bootloader carries on failure.  err!, ensure! and add! start a   *)
(* chain at the line that detects the error; every `?` that passes it on   *)
(* appends a link (Try::from_error, #[track_caller], so the file and line  *)
(* of the `?`); efi_main prints it with {:?}, one message per link, padded *)
(* so the messages start in one column.                                    *)
(*                                                                         *)
(* A chain is the record [chain, max_padding]: chain is the sequence of    *)
(* the chain_len Messages in use (the rest of the array holds              *)
(* Message::empty() and is never read), max_padding the widest            *)
(* `file` plus line digits seen.  file!() and Location::file() are the     *)
(* paths rustc was given; FileLen gives their lengths in bytes.            *)
(***************************************************************************)
EXTENDS Integers, Sequences

CONSTANT FileLen    \* the length of each source path the chain may name

MAX_CHAIN_LEN == 8

\* A Message: file, line and the error (a name; Error::Continue for a `?`)
Message(file, line, error) == [file |-> file, line |-> line, error |-> error]

\* The site of an err!, ensure!, add! or `?`: file!() / Location and line
Site(file, line) == [file |-> file, line |-> line]

\* The digits of a line number (match line { 0..=9 => 1, ... }); no source
\* file has a million lines, so the panic arm is never taken
LineLen(line) ==
    CASE line <= 9     -> 1
      [] line <= 99    -> 2
      [] line <= 999   -> 3
      [] line <= 9999  -> 4
      [] line <= 99999 -> 5
      [] OTHER         -> 6

\* The width of a message's `file` and line, which max_padding tracks
Width(file, line) == FileLen[file] + LineLen(line)

\* ErrorChain::new_with_debug (and new, through #[track_caller])
NewWithDebug(file, line, error) ==
    [chain |-> <<Message(file, line, error)>>, max_padding |-> Width(file, line)]

\* ErrorChain::last: the newest link (chain_len is never 0)
LastLink(c) == c.chain[Len(c.chain)]

\* extend_chain without the max_padding update (mutation of ExtendChain)
ExtendChainKeepPadding(c, file, line, error) ==
    IF Len(c.chain) = MAX_CHAIN_LEN THEN c
    ELSE [c EXCEPT !.chain = Append(@, Message(file, line, error))]

\* extend_chain: a full chain is returned as it is; otherwise the message
\* is appended and max_padding grows to its width
ExtendChain(c, file, line, error) ==
    IF Len(c.chain) = MAX_CHAIN_LEN THEN c
    ELSE [chain       |-> Append(c.chain, Message(file, line, error)),
          max_padding |-> IF c.max_padding >= Width(file, line)
                          THEN c.max_padding ELSE Width(file, line)]

\* Try::from_error at the `?` at site s: a chain whose last link is already
\* s (the `?` an add! expands to, right after its new_with_debug) is passed
\* on as it is; otherwise a Continue link for s is added
FromError(c, s) ==
    IF LastLink(c).line = s.line /\ LastLink(c).file = s.file THEN c
    ELSE ExtendChain(c, s.file, s.line, "Continue")

\* err!(e) and ensure!(cond, e) at site s: a new chain holding e
Raise(s, e) == NewWithDebug(s.file, s.line, e)

\* add!(a, b) overflowing at site s: new_with_debug(file!(), line!(),
\* AddOverflow) and the macro's own `?`
AddOverflowAt(s) == FromError(Raise(s, "AddOverflow"), s)

\* The chain that reaches the caller of the `?`s at the sites in order
RECURSIVE Propagate(_, _)
Propagate(c, sites) ==
    IF sites = <<>> THEN c ELSE Propagate(FromError(c, Head(sites)), Tail(sites))

SaturatingSub(a, b) == IF a > b THEN a - b ELSE 0

(***************************************************************************)
(* <ErrorChain as Debug>::fmt: each link is written as "file:line:", then *)
(* max_padding - len(file) - line digits + 1 spaces (saturating), then the *)
(* message.  MessageColumn is the column the i-th message starts in.       *)
(***************************************************************************)
Padding(c, i) ==
    LET m == c.chain[i]
    IN  SaturatingSub(SaturatingSub(c.max_padding, FileLen[m.file]), LineLen(m.line)) + 1

MessageColumn(c, i) ==
    LET m == c.chain[i]
    IN  FileLen[m.file] + 1 + LineLen(m.line) + 1 + Padding(c, i)

=============================================================================
