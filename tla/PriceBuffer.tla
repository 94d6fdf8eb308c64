----------------------------- MODULE PriceBuffer -----------------------------
(***************************************************************************)
(* The publisher price buffer account of pyth-price-publisher             *)
(* (accounts/buffer.rs): a packed header (format, publisher, slot,        *)
(* num_prices) followed by BufferedPrice records, written by create and   *)
(* extend and decoded by read. The callers are arbitrary sequences of     *)
(* calls on one account. In a Solana instruction an error or a panic      *)
(* discards every write of the instruction (Rollback); an off-chain user  *)
(* of the crate keeps what was written before the error.                  *)
(***************************************************************************)
EXTENDS Integers, Sequences, FiniteSetsExt, Bitwise

CONSTANTS
    DataLens,       \* possible lengths of the account data, in bytes
    MaxBatch,       \* records in one extend call
    MaxCalls,       \* extend calls explored
    NumPricesMax,   \* u32::MAX, the bound of num_prices' checked_add
    IndexBits,      \* 28: the feed index's bits
    StatusBits,     \* 4: the trading status's bits
    Rollback        \* a failed call leaves the account as it was

VARIABLES
    dataLen,        \* data.len(), fixed when the account is allocated
    format,         \* header.format
    numPrices,      \* header.num_prices
    cells,          \* the packed word of the record at each index
    log,            \* the (feed index, status) of every record extend accepted
    calls

vars == <<dataLen, format, numPrices, cells, log, calls>>

FORMAT == "a9cbe66f"  \* 2848712303, compared only for equality
Unset == "00000000"   \* the format field of a zeroed account
Foreign == "ffffffff" \* the format of an account of another layout
HeaderSize == 4 + 32 + 8 + 4          \* size_of::<BufferHeader>(), packed
PriceSize == 4 + 8 + 8                \* size_of::<BufferedPrice>(), packed
Slots == 1 .. ((Max(DataLens) - HeaderSize) \div PriceSize)
PricesLen == dataLen - HeaderSize

----------------------------------------------------------------------------
(* BufferedPrice: 4 high bits of trading status, 28 low bits of feed      *)
(* index, in one u32; price and confidence are left out. The widths are   *)
(* parameters: the code's 28 and 4 make words beyond TLC's integers, so   *)
(* the packing is checked at smaller widths that keep the layout (the     *)
(* status bits fill the word).                                             *)

(* Fault variant of the check in BufferedPrice::new.                       *)
NewPriceOkOffByOne(feed_index, trading_status) ==
    ~(feed_index = 0 \/ feed_index > 2^IndexBits \/ trading_status >= 2^StatusBits)

(* BufferedPrice::new rejects these inputs with PublisherPriceError.       *)
NewPriceOk(feed_index, trading_status) ==
    ~(feed_index = 0 \/ feed_index >= 2^IndexBits \/ trading_status >= 2^StatusBits)

(* (trading_status << 28) | feed_index, with u32's shift.                  *)
Pack(feed_index, trading_status) ==
    ((trading_status * 2^IndexBits) % 2^(IndexBits + StatusBits)) | feed_index

TradingStatusOf(x) == shiftR(x, IndexBits)

FeedIndexOf(x) == x & (2^IndexBits - 1)

(* Every input up to one past each field's range, and those new() takes.  *)
Inputs == (0 .. 2^IndexBits) \X (0 .. 2^StatusBits)
Records == {in \in Inputs : NewPriceOk(in[1], in[2])}

----------------------------------------------------------------------------
(* The word at index i of the price area; never written, it is zero.      *)
Cell(i) == IF i \in DOMAIN cells THEN cells[i] ELSE 0

TypeOK ==
    /\ dataLen \in DataLens
    /\ format \in {Unset, FORMAT, Foreign}
    /\ numPrices \in 0 .. NumPricesMax
    /\ cells \in [Slots -> 0 .. 2^(IndexBits + StatusBits) - 1]
    \* a stored feed index is nonzero and fits its bits, a status its bits
    /\ log \in Seq((1 .. 2^IndexBits - 1) \X (0 .. 2^StatusBits - 1))
    /\ calls \in 0 .. MaxCalls

(* read: the header and the first num_prices records, decoded by          *)
(* feed_index() and trading_status(), or an error.                         *)
Read ==
    IF dataLen < HeaderSize THEN [ok |-> FALSE, err |-> "DataTooShort"]
    ELSE IF format # FORMAT THEN [ok |-> FALSE, err |-> "FormatMismatch"]
    ELSE IF numPrices * PriceSize > PricesLen THEN [ok |-> FALSE, err |-> "InvalidNumPrices"]
    ELSE [ok |-> TRUE,
          prices |-> [i \in 1 .. numPrices |-> <<FeedIndexOf(Cell(i)), TradingStatusOf(Cell(i))>>]]

(* create: on a zeroed account long enough for the header, write a fresh  *)
(* header. The price area is left as it is.                                *)
Create ==
    /\ dataLen >= HeaderSize
    /\ format = Unset
    /\ format' = FORMAT
    /\ numPrices' = 0
    /\ UNCHANGED <<dataLen, cells, log, calls>>

(* The records of a batch stored from index from + 1 on.                  *)
Stored(from, batch) ==
    [i \in Slots |-> IF i - from \in 1 .. Len(batch)
                     THEN Pack(batch[i - from][1], batch[i - from][2]) ELSE cells[i]]

(* Fault variant: the destination starts after the updated num_prices.    *)
ExtendSwapped ==
    /\ calls < MaxCalls /\ dataLen >= HeaderSize /\ format = FORMAT
    /\ \E k \in 0 .. MaxBatch : \E batch \in [1 .. k -> Records] :
         LET n == numPrices + k IN
         /\ n <= NumPricesMax
         /\ IF n * PriceSize + k * PriceSize <= PricesLen
            THEN /\ numPrices' = n
                 /\ cells' = Stored(n, batch)
                 /\ log' = log \o batch
            ELSE IF Rollback THEN UNCHANGED <<numPrices, cells, log>>
            ELSE numPrices' = n /\ UNCHANGED <<cells, log>>
    /\ calls' = calls + 1
    /\ UNCHANGED <<dataLen, format>>

(* read_mut then extend with k records built by BufferedPrice::new (a     *)
(* length that is not a multiple of the record size returns InvalidLength *)
(* first). num_prices is increased (checked_add panics past u32::MAX)     *)
(* before the range start..end of the price area is checked;              *)
(* NotEnoughSpace returns with the new count already in the header.       *)
Extend ==
    /\ calls < MaxCalls /\ dataLen >= HeaderSize /\ format = FORMAT
    /\ \E k \in 0 .. MaxBatch : \E batch \in [1 .. k -> Records] :
         LET n == numPrices + k IN
         /\ n <= NumPricesMax
         /\ IF numPrices * PriceSize + k * PriceSize <= PricesLen
            THEN /\ numPrices' = n
                 /\ cells' = Stored(numPrices, batch)
                 /\ log' = log \o batch
            ELSE IF Rollback THEN UNCHANGED <<numPrices, cells, log>>
            ELSE numPrices' = n /\ UNCHANGED <<cells, log>>
    /\ calls' = calls + 1
    /\ UNCHANGED <<dataLen, format>>

(* A fresh account is zeroed; an account of another program has its own   *)
(* format.                                                                 *)
Init ==
    /\ dataLen \in DataLens
    /\ format \in {Unset, Foreign}
    /\ numPrices = 0
    /\ cells = [i \in Slots |-> 0]
    /\ log = <<>>
    /\ calls = 0

Next == Create \/ Extend

Spec == Init /\ [][Next]_vars

----------------------------------------------------------------------------
(* Properties.                                                             *)

(* Once the account is created, read succeeds and returns exactly the     *)
(* feed indices and trading statuses of the records every extend call     *)
(* accepted, in order: BufferedPrice's packing (buffer.rs:45-67), extend's *)
(* count update and copy (buffer.rs:141-158) and read's bound             *)
(* (buffer.rs:86-94) agree, whatever calls failed on the way.              *)
ReadReturnsExtended ==
    (dataLen >= HeaderSize /\ format = FORMAT) => (Read.ok /\ Read.prices = log)

=============================================================================
