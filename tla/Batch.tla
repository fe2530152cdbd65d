-------------------------------- MODULE Batch --------------------------------
(* How coro::batch splits n elements, numbered from 0, into batches.          *)
EXTENDS Integers

Lesser(a, b) == IF a < b THEN a ELSE b
Ceiling(a, b) == (a + b - 1) \div b

DefaultBatchSize(total, workers) ==
    LET w == IF workers = 0 THEN 1 ELSE workers
    IN  IF total <= w THEN 1 ELSE Ceiling(total, w)

BatchSize(n, batch_size, workers) ==
    IF batch_size = 0 THEN DefaultBatchSize(n, workers) ELSE batch_size

Batches(n, size) == Ceiling(n, size)
BatchBegin(size, b) == b * size

\* Mutant: the end of a batch is taken to be inclusive.
BatchEndInclusive(n, size, b) == Lesser(BatchBegin(size, b) + size + 1, n)

BatchEnd(n, size, b) == Lesser(BatchBegin(size, b) + size, n)
=============================================================================
