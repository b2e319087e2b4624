\* Bursts of writes against the debounce timer. Once the writes are done
\* and the callback has run, the goroutine blocks in select for ever: the
\* system really stops there.
CONSTANTS
    MaxWrites = 6
    MaxEvents = 3
SPECIFICATION Spec
PROPERTY ImplementsPromise
CHECK_DEADLOCK FALSE
