\* A ring of three slots wraps in both pointers; two elements show an order.
\* In the issue queue, four slots hold every pattern of holes, and there may be
\* an update or a pop, another one, and a compress in a cycle.
CONSTANTS
  Elem = {a, b}
  Size = 3
  QueueSize = 4
  MAX_REQUESTS = 2
SPECIFICATION QueuesSpec
INVARIANTS PointersOK RoomIsReal
PROPERTIES ImplementsQueue ImplementsList
