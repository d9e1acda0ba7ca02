SPECIFICATION Spec
CONSTANTS
 s1=s1
 s2=s2
 Socks = {s1,s2}
 UdpSock = s1
 MaxMessages <- MCMaxMessages
 Window=2
 Faults = {"partial","reset","zero","down","urgent"}
 Main = 0
 Listening = Listening
 Threads={1,2}
 MaxEvents={1,2}
 MessagesTo <- MCMessagesTo
 Servers = {"event","async","nb","blocking"}
INVARIANTS StructuresAgree
PROPERTIES KeepsPromise DataIsEchoed ClosedIsForgotten
CHECK_DEADLOCK FALSE
