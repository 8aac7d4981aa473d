SPECIFICATION AlarmsSpec
CONSTANTS
  a1 = a1
  a2 = a2
  Alarm = {a1, a2}
  List = list
  NoAlarm = none
  Irqs = {0, 1}
  Timer = 0
  Wrap = 4
  Delays = {0, 2}
  Periods = {1, 3}
INVARIANTS OnlyMoreUrgent HandlerThere
PROPERTIES CalledOnTime TickServed
