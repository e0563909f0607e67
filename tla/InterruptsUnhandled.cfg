CONSTANTS
    Build = "header"
    Sources = {10}
    Kinds = {"FALL"}
    Prios = {1}
    Calls = {"cpu_interrupt_enable", "plic_interrupt_enable", "gpio_interrupt_enable"}
SPECIFICATION Spec
PROPERTIES RegisteredSourceIsHandled
CHECK_DEADLOCK FALSE
